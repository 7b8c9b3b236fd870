----------------------------- MODULE XmlTreeProofs -----------------------------
(***************************************************************************)
(* The tree is sound whatever the document: every link leads forward, so   *)
(* that navigation ends, and the two counts of nesting are right.  And it  *)
(* is the document: a node for every element outside the skipped sections, *)
(* with the parent and the children of that element, in their order.  What *)
(* a node holds is what its element has, and a search finds the first      *)
(* element there is (TextIsKept, NavigationIsTrue).                        *)
(*                                                                         *)
(* The first part types the steps (TreeInv).  The second follows the chain *)
(* of siblings that push_node builds (Chained) to the list the iterator    *)
(* yields (ChildrenAre), and keeps the tree, the document and the stacks   *)
(* of both together (DocumentInv).  The third adds the shared arena, which *)
(* only grows, so that a span that once read back its text always does,    *)
(* and the character data at hand (ContentInv).  The last follows a search *)
(* below a node, which is in the order of the document (Preorder).         *)
(*                                                                         *)
(* A node, the tree and the lists are typed by their shape alone, for what *)
(* the other fields of a node hold does not matter to its links.           *)
(***************************************************************************)
EXTENDS XmlTree, Lists

IsNode(r) ==
  r \in [tag : {r.tag}, name : {r.name}, parent : {r.parent},
         firstChild : {r.firstChild}, nextSibling : {r.nextSibling},
         attrStart : {r.attrStart}, attrLen : {r.attrLen},
         text : {r.text}, hasText : {r.hasText}]
IsDom(d) ==
  d \in [nodes : {d.nodes}, lastChild : {d.lastChild}, attrs : {d.attrs},
         arena : {d.arena}, skipped : {d.skipped}, xmlns : {d.xmlns}]

\* A list of nodes, and of their last children, whose links lead forward.
After(n, nodes) == {NONE} \cup n + 1 .. Len(nodes)
Linkage(nodes, lastChild) ==
  /\ IsList(nodes) /\ IsList(lastChild)
  /\ Len(lastChild) = Len(nodes)
  /\ \A n \in 1 .. Len(nodes) :
       /\ IsNode(nodes[n])
       /\ nodes[n].parent \in 0 .. n - 1
       /\ nodes[n].firstChild \in After(n, nodes)
       /\ nodes[n].nextSibling \in After(n, nodes)
       /\ lastChild[n] \in After(n, nodes)
Sound(d) == IsDom(d) /\ Linkage(d.nodes, d.lastChild)

TreeInv ==
  /\ Sound(dom)
  /\ open \in Seq(1 .. Len(dom.nodes))
  /\ IsList(inside)
  /\ skipping \in Nat
  /\ Len(open) + skipping = Len(inside)

-------------------------------------------------------------------------------
\* The changes the code makes, under names the provers keep apart.
PutFirst(r, x)       == [r EXCEPT !.firstChild = x]
PutNext(r, x)        == [r EXCEPT !.nextSibling = x]
PutAttributes(r, x, y) == [r EXCEPT !.attrStart = x, !.attrLen = y]
PutText(r, x, y)     == [r EXCEPT !.text = x, !.hasText = y]

\* A node is still one when a field of it changes.
LEMMA NodeFirstChild ==
  ASSUME NEW r, IsNode(r), NEW x
  PROVE  /\ IsNode(PutFirst(r, x))
         /\ PutFirst(r, x).parent = r.parent
         /\ PutFirst(r, x).firstChild = x
         /\ PutFirst(r, x).nextSibling = r.nextSibling
  BY DEF IsNode, PutFirst
\* One whose next sibling is put in.
LEMMA NodeNextSibling ==
  ASSUME NEW r, IsNode(r), NEW x
  PROVE  /\ IsNode(PutNext(r, x))
         /\ PutNext(r, x).parent = r.parent
         /\ PutNext(r, x).firstChild = r.firstChild
         /\ PutNext(r, x).nextSibling = x
  BY DEF IsNode, PutNext
\* One whose text is put in.
LEMMA NodeText ==
  ASSUME NEW r, IsNode(r), NEW x, NEW y
  PROVE  /\ IsNode(PutText(r, x, y))
         /\ PutText(r, x, y).parent = r.parent
         /\ PutText(r, x, y).firstChild = r.firstChild
         /\ PutText(r, x, y).nextSibling = r.nextSibling
  BY DEF IsNode, PutText
\* One whose attributes are put in.
LEMMA NodeAttributes ==
  ASSUME NEW r, IsNode(r), NEW x, NEW y
  PROVE  /\ IsNode(PutAttributes(r, x, y))
         /\ PutAttributes(r, x, y).parent = r.parent
         /\ PutAttributes(r, x, y).firstChild = r.firstChild
         /\ PutAttributes(r, x, y).nextSibling = r.nextSibling
  BY DEF IsNode, PutAttributes

-------------------------------------------------------------------------------
\* A node is pushed, with its links, into a sound list.
LEMMA PushLinks ==
  ASSUME NEW nodes, NEW lastChild, Linkage(nodes, lastChild),
         NEW node, IsNode(node), node.firstChild = NONE, node.nextSibling = NONE,
         node.parent \in 0 .. Len(nodes)
  PROVE  Linkage(Append(nodes, node), Append(lastChild, NONE))
  <1> DEFINE pushed == Append(nodes, node)
             last   == Append(lastChild, NONE)
  <1>1. /\ IsList(pushed)
        /\ Len(pushed) = Len(nodes) + 1
        /\ \A i \in 1 .. Len(nodes) : pushed[i] = nodes[i]
        /\ pushed[Len(nodes) + 1] = node
    BY ListAppend DEF Linkage
  <1>2. /\ IsList(last)
        /\ Len(last) = Len(nodes) + 1
        /\ \A i \in 1 .. Len(nodes) : last[i] = lastChild[i]
        /\ last[Len(nodes) + 1] = NONE
    BY ListAppend DEF Linkage
  <1> HIDE DEF pushed, last
  <1>3. ASSUME NEW n \in 1 .. Len(pushed)
        PROVE  /\ IsNode(pushed[n])
               /\ pushed[n].parent \in 0 .. n - 1
               /\ pushed[n].firstChild \in After(n, pushed)
               /\ pushed[n].nextSibling \in After(n, pushed)
               /\ last[n] \in After(n, pushed)
    <2>1. Len(nodes) \in Nat
      BY DEF Linkage, IsList
    <2>2. CASE n = Len(nodes) + 1
      BY <1>1, <1>2, <2>1, <2>2 DEF After
    <2>3. CASE n \in 1 .. Len(nodes)
      BY <1>1, <1>2, <2>1, <2>3 DEF After, Linkage
    <2> QED BY <1>1, <2>1, <2>2, <2>3
  <1>4. Linkage(pushed, last)
    BY <1>1, <1>2, <1>3 DEF Linkage
  <1> QED BY <1>4 DEF pushed, last

\* A node of the list is changed, its links to ones that lead forward.
LEMMA ChangeLinks ==
  ASSUME NEW nodes, NEW lastChild, Linkage(nodes, lastChild),
         NEW k \in 1 .. Len(nodes), NEW node, IsNode(node),
         node.parent = nodes[k].parent,
         node.firstChild \in After(k, nodes), node.nextSibling \in After(k, nodes)
  PROVE  Linkage(Put(nodes, k, node), lastChild)
  <1> DEFINE changed == Put(nodes, k, node)
  <1>1. /\ IsList(changed)
        /\ Len(changed) = Len(nodes)
        /\ \A i \in 1 .. Len(nodes) : changed[i] = IF i = k THEN node ELSE nodes[i]
    <2>1. IsList(nodes)
      BY DEF Linkage
    <2> QED BY <2>1, ListPut
  <1> HIDE DEF changed
  <1>2. ASSUME NEW n \in 1 .. Len(changed)
        PROVE  /\ IsNode(changed[n])
               /\ changed[n].parent \in 0 .. n - 1
               /\ changed[n].firstChild \in After(n, changed)
               /\ changed[n].nextSibling \in After(n, changed)
               /\ lastChild[n] \in After(n, changed)
    <2>1. n \in 1 .. Len(nodes)
      BY <1>1
    <2>2. CASE n = k
      BY <1>1, <2>1, <2>2 DEF After, Linkage
    <2>3. CASE n # k
      BY <1>1, <2>1, <2>3 DEF After, Linkage
    <2> QED BY <2>2, <2>3
  <1>3. Linkage(changed, lastChild)
    BY <1>1, <1>2 DEF Linkage
  <1> QED BY <1>3 DEF changed

\* The last child of a node is changed to one that stands behind it.
LEMMA ChangeLast ==
  ASSUME NEW nodes, NEW s, Linkage(nodes, s),
         NEW k \in 1 .. Len(s), NEW x, x \in After(k, nodes)
  PROVE  Linkage(nodes, Put(s, k, x))
  <1>1. IsList(s)
    BY DEF Linkage
  <1>2. /\ IsList(Put(s, k, x))
        /\ Len(Put(s, k, x)) = Len(s)
        /\ \A i \in 1 .. Len(s) : Put(s, k, x)[i] = IF i = k THEN x ELSE s[i]
    BY <1>1, ListPut
  <1> QED BY <1>1, <1>2 DEF Linkage

-------------------------------------------------------------------------------
\* The steps of the tree.
LEMMA PushNameSound ==
  ASSUME NEW d, IsDom(d), NEW name
  PROVE  /\ IsDom(PushName(d, name))
         /\ PushName(d, name).nodes = d.nodes
         /\ PushName(d, name).lastChild = d.lastChild
  BY DEF PushName, PushText, IsDom

\* A node that was pushed is linked to its parent and siblings.
LEMMA LinkedSound ==
  ASSUME NEW d, Sound(d), NEW index, index = Len(d.nodes), NEW parent \in 1 .. index - 1,
         d.lastChild[parent] < index
  PROVE  Sound(Linked(d, index, parent)) /\ Len(Linked(d, index, parent).nodes) = index
  <1> DEFINE previous == d.lastChild[parent]
             first == PutFirst(d.nodes[parent], index)
             next  == PutNext(d.nodes[previous], index)
             nodes == IF previous = NONE THEN Put(d.nodes, parent, first)
                      ELSE Put(d.nodes, previous, next)
             last  == Put(d.lastChild, parent, index)
  <1> USE DEF NONE
  <1>1. /\ Linkage(d.nodes, d.lastChild)
        /\ IsList(d.nodes)
        /\ index \in Nat
        /\ Len(d.lastChild) = index
    BY DEF Sound, Linkage, IsList
  <1>2. /\ parent \in 1 .. Len(d.nodes)
        /\ parent \in 1 .. Len(d.lastChild)
        /\ index \in After(parent, d.nodes)
        /\ previous \in After(parent, d.nodes)
    BY <1>1 DEF Linkage, After
  <1>3. Linkage(nodes, d.lastChild) /\ Len(nodes) = index
    <2>1. CASE previous = NONE
      <3>1. /\ IsNode(first)
            /\ first.parent = d.nodes[parent].parent
            /\ first.firstChild \in After(parent, d.nodes)
            /\ first.nextSibling \in After(parent, d.nodes)
        <4>1. IsNode(d.nodes[parent]) /\ d.nodes[parent].nextSibling \in After(parent, d.nodes)
          BY <1>1, <1>2 DEF Linkage
        <4> QED BY <1>2, <4>1, NodeFirstChild
      <3>2. Linkage(Put(d.nodes, parent, first), d.lastChild)
        BY <1>1, <1>2, <3>1, ChangeLinks
      <3>3. Len(Put(d.nodes, parent, first)) = Len(d.nodes)
        BY <1>1, <1>2, ListPut
      <3> QED BY <2>1, <3>2, <3>3
    <2>2. CASE previous # NONE
      <3>1. previous \in 1 .. Len(d.nodes) /\ index \in After(previous, d.nodes)
        BY <1>1, <1>2, <2>2 DEF After
      <3>2. /\ IsNode(next)
            /\ next.parent = d.nodes[previous].parent
            /\ next.firstChild \in After(previous, d.nodes)
            /\ next.nextSibling \in After(previous, d.nodes)
        <4>1. IsNode(d.nodes[previous]) /\ d.nodes[previous].firstChild \in After(previous, d.nodes)
          BY <1>1, <3>1 DEF Linkage
        <4> HIDE DEF previous
        <4> QED BY <3>1, <4>1, NodeNextSibling
      <3>3. Linkage(Put(d.nodes, previous, next), d.lastChild)
        BY <1>1, <3>1, <3>2, ChangeLinks
      <3>4. Len(Put(d.nodes, previous, next)) = Len(d.nodes)
        BY <1>1, <3>1, ListPut
      <3> QED BY <2>2, <3>3, <3>4
    <2> QED BY <2>1, <2>2
  <1> HIDE DEF first, next
  <1>4. Linkage(nodes, last)
    <2>1. index \in After(parent, nodes)
      BY <1>2, <1>3 DEF After
    <2> HIDE DEF nodes
    <2> QED BY <1>2, <1>3, <2>1, ChangeLast
  <1>5. Linked(d, index, parent) = [d EXCEPT !.nodes = nodes, !.lastChild = last]
    <2>1. CASE previous = NONE
      BY <2>1 DEF Linked, first, Put, PutFirst, IsDom, Sound
    <2>2. CASE previous # NONE
      BY <2>2 DEF Linked, next, Put, PutNext, IsDom, Sound
    <2> QED BY <2>1, <2>2
  <1> HIDE DEF nodes, last
  <1> QED BY <1>3, <1>4, <1>5 DEF Sound, IsDom

\* push_node.
LEMMA PushNodeSound ==
  ASSUME NEW d, Sound(d), NEW tag, NEW parent \in 0 .. Len(d.nodes)
  PROVE  /\ Sound(PushNode(d, tag, parent))
         /\ Len(PushNode(d, tag, parent).nodes) = Len(d.nodes) + 1
  <1> DEFINE index == Len(d.nodes) + 1
             node  == [tag |-> tag, name |-> NameSpan(d, tag), parent |-> parent,
                       firstChild |-> NONE, nextSibling |-> NONE,
                       attrStart |-> Len(d.attrs), attrLen |-> 0,
                       text |-> EmptySpan, hasText |-> FALSE]
             p     == [PushName(d, tag) EXCEPT !.nodes = Append(@, node),
                                               !.lastChild = Append(@, NONE)]
  <1> USE DEF NONE
  <1>1. PushNode(d, tag, parent) = IF parent = NONE THEN p ELSE Linked(p, index, parent)
    BY DEF PushNode
  <1>2. IsNode(node) /\ node.firstChild = NONE /\ node.nextSibling = NONE /\ node.parent = parent
    BY DEF IsNode
  <1> HIDE DEF node
  <1>3. IsDom(p) /\ p.nodes = Append(d.nodes, node) /\ p.lastChild = Append(d.lastChild, NONE)
    <2>1. /\ IsDom(PushName(d, tag))
          /\ PushName(d, tag).nodes = d.nodes
          /\ PushName(d, tag).lastChild = d.lastChild
      BY PushNameSound DEF Sound
    <2> QED BY <2>1 DEF IsDom
  <1> HIDE DEF p
  <1>4. Linkage(d.nodes, d.lastChild) /\ IsList(d.nodes) /\ IsList(d.lastChild)
        /\ Len(d.lastChild) = Len(d.nodes) /\ Len(d.nodes) \in Nat
    BY DEF Sound, Linkage, IsList
  <1>5. Linkage(Append(d.nodes, node), Append(d.lastChild, NONE))
    BY <1>2, <1>4, PushLinks
  <1>6. Sound(p) /\ Len(p.nodes) = index
    BY <1>3, <1>4, <1>5, ListAppend DEF Sound
  <1>7. CASE parent = NONE
    BY <1>1, <1>6, <1>7
  <1>8. CASE parent # NONE
    <2>1. parent \in 1 .. index - 1 /\ parent \in 1 .. Len(d.lastChild)
      BY <1>4, <1>8
    <2>2. p.lastChild[parent] = d.lastChild[parent]
      BY <1>3, <1>4, <2>1, ListAppend
    <2>3. d.lastChild[parent] \in After(parent, d.nodes)
      BY <1>4, <2>1 DEF Linkage
    <2>4. p.lastChild[parent] < index
      BY <1>4, <2>1, <2>2, <2>3 DEF After
    <2>5. Sound(Linked(p, index, parent)) /\ Len(Linked(p, index, parent).nodes) = index
      BY <1>6, <2>1, <2>4, LinkedSound
    <2> QED BY <1>1, <1>8, <2>5
  <1> QED BY <1>7, <1>8

\* push_attributes changes the last node alone.
LEMMA PushAttributesSound ==
  ASSUME NEW d, Sound(d), Len(d.nodes) # 0, NEW element, NEW keys
  PROVE  /\ Sound(PushAttributes(d, element, keys))
         /\ Len(PushAttributes(d, element, keys).nodes) = Len(d.nodes)
  <1> DEFINE filled == Filled(d, element, keys)
             k == Len(d.nodes)
             start == Len(d.attrs)
             count == Len(filled.attrs) - Len(d.attrs)
             node == PutAttributes(d.nodes[k], start, count)
             nodes == Put(d.nodes, k, node)
  <1>1. /\ Linkage(d.nodes, d.lastChild)
        /\ IsList(d.nodes)
        /\ k \in 1 .. Len(d.nodes)
    BY DEF Sound, Linkage, IsList
  <1>2. PushAttributes(d, element, keys) =
          [d EXCEPT !.arena = filled.arena, !.attrs = filled.attrs, !.nodes = nodes]
    BY DEF PushAttributes, Put, PutAttributes, Sound, IsDom
  <1> HIDE DEF filled, start, count
  <1>3. /\ IsNode(node)
        /\ node.parent = d.nodes[k].parent
        /\ node.firstChild \in After(k, d.nodes)
        /\ node.nextSibling \in After(k, d.nodes)
    <2>1. /\ IsNode(d.nodes[k])
          /\ d.nodes[k].firstChild \in After(k, d.nodes)
          /\ d.nodes[k].nextSibling \in After(k, d.nodes)
      BY <1>1 DEF Linkage
    <2> HIDE DEF k
    <2> QED BY <2>1, NodeAttributes
  <1> HIDE DEF node, k
  <1>4. Linkage(nodes, d.lastChild)
    BY <1>1, <1>3, ChangeLinks
  <1>5. Len(nodes) = Len(d.nodes)
    BY <1>1, ListPut
  <1> HIDE DEF nodes
  <1> QED BY <1>2, <1>4, <1>5 DEF Sound, IsDom

\* open_element: one more node, with its attributes.
LEMMA OpenElementSound ==
  ASSUME Sound(dom), NEW e, NEW parent \in 0 .. Len(dom.nodes)
  PROVE  /\ Sound(OpenElement(dom, e, parent))
         /\ Len(OpenElement(dom, e, parent).nodes) = Len(dom.nodes) + 1
  <1> DEFINE pushed == PushNode(dom, e.tag, parent)
             filled == PushAttributes(pushed, Len(document) + 1, e.attributes)
  <1>1. Sound(pushed) /\ Len(pushed.nodes) = Len(dom.nodes) + 1
    BY PushNodeSound
  <1>2. Len(dom.nodes) \in Nat
    BY DEF Sound, Linkage, IsList
  <1> HIDE DEF pushed
  <1>3. Sound(filled) /\ Len(filled.nodes) = Len(dom.nodes) + 1
    BY <1>1, <1>2, PushAttributesSound
  <1>4. OpenElement(dom, e, parent) =
          IF dom.nodes = <<>> THEN [filled EXCEPT !.xmlns = "xmlns" \in ToSet(e.attributes)]
          ELSE filled
    BY DEF OpenElement, pushed
  <1> HIDE DEF filled
  <1> QED BY <1>3, <1>4 DEF Sound, IsDom

-------------------------------------------------------------------------------
\* A list without its last entry.
LEMMA FrontList ==
  ASSUME NEW s, IsList(s), s # <<>>
  PROVE  IsList(Front(s)) /\ Len(Front(s)) = Len(s) - 1
  <1>1. Front(s) = SubSeq(s, 1, Len(s) - 1)
    BY DEF Front
  <1> QED BY <1>1, ListFront
\* So too for the entries of a set.
LEMMA SeqFront ==
  ASSUME NEW S, NEW s \in Seq(S), s # <<>>
  PROVE  Front(s) \in Seq(S) /\ Len(Front(s)) = Len(s) - 1
  <1>1. IsList(s) /\ Front(s) = SubSeq(s, 1, Len(s) - 1)
    BY SeqIsList DEF Front
  <1>2. /\ IsList(Front(s)) /\ Len(s) \in Nat \ {0}
        /\ Len(Front(s)) = Len(s) - 1
        /\ \A i \in 1 .. Len(Front(s)) : Front(s)[i] = s[i]
    BY <1>1, ListFront
  <1>3. \A i \in 1 .. Len(Front(s)) : Front(s)[i] \in S
    BY <1>2, ElementOfSeq
  <1> QED BY <1>2, <1>3, ListOfIsSeq

\* The reader's stack grows by one.
LEMMA InsideGrows ==
  ASSUME TreeInv, NEW n
  PROVE  /\ IsList(Append(inside, n))
         /\ Len(Append(inside, n)) = Len(inside) + 1
         /\ Len(inside) \in Nat /\ Len(open) \in Nat
  <1>1. IsList(inside) /\ open \in Seq(1 .. Len(dom.nodes))
    BY DEF TreeInv
  <1> QED BY <1>1, ListAppend DEF IsList

\* Elements that are open are in the tree, so the parent of a new one is.
LEMMA ParentIsOpen ==
  ASSUME TreeInv
  PROVE  Parent \in 0 .. Len(dom.nodes)
  BY DEF TreeInv, Parent, Last, NONE, Sound, Linkage, IsList

\* In a bigger tree they still are.
LEMMA OpenStays ==
  ASSUME NEW m \in Nat, NEW n \in Nat, m <= n, NEW s \in Seq(1 .. m)
  PROVE  s \in Seq(1 .. n)
  BY SeqMonotonic

\* A section that is noted leaves the nodes be.
LEMMA SectionSound ==
  ASSUME Sound(dom), NEW tags
  PROVE  Sound([dom EXCEPT !.skipped = tags]) /\ [dom EXCEPT !.skipped = tags].nodes = dom.nodes
  BY DEF Sound, IsDom

\* Text is put to the element that ends.
LEMMA TextSound ==
  ASSUME Sound(dom), NEW k \in 1 .. Len(dom.nodes), NEW x, NEW y, NEW arena
  PROVE  LET d == [dom EXCEPT !.arena = arena,
                              !.nodes = Put(dom.nodes, k, PutText(dom.nodes[k], x, y))]
         IN Sound(d) /\ Len(d.nodes) = Len(dom.nodes)
  <1> DEFINE node  == PutText(dom.nodes[k], x, y)
             nodes == Put(dom.nodes, k, node)
  <1>1. Linkage(dom.nodes, dom.lastChild) /\ IsList(dom.nodes)
    BY DEF Sound, Linkage
  <1>2. /\ IsNode(node)
        /\ node.parent = dom.nodes[k].parent
        /\ node.firstChild \in After(k, dom.nodes)
        /\ node.nextSibling \in After(k, dom.nodes)
    <2>1. /\ IsNode(dom.nodes[k])
          /\ dom.nodes[k].firstChild \in After(k, dom.nodes)
          /\ dom.nodes[k].nextSibling \in After(k, dom.nodes)
      BY <1>1 DEF Linkage
    <2> QED BY <2>1, NodeText
  <1> HIDE DEF node
  <1>3. Linkage(nodes, dom.lastChild)
    BY <1>1, <1>2, ChangeLinks
  <1>4. Len(nodes) = Len(dom.nodes)
    BY <1>1, ListPut
  <1> HIDE DEF nodes
  <1>5. Sound([dom EXCEPT !.arena = arena, !.nodes = nodes])
        /\ Len([dom EXCEPT !.arena = arena, !.nodes = nodes].nodes) = Len(dom.nodes)
    BY <1>3, <1>4 DEF Sound, IsDom
  <1> QED BY <1>5 DEF nodes, node

\* TreeInv is inductive.
LEMMA TreeInit == Init => TreeInv
  <1> SUFFICES ASSUME Init PROVE TreeInv
    OBVIOUS
  <1>1. IsList(<<>>)
    BY DEF IsList
  <1>2. Sound(dom)
    BY <1>1 DEF Init, Sound, IsDom, Linkage
  <1> QED BY <1>1, <1>2 DEF Init, TreeInv

LEMMA TreeStep == TreeInv /\ [Next]_vars => TreeInv'
  <1> SUFFICES ASSUME TreeInv, [Next]_vars PROVE TreeInv'
    OBVIOUS
  <1> USE DEF NONE
  <1>0. /\ Sound(dom)
        /\ open \in Seq(1 .. Len(dom.nodes)) /\ IsList(inside)
        /\ skipping \in Nat /\ Len(open) + skipping = Len(inside)
        /\ Len(dom.nodes) \in Nat
    BY DEF TreeInv, Sound, Linkage, IsList
  <1>1. ASSUME NEW e \in Elements, StartSkipped(e)
        PROVE  TreeInv'
    <2>1. /\ dom' = dom /\ open' = open /\ skipping' = skipping + 1
          /\ inside' = Append(inside, Len(document) + 1)
      BY <1>1 DEF StartSkipped
    <2>2. IsList(inside') /\ Len(inside') = Len(inside) + 1 /\ Len(inside) \in Nat /\ Len(open) \in Nat
      BY <2>1, InsideGrows
    <2> QED BY <1>0, <2>1, <2>2 DEF TreeInv
  <1>2. ASSUME NEW e \in Elements, StartSection(e)
        PROVE  TreeInv'
    <2>1. Sound(dom') /\ dom'.nodes = dom.nodes
      BY <1>0, <1>2, SectionSound DEF StartSection
    <2>2. /\ open' = open /\ skipping = 0 /\ skipping' = 1
          /\ inside' = Append(inside, Len(document) + 1)
      BY <1>2 DEF StartSection
    <2>3. IsList(inside') /\ Len(inside') = Len(inside) + 1 /\ Len(inside) \in Nat /\ Len(open) \in Nat
      BY <2>2, InsideGrows
    <2> QED BY <1>0, <2>1, <2>2, <2>3 DEF TreeInv
  <1>3. ASSUME NEW e \in Elements, StartElement(e)
        PROVE  TreeInv'
    <2>1. Sound(dom') /\ Len(dom'.nodes) = Len(dom.nodes) + 1
      BY <1>0, <1>3, OpenElementSound, ParentIsOpen DEF StartElement
    <2>2. open \in Seq(1 .. Len(dom'.nodes))
      BY <1>0, <2>1, OpenStays
    <2>3. open' \in Seq(1 .. Len(dom'.nodes)) /\ Len(open') = Len(open) + 1
      BY <1>0, <1>3, <2>1, <2>2 DEF StartElement
    <2>4. /\ IsList(inside') /\ Len(inside') = Len(inside) + 1
          /\ skipping' = skipping
      BY <1>3, InsideGrows DEF StartElement
    <2>5. Len(open) \in Nat /\ Len(inside) \in Nat
      BY InsideGrows
    <2> QED BY <1>0, <2>1, <2>3, <2>4, <2>5 DEF TreeInv
  <1>4. ASSUME NEW e \in Elements, EmptyElement(e)
        PROVE  TreeInv'
    <2>1. Sound(dom') /\ Len(dom'.nodes) \in {Len(dom.nodes), Len(dom.nodes) + 1}
      <3>1. CASE dom' = dom
        BY <1>0, <3>1
      <3>2. CASE dom' = [dom EXCEPT !.skipped = Append(@, e.tag)]
        BY <1>0, <3>2, SectionSound
      <3>3. CASE dom' = OpenElement(dom, e, Parent)
        BY <1>0, <3>3, OpenElementSound, ParentIsOpen
      <3> QED BY <1>4, <3>1, <3>2, <3>3 DEF EmptyElement
    <2>2. open \in Seq(1 .. Len(dom'.nodes))
      BY <1>0, <2>1, OpenStays
    <2>3. UNCHANGED <<open, skipping, inside>>
      BY <1>4 DEF EmptyElement
    <2> QED BY <1>0, <2>1, <2>2, <2>3 DEF TreeInv
  <1>5. CASE End
    <2>1. /\ inside # <<>>
          /\ document' = Closed(document, Last(inside))
          /\ inside' = Front(inside)
      BY <1>5 DEF End, EndSkipped, EndElement
    <2>2. IsList(inside') /\ Len(inside') = Len(inside) - 1 /\ Len(open) \in Nat
      BY <1>0, <2>1, FrontList
    <2>4. CASE EndSkipped
      <3>1. dom' = dom /\ open' = open /\ skipping' = skipping - 1 /\ skipping > 0
        BY <2>4 DEF EndSkipped
      <3> QED BY <1>0, <2>2, <3>1 DEF TreeInv
    <2>5. CASE EndElement
      <3>1. skipping = 0 /\ skipping' = skipping /\ open # <<>>
        BY <1>0, <2>1, <2>5 DEF EndElement
      <3>2. Last(open) \in 1 .. Len(dom.nodes)
        BY <1>0, <3>1 DEF Last
      <3>3. Sound(dom') /\ Len(dom'.nodes) = Len(dom.nodes)
        <4>1. CASE Blank(scratch)
          BY <1>0, <2>5, <4>1 DEF EndElement
        <4>2. CASE ~ Blank(scratch)
          <5>1. dom' = [dom EXCEPT !.arena = dom.arena \o scratch,
                         !.nodes = Put(dom.nodes, Last(open),
                                       PutText(dom.nodes[Last(open)], Span(dom, scratch), TRUE))]
            BY <1>0, <2>5, <3>1, <4>2 DEF EndElement, PushText, Put, PutText, Sound, IsDom
          <5> QED BY <1>0, <3>2, <5>1, TextSound
        <4> QED BY <4>1, <4>2
      <3>4. open' \in Seq(1 .. Len(dom'.nodes)) /\ Len(open') = Len(open) - 1
        <4>1. open' = Front(open)
          BY <2>5, <3>1 DEF EndElement
        <4> QED BY <1>0, <3>1, <3>3, <4>1, SeqFront
      <3> QED BY <1>0, <2>2, <3>1, <3>3, <3>4 DEF TreeInv
    <2> QED BY <1>5, <2>4, <2>5 DEF End
  <1>6. ASSUME NEW kind \in {"word", "blank"}, Characters(kind)
        PROVE  TreeInv'
    BY <1>0, <1>6 DEF Characters, TreeInv
  <1>7. CASE Eof \/ BadInput \/ \E e \in Elements : BadAttribute(e)
    BY <1>0, <1>7 DEF Eof, BadInput, BadAttribute, reader, TreeInv
  <1>8. CASE UNCHANGED vars
    BY <1>0, <1>8 DEF vars, TreeInv
  <1> QED BY <1>1, <1>2, <1>3, <1>4, <1>5, <1>6, <1>7, <1>8 DEF Next

-------------------------------------------------------------------------------
\* For every document: links lead forward, and nesting is counted right
\* (open_element, push_node and the events of run).
THEOREM TreeIsSound == Spec => []LinksGoForward
  <1>1. ASSUME TreeInv PROVE LinksGoForward
    <2>1. Linkage(dom.nodes, dom.lastChild) /\ IsList(dom.nodes)
      BY <1>1 DEF TreeInv, Sound, Linkage
    <2>2. DOMAIN dom.nodes = 1 .. Len(dom.nodes)
      BY <2>1 DEF IsList
    <2>3. \A i \in DOMAIN open : open[i] \in DOMAIN dom.nodes
      BY <1>1, <2>2 DEF TreeInv
    <2>4. \A n \in DOMAIN dom.nodes :
             /\ dom.nodes[n].parent \in 0 .. n - 1
             /\ dom.nodes[n].firstChild \in Later(n)
             /\ dom.nodes[n].nextSibling \in Later(n)
      BY <2>1, <2>2 DEF Linkage, Later, After
    <2> QED BY <1>1, <2>3, <2>4 DEF TreeInv, LinksGoForward
  <1> QED BY <1>1, TreeInit, TreeStep, PTL DEF Spec

-------------------------------------------------------------------------------
\* The links of a node go to the first child, the next sibling and the last
\* child there are.
Chained(nodes, lastChild) ==
  \A n \in 1 .. Len(nodes) :
    /\ \A m \in 1 .. Len(nodes) : nodes[m].parent = n =>
         /\ nodes[n].firstChild # NONE /\ nodes[n].firstChild <= m
         /\ lastChild[n] # NONE /\ m <= lastChild[n]
    /\ nodes[n].firstChild # NONE => nodes[nodes[n].firstChild].parent = n
    /\ lastChild[n] # NONE => nodes[lastChild[n]].parent = n
    /\ nodes[n].nextSibling # NONE =>
         nodes[nodes[n].nextSibling].parent = nodes[n].parent
    /\ nodes[n].parent # NONE =>
         \A m \in n + 1 .. Len(nodes) : nodes[m].parent = nodes[n].parent =>
           nodes[n].nextSibling # NONE /\ nodes[n].nextSibling <= m

\* A number before a list that goes up from there.
LEMMA Before ==
  ASSUME NEW n \in Nat, NEW t, Ascends(t), \A x \in Members(t) : n < x
  PROVE  Ascends(<<n>> \o t) /\ Members(<<n>> \o t) = {n} \cup Members(t)
  <1> DEFINE s == <<n>> \o t
  <1>1. IsList(<<n>>) /\ IsList(t) /\ Len(<<n>>) = 1 /\ <<n>>[1] = n
    BY DEF Ascends, IsList
  <1>2. /\ IsList(s) /\ Len(s) = 1 + Len(t) /\ s[1] = n
        /\ \A i \in 1 .. Len(t) : s[1 + i] = t[i]
    <2>1. /\ IsList(s) /\ Len(s) = Len(<<n>>) + Len(t)
          /\ \A i \in 1 .. Len(<<n>>) : s[i] = <<n>>[i]
          /\ \A i \in 1 .. Len(t) : s[Len(<<n>>) + i] = t[i]
      BY <1>1, ListConcat
    <2>2. 1 \in 1 .. Len(<<n>>)
      BY <1>1
    <2> QED BY <1>1, <2>1, <2>2
  <1> HIDE DEF s
  <1>3. Len(t) \in Nat /\ \A i \in 1 .. Len(t) : t[i] \in Nat /\ n < t[i]
    BY DEF Ascends, IsList, Members
  <1>4. \A i \in 1 .. Len(s) : i = 1 \/ (i - 1 \in 1 .. Len(t) /\ s[i] = t[i - 1])
    <2>1. ASSUME NEW i \in 1 .. Len(s), i # 1 PROVE i - 1 \in 1 .. Len(t) /\ s[i] = t[i - 1]
      <3>1. i - 1 \in 1 .. Len(t) /\ 1 + (i - 1) = i
        BY <1>2, <1>3, <2>1
      <3> QED BY <1>2, <3>1
    <2> QED BY <2>1
  <1>5. \A i \in 1 .. Len(s) : s[i] \in Nat
    BY <1>2, <1>3, <1>4
  <1>6. ASSUME NEW i \in 1 .. Len(s), NEW j \in 1 .. Len(s), i < j PROVE s[i] < s[j]
    <2>1. j - 1 \in 1 .. Len(t) /\ s[j] = t[j - 1]
      BY <1>2, <1>3, <1>4, <1>6
    <2>2. CASE i = 1
      BY <1>2, <1>3, <2>1, <2>2
    <2>3. CASE i # 1
      <3>1. i - 1 \in 1 .. Len(t) /\ s[i] = t[i - 1] /\ i - 1 < j - 1
        BY <1>2, <1>3, <1>4, <1>6, <2>3
      <3> QED BY <2>1, <3>1 DEF Ascends
    <2> QED BY <2>2, <2>3
  <1>7. Ascends(s)
    BY <1>2, <1>5, <1>6 DEF Ascends
  <1>8. Members(s) = {n} \cup Members(t)
    <2>1. ASSUME NEW x \in Members(s) PROVE x \in {n} \cup Members(t)
      BY <1>2, <1>4 DEF Members
    <2>2. n \in Members(s)
      <3>1. 1 \in 1 .. Len(s)
        BY <1>2, <1>3
      <3> QED BY <1>2, <3>1 DEF Members
    <2>3. ASSUME NEW x \in Members(t) PROVE x \in Members(s)
      <3>1. PICK i \in 1 .. Len(t) : x = t[i]
        BY DEF Members
      <3>2. 1 + i \in 1 .. Len(s) /\ s[1 + i] = x
        BY <1>2, <1>3, <3>1
      <3> QED BY <3>2 DEF Members
    <2> QED BY <2>1, <2>2, <2>3
  <1> QED BY <1>7, <1>8 DEF s

\* The iterator over siblings: what it yields from a node on.
LEMMA SiblingsFollow ==
  ASSUME NEW d, Linkage(d.nodes, d.lastChild)
  PROVE  \E from :
           /\ \A i \in 1 .. Len(d.nodes) : Children(d, i) = from[d.nodes[i].firstChild]
           /\ from[NONE] = <<>>
           /\ \A n \in 1 .. Len(d.nodes) : from[n] = <<n>> \o from[d.nodes[n].nextSibling]
  <1> DEFINE N == Len(d.nodes)
             next == [n \in 1 .. N |-> d.nodes[n].nextSibling]
             Solves(g) == g = [n \in 0 .. N |-> IF n = NONE THEN <<>> ELSE <<n>> \o g[d.nodes[n].nextSibling]]
             from == CHOOSE g : Solves(g)
             V == Seq(Nat)
             x == <<>>
             step == [p \in (1 .. N) \X V |-> <<N + 1 - p[1]>> \o p[2]]
             before == [m \in 1 .. N |-> IF next[N + 1 - m] = NONE THEN 0 ELSE N + 1 - next[N + 1 - m]]
  <1>1. /\ N \in Nat
        /\ \A n \in 1 .. N : next[n] = d.nodes[n].nextSibling /\ next[n] \in {0} \cup n + 1 .. N
    BY DEF Linkage, IsList, After, NONE
  <1> HIDE DEF N, next
  <1>2. \A m \in 1 .. N : \A v \in V : step[<<m, v>>] = <<N + 1 - m>> \o v
    OBVIOUS
  <1>3. ASSUME NEW m \in 1 .. N, NEW v \in V PROVE <<N + 1 - m>> \o v \in V
    <2>1. N + 1 - m \in Nat
      BY <1>1
    <2>2. <<N + 1 - m>> \in Seq(Nat)
      BY <2>1
    <2> QED BY <2>2, ConcatProperties
  <1>4. \A m \in 1 .. N :
          before[m] = (IF next[N + 1 - m] = NONE THEN 0 ELSE N + 1 - next[N + 1 - m])
    OBVIOUS
  <1>5. x \in V
    OBVIOUS
  <1> HIDE DEF step, before, V, x
  <1>6. StaysIn(V, step, N)
    BY <1>2, <1>3 DEF StaysIn
  <1>7. Earlier(before, N)
    <2>1. ASSUME NEW m \in 1 .. N PROVE before[m] \in 0 .. m - 1
      <3>1. N + 1 - m \in 1 .. N
        BY <1>1
      <3>2. next[N + 1 - m] \in {0} \cup (N + 1 - m) + 1 .. N
        BY <1>1, <3>1
      <3> QED BY <1>1, <1>4, <3>2 DEF NONE
    <2> QED BY <2>1 DEF Earlier
  <1>8. PICK g \in [0 .. N -> V] : Follows(g, x, before, step, N)
    BY <1>1, <1>5, <1>6, <1>7, TreeRecursion
  <1> DEFINE f == [n \in 0 .. N |-> IF n = 0 THEN g[0] ELSE g[N + 1 - n]]
  <1>9. Solves(f)
    <2>1. f[0] = <<>>
      BY <1>1, <1>8 DEF Follows, x
    <2>2. ASSUME NEW n \in 1 .. N PROVE f[n] = <<n>> \o f[d.nodes[n].nextSibling]
      <3>1. N + 1 - n \in 1 .. N /\ N + 1 - (N + 1 - n) = n
        BY <1>1
      <3>2. f[n] = g[N + 1 - n]
        BY <1>1
      <3>3. g[N + 1 - n] = step[<<N + 1 - n, g[before[N + 1 - n]]>>] /\ before[N + 1 - n] \in 0 .. N
        BY <1>1, <1>7, <1>8, <3>1 DEF Follows, Earlier
      <3>4. g[N + 1 - n] = <<n>> \o g[before[N + 1 - n]]
        BY <1>2, <3>1, <3>3
      <3>5. g[before[N + 1 - n]] = f[next[n]]
        <4>1. before[N + 1 - n] = IF next[n] = NONE THEN 0 ELSE N + 1 - next[n]
          BY <1>4, <3>1
        <4>2. next[n] \in {0} \cup n + 1 .. N
          BY <1>1
        <4> QED BY <1>1, <4>1, <4>2 DEF NONE
      <3> QED BY <1>1, <3>2, <3>4, <3>5
    <2>3. f = [n \in 0 .. N |-> f[n]]
      OBVIOUS
    <2> HIDE DEF f
    <2>4. ASSUME NEW n \in 0 .. N
          PROVE  f[n] = IF n = NONE THEN <<>> ELSE <<n>> \o f[d.nodes[n].nextSibling]
      <3>1. CASE n = 0
        BY <2>1, <3>1 DEF NONE
      <3>2. CASE n # 0
        <4>1. n \in 1 .. N
          BY <1>1, <3>2
        <4> QED BY <2>2, <3>2, <4>1 DEF NONE
      <3> QED BY <3>1, <3>2
    <2> QED BY <2>3, <2>4
  <1>10. Solves(from)
    <2> HIDE DEF Solves, f
    <2> QED BY <1>9
  <1>11. \A i \in 1 .. N : Children(d, i) = from[d.nodes[i].firstChild]
    BY DEF Children, N
  <1> HIDE DEF from
  <1>12. \A n \in 0 .. N : from[n] = IF n = NONE THEN <<>> ELSE <<n>> \o from[d.nodes[n].nextSibling]
    BY <1>10
  <1>13. from[NONE] = <<>> /\ \A n \in 1 .. N : from[n] = <<n>> \o from[d.nodes[n].nextSibling]
    BY <1>1, <1>12 DEF NONE
  <1> QED BY <1>11, <1>13 DEF N

\* The iterator yields the nodes that have this parent, in their order.
LEMMA ChildrenAre ==
  ASSUME NEW d, Linkage(d.nodes, d.lastChild), Chained(d.nodes, d.lastChild),
         NEW i \in 1 .. Len(d.nodes)
  PROVE  Children(d, i) = InOrder({k \in 1 .. Len(d.nodes) : d.nodes[k].parent = i}, Len(d.nodes))
  <1> DEFINE N == Len(d.nodes)
             Up(n) == d.nodes[n].parent
             From(n) == {k \in n .. N : Up(k) = Up(n)}
  <1>1. PICK from :
           /\ \A k \in 1 .. N : Children(d, k) = from[d.nodes[k].firstChild]
           /\ from[NONE] = <<>>
           /\ \A n \in 1 .. N : from[n] = <<n>> \o from[d.nodes[n].nextSibling]
    BY SiblingsFollow
  <1>2. N \in Nat
    BY DEF Linkage, IsList
  <1> DEFINE Good(n) == Ascends(from[n]) /\ Members(from[n]) = From(n)
             T == {m \in 0 .. N : m = 0 \/ Up(N + 1 - m) = NONE \/ Good(N + 1 - m)}
  <1>3. Ascends(<<>>) /\ Members(<<>>) = {}
    BY DEF Ascends, Members, IsList
  <1>4. ASSUME NEW m \in 0 .. N, 0 .. m - 1 \subseteq T PROVE m \in T
    <2>1. CASE m = 0 \/ Up(N + 1 - m) = NONE
      BY <2>1
    <2>2. CASE m # 0 /\ Up(N + 1 - m) # NONE
      <3> DEFINE n == N + 1 - m
                 next == d.nodes[n].nextSibling
      <3>1. n \in 1 .. N /\ m = N + 1 - n
        BY <1>2, <2>2
      <3>2. next \in {NONE} \cup n + 1 .. N
        BY <3>1 DEF Linkage, After
      <3>3. from[n] = <<n>> \o from[next]
        BY <1>1, <3>1
      <3>4. /\ next # NONE => Up(next) = Up(n)
            /\ \A k \in n + 1 .. N : Up(k) = Up(n) => next # NONE /\ next <= k
        BY <2>2, <3>1 DEF Chained
      <3>5. CASE next = NONE
        <4>1. From(n) = {n}
          BY <1>2, <3>1, <3>4, <3>5
        <4>2. Ascends(<<n>> \o <<>>) /\ Members(<<n>> \o <<>>) = {n}
          <5> DEFINE t == <<>>
          <5>1. n \in Nat /\ Ascends(t) /\ Members(t) = {}
            BY <1>2, <1>3, <3>1
          <5> HIDE DEF t, n
          <5>2. Ascends(<<n>> \o t) /\ Members(<<n>> \o t) = {n} \cup Members(t)
            BY <5>1, Before
          <5> QED BY <5>1, <5>2 DEF t
        <4>3. Good(n)
          BY <1>1, <3>3, <3>5, <4>1, <4>2
        <4> QED BY <4>3
      <3>6. CASE next # NONE
        <4>1. next \in n + 1 .. N
          BY <3>2, <3>6
        <4>2. N + 1 - next \in 0 .. m - 1 /\ N + 1 - (N + 1 - next) = next /\ N + 1 - next # 0
          BY <1>2, <3>1, <4>1
        <4>3. Good(next)
          BY <1>4, <2>2, <3>4, <3>6, <4>2
        <4>0. n \in Nat /\ next \in Nat /\ n < next
          <5> HIDE DEF N, n, next
          <5> QED BY <1>2, <3>1, <4>1
        <4>4. \A x \in Members(from[next]) : n < x
          <5>1. Members(from[next]) \subseteq next .. N
            BY <4>3
          <5> HIDE DEF N, n, next
          <5> QED BY <1>2, <4>0, <5>1
        <4>5. Ascends(from[n]) /\ Members(from[n]) = {n} \cup Members(from[next])
          BY <3>1, <3>3, <4>3, <4>4, Before
        <4>6. From(n) = {n} \cup From(next)
          <5>1. Up(next) = Up(n) /\ \A k \in n + 1 .. N : Up(k) = Up(n) => next <= k
            BY <3>4, <3>6
          <5>2. n \in Nat /\ next \in Nat /\ n < next
            BY <4>0
          <5> HIDE DEF Up, N, next, n
          <5>3. ASSUME NEW k \in From(n) PROVE k \in {n} \cup From(next)
            <6>1. k \in n .. N /\ Up(k) = Up(n)
              OBVIOUS
            <6>2. CASE k = n
              BY <6>2
            <6>3. CASE k # n
              <7>1. k \in n + 1 .. N
                BY <1>2, <5>2, <6>1, <6>3
              <7>2. k \in next .. N
                BY <1>2, <5>1, <5>2, <6>1, <7>1
              <7> QED BY <5>1, <6>1, <7>2
            <6> QED BY <6>2, <6>3
          <5>4. ASSUME NEW k \in {n} \cup From(next) PROVE k \in From(n)
            BY <1>2, <3>1, <5>1, <5>2
          <5> QED BY <5>3, <5>4
        <4>7. Good(n)
          BY <4>3, <4>5, <4>6
        <4> QED BY <4>7
      <3> QED BY <3>5, <3>6
    <2> QED BY <2>1, <2>2
  <1> HIDE DEF T
  <1>5. 0 .. N \subseteq T
    BY <1>2, <1>4, CourseOfValues
  <1> DEFINE first == d.nodes[i].firstChild
             S == {k \in 1 .. N : Up(k) = i}
  <1>6. Ascends(from[first]) /\ Members(from[first]) = S
    <2>1. first \in {NONE} \cup i + 1 .. N
      BY DEF Linkage, After
    <2>2. /\ first # NONE => Up(first) = i
          /\ \A k \in 1 .. N : Up(k) = i => first # NONE /\ first <= k
      BY DEF Chained
    <2>3. CASE first = NONE
      <3>1. S = {}
        BY <2>2, <2>3
      <3> QED BY <1>1, <1>3, <2>3, <3>1
    <2>4. CASE first # NONE
      <3>1. first \in i + 1 .. N /\ Up(first) = i /\ i # NONE
        BY <1>2, <2>1, <2>2, <2>4 DEF NONE
      <3>2. N + 1 - first \in 0 .. N /\ N + 1 - (N + 1 - first) = first /\ N + 1 - first # 0
        BY <1>2, <3>1
      <3>3. N + 1 - first \in T
        BY <1>5, <3>2
      <3>4. Good(first)
        BY <3>1, <3>2, <3>3 DEF T
      <3>5. From(first) = S
        BY <1>2, <2>2, <3>1
      <3> QED BY <3>4, <3>5
    <2> QED BY <2>3, <2>4
  <1>7. Ascends(InOrder(S, N)) /\ Members(InOrder(S, N)) = S
    <2>1. S \cap (1 .. N) = S
      OBVIOUS
    <2> HIDE DEF S
    <2> QED BY <1>2, <2>1, InOrderLists
  <1>8. from[first] = InOrder(S, N)
    <2> HIDE DEF S, first
    <2> QED BY <1>6, <1>7, AscendingIsOne
  <1> QED BY <1>1, <1>8

-------------------------------------------------------------------------------
\* A new node, the last of the list, becomes the last child of its parent.
Joined(nodes, lastChild, parent, a, last) ==
  LET n == Len(nodes) + 1
      previous == IF parent = NONE THEN NONE ELSE lastChild[parent]
  IN /\ Len(a) = n
     /\ \A k \in 1 .. Len(nodes) :
          /\ a[k].parent = nodes[k].parent
          /\ a[k].firstChild =
               IF k = parent /\ previous = NONE THEN n ELSE nodes[k].firstChild
          /\ a[k].nextSibling = IF k = previous THEN n ELSE nodes[k].nextSibling
          /\ last[k] = IF k = parent THEN n ELSE lastChild[k]
     /\ a[n].parent = parent /\ a[n].firstChild = NONE /\ a[n].nextSibling = NONE
     /\ last[n] = NONE

\* That keeps the chains.
LEMMA JoinedChained ==
  ASSUME NEW nodes, NEW lastChild, Linkage(nodes, lastChild), Chained(nodes, lastChild),
         NEW parent \in 0 .. Len(nodes), NEW a, NEW last,
         Joined(nodes, lastChild, parent, a, last)
  PROVE  Chained(a, last)
  <1> DEFINE N == Len(nodes)
             previous == IF parent = NONE THEN NONE ELSE lastChild[parent]
  <1> USE DEF NONE
  <1>1. /\ N \in Nat /\ Len(a) = N + 1
        /\ \A k \in 1 .. N :
             /\ nodes[k].parent \in 0 .. k - 1
             /\ nodes[k].firstChild \in {0} \cup k + 1 .. N
             /\ nodes[k].nextSibling \in {0} \cup k + 1 .. N
             /\ lastChild[k] \in {0} \cup k + 1 .. N
    BY DEF Linkage, IsList, After, Joined
  <1>2. /\ \A k \in 1 .. N :
             /\ a[k].parent = nodes[k].parent
             /\ a[k].firstChild =
                  IF k = parent /\ previous = NONE THEN N + 1 ELSE nodes[k].firstChild
             /\ a[k].nextSibling = IF k = previous THEN N + 1 ELSE nodes[k].nextSibling
             /\ last[k] = IF k = parent THEN N + 1 ELSE lastChild[k]
        /\ a[N + 1].parent = parent /\ a[N + 1].firstChild = NONE
        /\ a[N + 1].nextSibling = NONE /\ last[N + 1] = NONE
    BY DEF Joined
  <1>3. \A m \in 1 .. N + 1 : m \in 1 .. N \/ m = N + 1
    BY <1>1
  <1>4. /\ parent \in 0 .. N
        /\ parent # NONE => parent \in 1 .. N /\ previous = lastChild[parent]
        /\ parent = NONE => previous = NONE
        /\ previous \in 0 .. N
    BY <1>1
  <1>5. \A n \in 1 .. N :
          /\ \A m \in 1 .. N : nodes[m].parent = n =>
               /\ nodes[n].firstChild # NONE /\ nodes[n].firstChild <= m
               /\ lastChild[n] # NONE /\ m <= lastChild[n]
          /\ nodes[n].firstChild # NONE => nodes[nodes[n].firstChild].parent = n
          /\ lastChild[n] # NONE => nodes[lastChild[n]].parent = n
          /\ nodes[n].nextSibling # NONE =>
               nodes[nodes[n].nextSibling].parent = nodes[n].parent
          /\ nodes[n].parent # NONE =>
               \A m \in n + 1 .. N : nodes[m].parent = nodes[n].parent =>
                 nodes[n].nextSibling # NONE /\ nodes[n].nextSibling <= m
    BY DEF Chained
  <1> HIDE DEF N, previous
  <1>6. previous # NONE => previous \in 1 .. N /\ nodes[previous].parent = parent /\ parent \in 1 .. N
    BY <1>1, <1>4, <1>5
  <1>7. ASSUME NEW n \in 1 .. N + 1, NEW m \in 1 .. N + 1, a[m].parent = n
        PROVE  /\ a[n].firstChild # NONE /\ a[n].firstChild <= m
               /\ last[n] # NONE /\ m <= last[n]
    <2>1. n \in 1 .. N
      <3>1. CASE m \in 1 .. N
        <4>1. nodes[m].parent = n /\ nodes[m].parent \in 0 .. m - 1
          BY <1>1, <1>2, <1>7, <3>1
        <4> QED BY <1>1, <3>1, <4>1
      <3>2. CASE m = N + 1
        <4>1. parent = n
          BY <1>2, <1>7, <3>2
        <4> QED BY <1>1, <1>4, <4>1
      <3> QED BY <1>3, <3>1, <3>2
    <2>2. CASE m \in 1 .. N
      <3>1. nodes[m].parent = n
        BY <1>2, <1>7, <2>2
      <3>2. /\ nodes[n].firstChild # NONE /\ nodes[n].firstChild <= m
            /\ lastChild[n] # NONE /\ m <= lastChild[n]
        BY <1>5, <2>1, <2>2, <3>1
      <3>3. ~ (n = parent /\ previous = NONE)
        BY <1>4, <2>1, <3>2
      <3>4. a[n].firstChild = nodes[n].firstChild
        BY <1>2, <2>1, <3>3
      <3>5. last[n] = N + 1 \/ last[n] = lastChild[n]
        BY <1>2, <2>1
      <3>6. m \in Nat /\ m <= N
        BY <1>1, <2>2
      <3> QED BY <1>1, <3>2, <3>4, <3>5, <3>6
    <2>3. CASE m = N + 1
      <3>1. n = parent /\ last[n] = N + 1
        BY <1>2, <1>7, <2>1, <2>3
      <3>2. CASE previous = NONE
        BY <1>1, <1>2, <2>1, <2>3, <3>1, <3>2
      <3>3. CASE previous # NONE
        <4>1. previous \in 1 .. N /\ nodes[previous].parent = n
          BY <1>6, <3>1, <3>3
        <4>2. nodes[n].firstChild # NONE /\ nodes[n].firstChild <= previous
          BY <1>5, <2>1, <4>1
        <4>3. a[n].firstChild = nodes[n].firstChild
          BY <1>2, <2>1, <3>3
        <4>4. nodes[n].firstChild \in 0 .. N
          BY <1>1, <2>1
        <4> QED BY <1>1, <2>3, <3>1, <4>1, <4>2, <4>3, <4>4
      <3> QED BY <3>2, <3>3
    <2> QED BY <1>3, <2>2, <2>3
  <1>8. ASSUME NEW n \in 1 .. N + 1
        PROVE  /\ a[n].firstChild # NONE => a[a[n].firstChild].parent = n
               /\ last[n] # NONE => a[last[n]].parent = n
               /\ a[n].nextSibling # NONE => a[a[n].nextSibling].parent = a[n].parent
    <2>1. CASE n = N + 1
      BY <1>2, <2>1
    <2>2. CASE n \in 1 .. N
      <3>1. a[n].firstChild # NONE => a[a[n].firstChild].parent = n
        <4>1. CASE n = parent /\ previous = NONE
          BY <1>2, <2>2, <4>1
        <4>2. CASE ~ (n = parent /\ previous = NONE)
          <5>1. a[n].firstChild = nodes[n].firstChild
            BY <1>2, <2>2, <4>2
          <5>2. ASSUME nodes[n].firstChild # NONE PROVE nodes[n].firstChild \in 1 .. N
            BY <1>1, <2>2, <5>2
          <5> QED BY <1>2, <1>5, <2>2, <5>1, <5>2
        <4> QED BY <4>1, <4>2
      <3>2. last[n] # NONE => a[last[n]].parent = n
        <4>1. CASE n = parent
          BY <1>2, <2>2, <4>1
        <4>2. CASE n # parent
          <5>1. last[n] = lastChild[n]
            BY <1>2, <2>2, <4>2
          <5>2. ASSUME lastChild[n] # NONE PROVE lastChild[n] \in 1 .. N
            BY <1>1, <2>2, <5>2
          <5> QED BY <1>2, <1>5, <2>2, <5>1, <5>2
        <4> QED BY <4>1, <4>2
      <3>3. a[n].nextSibling # NONE => a[a[n].nextSibling].parent = a[n].parent
        <4>1. CASE n = previous
          <5>1. nodes[n].parent = parent
            BY <1>6, <1>1, <2>2, <4>1
          <5> QED BY <1>2, <2>2, <4>1, <5>1
        <4>2. CASE n # previous
          <5>1. a[n].nextSibling = nodes[n].nextSibling
            BY <1>2, <2>2, <4>2
          <5>2. ASSUME nodes[n].nextSibling # NONE PROVE nodes[n].nextSibling \in 1 .. N
            BY <1>1, <2>2, <5>2
          <5> QED BY <1>2, <1>5, <2>2, <5>1, <5>2
        <4> QED BY <4>1, <4>2
      <3> QED BY <3>1, <3>2, <3>3
    <2> QED BY <1>3, <2>1, <2>2
  <1>9. ASSUME NEW n \in 1 .. N + 1, a[n].parent # NONE, NEW m \in n + 1 .. N + 1,
               a[m].parent = a[n].parent
        PROVE  a[n].nextSibling # NONE /\ a[n].nextSibling <= m
    <2>1. n \in 1 .. N /\ m \in 1 .. N + 1 /\ n < m /\ n \in Nat
      BY <1>1
    <2>2. a[n].parent = nodes[n].parent /\ nodes[n].parent \in 1 .. N
      BY <1>1, <1>2, <1>9, <2>1
    <2>3. CASE n = previous
      <3>1. nodes[n].parent = parent /\ parent \in 1 .. N /\ lastChild[parent] = n
        BY <1>4, <1>6, <1>1, <2>1, <2>3
      <3>2. m \notin 1 .. N
        <4>1. SUFFICES ASSUME m \in 1 .. N PROVE FALSE
          OBVIOUS
        <4>2. nodes[m].parent = parent
          BY <1>2, <1>9, <2>2, <3>1, <4>1
        <4>3. m <= n
          BY <1>5, <3>1, <4>1, <4>2
        <4> QED BY <2>1, <4>1, <4>3
      <3>3. m = N + 1
        BY <1>3, <2>1, <3>2
      <3>4. a[n].nextSibling = N + 1
        BY <1>2, <2>1, <2>3
      <3> QED BY <1>1, <3>3, <3>4
    <2>4. CASE n # previous
      <3>1. a[n].nextSibling = nodes[n].nextSibling /\ nodes[n].nextSibling \in 0 .. N
        BY <1>1, <1>2, <2>1, <2>4
      <3>2. CASE m \in 1 .. N
        <4>1. m \in n + 1 .. N /\ nodes[m].parent = nodes[n].parent
          BY <1>1, <1>2, <1>9, <2>1, <2>2, <3>2
        <4>2. nodes[n].parent # NONE
          BY <2>2
        <4> QED BY <1>5, <2>1, <3>1, <4>1, <4>2
      <3>3. CASE m = N + 1
        <4>1. parent = nodes[n].parent /\ parent # NONE
          BY <1>2, <1>9, <2>2, <3>3
        <4>2. previous # NONE /\ n <= previous
          BY <1>4, <1>5, <2>1, <2>2, <4>1
        <4>3. previous \in n + 1 .. N /\ nodes[previous].parent = nodes[n].parent
          BY <1>1, <1>6, <2>1, <2>4, <4>1, <4>2
        <4>4. nodes[n].nextSibling # NONE /\ nodes[n].nextSibling <= previous
          BY <1>5, <2>1, <4>1, <4>3
        <4> QED BY <1>1, <3>1, <3>3, <4>3, <4>4
      <3> QED BY <1>3, <2>1, <3>2, <3>3
    <2> QED BY <2>3, <2>4
  <1> QED BY <1>1, <1>7, <1>8, <1>9 DEF Chained

\* A tree whose links are sound and chained.
Wired(d) == Sound(d) /\ Chained(d.nodes, d.lastChild)

\* Nodes with the same links are chained alike.
SameLinks(a, b) ==
  /\ Len(b) = Len(a)
  /\ \A n \in 1 .. Len(a) :
       /\ b[n].parent = a[n].parent
       /\ b[n].firstChild = a[n].firstChild
       /\ b[n].nextSibling = a[n].nextSibling

LEMMA SameChained ==
  ASSUME NEW a, NEW last, Linkage(a, last), Chained(a, last), NEW b, SameLinks(a, b)
  PROVE  Chained(b, last)
  <1>1. ASSUME NEW n \in 1 .. Len(a)
        PROVE  /\ a[n].firstChild # NONE => a[n].firstChild \in 1 .. Len(a)
               /\ a[n].nextSibling # NONE => a[n].nextSibling \in 1 .. Len(a)
               /\ last[n] # NONE => last[n] \in 1 .. Len(a)
    BY DEF Linkage, IsList, After
  <1>2. ASSUME NEW n \in 1 .. Len(a)
        PROVE  /\ \A m \in 1 .. Len(a) : b[m].parent = n =>
                    /\ b[n].firstChild # NONE /\ b[n].firstChild <= m
                    /\ last[n] # NONE /\ m <= last[n]
               /\ b[n].firstChild # NONE => b[b[n].firstChild].parent = n
               /\ last[n] # NONE => b[last[n]].parent = n
    BY <1>1 DEF SameLinks, Chained
  <1>3. ASSUME NEW n \in 1 .. Len(a), b[n].nextSibling # NONE
        PROVE  b[b[n].nextSibling].parent = b[n].parent
    BY <1>1, <1>3 DEF SameLinks, Chained
  <1>4. ASSUME NEW n \in 1 .. Len(a), b[n].parent # NONE, NEW m \in n + 1 .. Len(a),
               b[m].parent = b[n].parent
        PROVE  b[n].nextSibling # NONE /\ b[n].nextSibling <= m
    <2>1. m \in 1 .. Len(a)
      BY DEF Linkage, IsList
    <2>2. a[n].parent = b[n].parent /\ a[m].parent = b[m].parent /\ b[n].nextSibling = a[n].nextSibling
      BY <2>1 DEF SameLinks
    <2> QED BY <1>4, <2>1, <2>2 DEF Chained
  <1> QED BY <1>2, <1>3, <1>4 DEF Chained, SameLinks

LEMMA ChangedSame ==
  ASSUME NEW nodes, IsList(nodes), NEW k \in 1 .. Len(nodes), NEW node,
         node.parent = nodes[k].parent, node.firstChild = nodes[k].firstChild,
         node.nextSibling = nodes[k].nextSibling
  PROVE  SameLinks(nodes, Put(nodes, k, node))
  <1> DEFINE changed == Put(nodes, k, node)
  <1>1. /\ Len(changed) = Len(nodes)
        /\ \A i \in 1 .. Len(nodes) : changed[i] = IF i = k THEN node ELSE nodes[i]
    BY ListPut
  <1> HIDE DEF changed
  <1>2. SameLinks(nodes, changed)
    BY <1>1 DEF SameLinks
  <1> QED BY <1>2 DEF changed

\* What Linked changes.
LEMMA LinkedLinks ==
  ASSUME NEW d, Sound(d), NEW index, index = Len(d.nodes), NEW parent \in 1 .. index - 1,
         d.lastChild[parent] < index
  PROVE  LET b == Linked(d, index, parent)
             previous == d.lastChild[parent]
         IN /\ b.skipped = d.skipped
            /\ \A n \in 1 .. index :
                 /\ b.nodes[n].parent = d.nodes[n].parent
                 /\ b.nodes[n].firstChild =
                      IF n = parent /\ previous = NONE THEN index ELSE d.nodes[n].firstChild
                 /\ b.nodes[n].nextSibling =
                      IF n = previous THEN index ELSE d.nodes[n].nextSibling
                 /\ b.lastChild[n] = IF n = parent THEN index ELSE d.lastChild[n]
  <1> DEFINE previous == d.lastChild[parent]
             first == PutFirst(d.nodes[parent], index)
             next  == PutNext(d.nodes[previous], index)
             nodes == IF previous = NONE THEN Put(d.nodes, parent, first)
                      ELSE Put(d.nodes, previous, next)
             last  == Put(d.lastChild, parent, index)
  <1> USE DEF NONE
  <1>1. /\ Linkage(d.nodes, d.lastChild)
        /\ IsList(d.nodes) /\ IsList(d.lastChild)
        /\ index \in Nat
        /\ Len(d.lastChild) = index
    BY DEF Sound, Linkage, IsList
  <1>2. /\ parent \in 1 .. Len(d.nodes)
        /\ parent \in 1 .. Len(d.lastChild)
        /\ previous \in After(parent, d.nodes)
    BY <1>1 DEF Linkage, After
  <1>3. Linked(d, index, parent) = [d EXCEPT !.nodes = nodes, !.lastChild = last]
    <2>1. CASE previous = NONE
      BY <2>1 DEF Linked, first, Put, PutFirst, IsDom, Sound
    <2>2. CASE previous # NONE
      BY <2>2 DEF Linked, next, Put, PutNext, IsDom, Sound
    <2> QED BY <2>1, <2>2
  <1>4. \A n \in 1 .. index : last[n] = IF n = parent THEN index ELSE d.lastChild[n]
    BY <1>1, <1>2, ListPut
  <1>5. ASSUME NEW n \in 1 .. index
        PROVE  /\ nodes[n].parent = d.nodes[n].parent
               /\ nodes[n].firstChild =
                    IF n = parent /\ previous = NONE THEN index ELSE d.nodes[n].firstChild
               /\ nodes[n].nextSibling =
                    IF n = previous THEN index ELSE d.nodes[n].nextSibling
    <2>1. CASE previous = NONE
      <3>1. nodes[n] = IF n = parent THEN first ELSE d.nodes[n]
        BY <1>1, <1>2, <2>1, ListPut
      <3>2. /\ first.parent = d.nodes[parent].parent /\ first.firstChild = index
            /\ first.nextSibling = d.nodes[parent].nextSibling
        <4>1. IsNode(d.nodes[parent])
          BY <1>1, <1>2 DEF Linkage
        <4> QED BY <4>1, NodeFirstChild
      <3> HIDE DEF nodes, first
      <3> QED BY <2>1, <3>1, <3>2
    <2>2. CASE previous # NONE
      <3>1. previous \in 1 .. Len(d.nodes)
        BY <1>1, <1>2, <2>2 DEF After
      <3>2. nodes[n] = IF n = previous THEN next ELSE d.nodes[n]
        BY <1>1, <2>2, <3>1, ListPut
      <3>3. /\ next.parent = d.nodes[previous].parent
            /\ next.firstChild = d.nodes[previous].firstChild
            /\ next.nextSibling = index
        <4>1. IsNode(d.nodes[previous])
          BY <1>1, <3>1 DEF Linkage
        <4> HIDE DEF previous
        <4> QED BY <4>1, NodeNextSibling
      <3> HIDE DEF nodes, next
      <3> QED BY <2>2, <3>2, <3>3
    <2> QED BY <2>1, <2>2
  <1> HIDE DEF nodes, last
  <1>6. /\ Linked(d, index, parent).nodes = nodes
        /\ Linked(d, index, parent).lastChild = last
        /\ Linked(d, index, parent).skipped = d.skipped
    BY <1>3 DEF Sound, IsDom
  <1> QED BY <1>4, <1>5, <1>6

\* A node that is pushed joins its siblings.
LEMMA PushNodeJoins ==
  ASSUME NEW d, Sound(d), NEW tag, NEW parent \in 0 .. Len(d.nodes)
  PROVE  /\ PushNode(d, tag, parent).skipped = d.skipped
         /\ Joined(d.nodes, d.lastChild, parent,
                   PushNode(d, tag, parent).nodes, PushNode(d, tag, parent).lastChild)
  <1> DEFINE index == Len(d.nodes) + 1
             node  == [tag |-> tag, name |-> NameSpan(d, tag), parent |-> parent,
                       firstChild |-> NONE, nextSibling |-> NONE,
                       attrStart |-> Len(d.attrs), attrLen |-> 0,
                       text |-> EmptySpan, hasText |-> FALSE]
             p     == [PushName(d, tag) EXCEPT !.nodes = Append(@, node),
                                               !.lastChild = Append(@, NONE)]
             b     == PushNode(d, tag, parent)
  <1> USE DEF NONE
  <1>1. b = IF parent = NONE THEN p ELSE Linked(p, index, parent)
    BY DEF PushNode
  <1>2. IsNode(node) /\ node.firstChild = NONE /\ node.nextSibling = NONE /\ node.parent = parent
    BY DEF IsNode
  <1> HIDE DEF node
  <1>3. /\ IsDom(p) /\ p.nodes = Append(d.nodes, node) /\ p.lastChild = Append(d.lastChild, NONE)
        /\ p.skipped = d.skipped
    <2>1. /\ IsDom(PushName(d, tag))
          /\ PushName(d, tag).nodes = d.nodes
          /\ PushName(d, tag).lastChild = d.lastChild
          /\ PushName(d, tag).skipped = d.skipped
      BY DEF PushName, PushText, IsDom, Sound
    <2> QED BY <2>1 DEF IsDom
  <1>0. Len(b.nodes) = index
    BY PushNodeSound
  <1> HIDE DEF p, b
  <1>4. Linkage(d.nodes, d.lastChild) /\ IsList(d.nodes) /\ IsList(d.lastChild)
        /\ Len(d.lastChild) = Len(d.nodes) /\ Len(d.nodes) \in Nat
    BY DEF Sound, Linkage, IsList
  <1>5. Sound(p)
    <2>1. Linkage(Append(d.nodes, node), Append(d.lastChild, NONE))
      BY <1>2, <1>4, PushLinks
    <2> QED BY <1>3, <2>1 DEF Sound
  <1>6. /\ Len(p.nodes) = index
        /\ \A n \in 1 .. Len(d.nodes) : p.nodes[n] = d.nodes[n] /\ p.lastChild[n] = d.lastChild[n]
        /\ p.nodes[index] = node /\ p.lastChild[index] = NONE
    BY <1>3, <1>4, ListAppend
  <1>7. CASE parent = NONE
    <2>1. b = p
      BY <1>1, <1>7
    <2>2. Joined(d.nodes, d.lastChild, parent, p.nodes, p.lastChild)
      BY <1>2, <1>4, <1>6, <1>7 DEF Joined
    <2> QED BY <1>3, <2>1, <2>2 DEF b
  <1>8. CASE parent # NONE
    <2>1. parent \in 1 .. index - 1 /\ parent \in 1 .. Len(d.nodes) /\ index = Len(p.nodes)
      BY <1>4, <1>6, <1>8
    <2>2. p.lastChild[parent] = d.lastChild[parent] /\ d.lastChild[parent] \in After(parent, d.nodes)
      BY <1>4, <1>6, <2>1 DEF Linkage
    <2>3. p.lastChild[parent] < index
      BY <1>4, <2>1, <2>2 DEF After
    <2> DEFINE previous == p.lastChild[parent]
    <2>4. /\ b.skipped = p.skipped
          /\ \A n \in 1 .. index :
                 /\ b.nodes[n].parent = p.nodes[n].parent
                 /\ b.nodes[n].firstChild =
                      IF n = parent /\ previous = NONE THEN index ELSE p.nodes[n].firstChild
                 /\ b.nodes[n].nextSibling =
                      IF n = previous THEN index ELSE p.nodes[n].nextSibling
                 /\ b.lastChild[n] = IF n = parent THEN index ELSE p.lastChild[n]
      <3>1. b = Linked(p, index, parent)
        BY <1>1, <1>8
      <3> HIDE DEF index
      <3> QED BY <1>5, <2>1, <2>3, <3>1, LinkedLinks
    <2>5. previous = d.lastChild[parent]
      BY <2>2
    <2> HIDE DEF previous
    <2>6. \A n \in 1 .. Len(d.nodes) : n \in 1 .. index
      BY <1>4
    <2>7. index \in 1 .. index /\ index # parent /\ index # previous
      BY <1>4, <2>1, <2>2, <2>3, <2>5
    <2>8. ASSUME NEW n \in 1 .. Len(d.nodes)
          PROVE  /\ b.nodes[n].parent = d.nodes[n].parent
                 /\ b.nodes[n].firstChild =
                      IF n = parent /\ previous = NONE THEN index ELSE d.nodes[n].firstChild
                 /\ b.nodes[n].nextSibling =
                      IF n = previous THEN index ELSE d.nodes[n].nextSibling
                 /\ b.lastChild[n] = IF n = parent THEN index ELSE d.lastChild[n]
      <3>1. p.nodes[n] = d.nodes[n] /\ p.lastChild[n] = d.lastChild[n] /\ n \in 1 .. index
        BY <1>6, <2>6
      <3> HIDE DEF index
      <3> QED BY <2>4, <3>1
    <2>9. /\ b.nodes[index].parent = parent /\ b.nodes[index].firstChild = NONE
          /\ b.nodes[index].nextSibling = NONE /\ b.lastChild[index] = NONE
      <3> HIDE DEF index
      <3> QED BY <1>2, <1>6, <2>4, <2>7
    <2>10. Joined(d.nodes, d.lastChild, parent, b.nodes, b.lastChild)
      BY <1>0, <1>8, <2>5, <2>8, <2>9 DEF Joined
    <2> QED BY <1>3, <2>4, <2>10 DEF b
  <1> QED BY <1>7, <1>8

\* push_attributes changes no link.
LEMMA PushAttributesSame ==
  ASSUME NEW d, Sound(d), Len(d.nodes) # 0, NEW element, NEW keys
  PROVE  LET b == PushAttributes(d, element, keys)
         IN SameLinks(d.nodes, b.nodes) /\ b.lastChild = d.lastChild /\ b.skipped = d.skipped
  <1> DEFINE filled == Filled(d, element, keys)
             k == Len(d.nodes)
             start == Len(d.attrs)
             count == Len(filled.attrs) - Len(d.attrs)
             node == PutAttributes(d.nodes[k], start, count)
             nodes == Put(d.nodes, k, node)
  <1>1. /\ Linkage(d.nodes, d.lastChild)
        /\ IsList(d.nodes)
        /\ k \in 1 .. Len(d.nodes)
    BY DEF Sound, Linkage, IsList
  <1>2. PushAttributes(d, element, keys) =
          [d EXCEPT !.arena = filled.arena, !.attrs = filled.attrs, !.nodes = nodes]
    BY DEF PushAttributes, Put, PutAttributes, Sound, IsDom
  <1> HIDE DEF filled, start, count
  <1>3. /\ node.parent = d.nodes[k].parent
        /\ node.firstChild = d.nodes[k].firstChild
        /\ node.nextSibling = d.nodes[k].nextSibling
    <2>1. IsNode(d.nodes[k])
      BY <1>1 DEF Linkage
    <2> HIDE DEF k
    <2> QED BY <2>1, NodeAttributes
  <1> HIDE DEF node, k
  <1>4. SameLinks(d.nodes, nodes)
    BY <1>1, <1>3, ChangedSame
  <1> HIDE DEF nodes
  <1>5. LET b == PushAttributes(d, element, keys)
        IN b.nodes = nodes /\ b.lastChild = d.lastChild /\ b.skipped = d.skipped
    BY <1>2 DEF Sound, IsDom
  <1> QED BY <1>4, <1>5

\* A new element in the tree.
LEMMA OpenElementWired ==
  ASSUME Wired(dom), NEW e, NEW parent \in 0 .. Len(dom.nodes)
  PROVE  LET b == OpenElement(dom, e, parent)
         IN /\ Wired(b) /\ b.skipped = dom.skipped
            /\ Len(b.nodes) = Len(dom.nodes) + 1
            /\ \A n \in 1 .. Len(dom.nodes) : b.nodes[n].parent = dom.nodes[n].parent
            /\ b.nodes[Len(dom.nodes) + 1].parent = parent
  <1> DEFINE N == Len(dom.nodes)
             pushed == PushNode(dom, e.tag, parent)
             filled == PushAttributes(pushed, Len(document) + 1, e.attributes)
             b == OpenElement(dom, e, parent)
  <1>1. Sound(dom) /\ Linkage(dom.nodes, dom.lastChild) /\ Chained(dom.nodes, dom.lastChild) /\ N \in Nat
    BY DEF Wired, Sound, Linkage, IsList
  <1>2. Sound(pushed) /\ Len(pushed.nodes) = N + 1 /\ pushed.skipped = dom.skipped
        /\ Joined(dom.nodes, dom.lastChild, parent, pushed.nodes, pushed.lastChild)
    BY <1>1, PushNodeSound, PushNodeJoins
  <1> HIDE DEF pushed
  <1>3. Chained(pushed.nodes, pushed.lastChild)
    BY <1>1, <1>2, JoinedChained
  <1>4. SameLinks(pushed.nodes, filled.nodes) /\ filled.lastChild = pushed.lastChild
        /\ filled.skipped = pushed.skipped
    BY <1>1, <1>2, PushAttributesSame
  <1>5. Chained(filled.nodes, filled.lastChild)
    <2>1. Linkage(pushed.nodes, pushed.lastChild)
      BY <1>2 DEF Sound
    <2> QED BY <1>3, <1>4, <2>1, SameChained
  <1>6. Sound(filled)
    BY <1>1, <1>2, PushAttributesSound
  <1>7. b = IF dom.nodes = <<>> THEN [filled EXCEPT !.xmlns = "xmlns" \in ToSet(e.attributes)]
            ELSE filled
    BY DEF OpenElement, pushed
  <1> HIDE DEF filled
  <1>8. b.nodes = filled.nodes /\ b.lastChild = filled.lastChild /\ b.skipped = filled.skipped
    BY <1>6, <1>7 DEF Sound, IsDom
  <1>9. Sound(b) /\ Len(b.nodes) = N + 1
    BY <1>1, OpenElementSound
  <1> HIDE DEF b
  <1>10. Wired(b)
    BY <1>5, <1>8, <1>9 DEF Wired
  <1>11. /\ \A n \in 1 .. N : b.nodes[n].parent = dom.nodes[n].parent
         /\ b.nodes[N + 1].parent = parent
    <2>1. \A n \in 1 .. N + 1 : b.nodes[n].parent = pushed.nodes[n].parent
      BY <1>2, <1>4, <1>8 DEF SameLinks
    <2> QED BY <1>1, <1>2, <2>1 DEF Joined
  <1> QED BY <1>2, <1>4, <1>8, <1>9, <1>10, <1>11 DEF b

\* Text is put to an element.
Texted(d, k, x, y, arena) ==
  [d EXCEPT !.arena = arena, !.nodes = Put(d.nodes, k, PutText(d.nodes[k], x, y))]

LEMMA TextWired ==
  ASSUME Wired(dom), NEW k \in 1 .. Len(dom.nodes), NEW x, NEW y, NEW arena
  PROVE  /\ Wired(Texted(dom, k, x, y, arena))
         /\ Texted(dom, k, x, y, arena).skipped = dom.skipped
         /\ Len(Texted(dom, k, x, y, arena).nodes) = Len(dom.nodes)
         /\ \A n \in 1 .. Len(dom.nodes) :
              Texted(dom, k, x, y, arena).nodes[n].parent = dom.nodes[n].parent
  <1> DEFINE node  == PutText(dom.nodes[k], x, y)
             nodes == Put(dom.nodes, k, node)
             b     == [dom EXCEPT !.arena = arena, !.nodes = nodes]
  <1>1. Sound(dom) /\ Linkage(dom.nodes, dom.lastChild) /\ IsList(dom.nodes)
        /\ Chained(dom.nodes, dom.lastChild)
    BY DEF Wired, Sound, Linkage
  <1>2. /\ node.parent = dom.nodes[k].parent
        /\ node.firstChild = dom.nodes[k].firstChild
        /\ node.nextSibling = dom.nodes[k].nextSibling
    <2>1. IsNode(dom.nodes[k])
      BY <1>1 DEF Linkage
    <2> QED BY <2>1, NodeText
  <1>3. Sound(b) /\ Len(b.nodes) = Len(dom.nodes)
    BY <1>1, TextSound
  <1> HIDE DEF node
  <1>4. SameLinks(dom.nodes, nodes)
    BY <1>1, <1>2, ChangedSame
  <1>5. b.nodes = nodes /\ b.lastChild = dom.lastChild /\ b.skipped = dom.skipped
    <2> HIDE DEF nodes
    <2> QED BY <1>1 DEF Sound, IsDom
  <1>6. Chained(nodes, dom.lastChild)
    BY <1>1, <1>4, SameChained
  <1>7. \A n \in 1 .. Len(dom.nodes) : b.nodes[n].parent = dom.nodes[n].parent
    BY <1>4, <1>5 DEF SameLinks
  <1>8. Wired(b)
    BY <1>3, <1>5, <1>6 DEF Wired
  <1>9. Texted(dom, k, x, y, arena) = b
    BY DEF Texted, node
  <1> HIDE DEF b
  <1> QED BY <1>3, <1>5, <1>7, <1>8, <1>9

-------------------------------------------------------------------------------
\* What the reader has met, typed by its shape, and what is kept of it.
IsElement(r) ==
  r \in [tag : {r.tag}, attributes : {r.attributes}, parent : {r.parent},
         texts : {r.texts}, closed : {r.closed}, kept : {r.kept}]
IsDocument(list) ==
  /\ IsList(list)
  /\ \A n \in 1 .. Len(list) :
       /\ IsElement(list[n])
       /\ list[n].kept \in BOOLEAN
       /\ list[n].parent \in 0 .. n - 1
KeptOf(list) == InOrder({n \in 1 .. Len(list) : list[n].kept}, Len(list))
Section(e, list) == e.tag \in Sections /\ (e.parent # NONE => list[e.parent].kept)
SectionsOf(list) == InOrder({n \in 1 .. Len(list) : Section(list[n], list)}, Len(list))

\* The elements to keep are listed in order, each once.
LEMMA KeptIs ==
  ASSUME NEW list, IsDocument(list)
  PROVE  /\ Ascends(KeptOf(list)) /\ IsList(KeptOf(list))
         /\ Members(KeptOf(list)) = {n \in 1 .. Len(list) : list[n].kept}
         /\ \A i \in 1 .. Len(KeptOf(list)) : KeptOf(list)[i] \in 1 .. Len(list)
         /\ \A i, j \in 1 .. Len(KeptOf(list)) : KeptOf(list)[i] = KeptOf(list)[j] => i = j
  <1> DEFINE S == {n \in 1 .. Len(list) : list[n].kept}
             K == KeptOf(list)
  <1>1. Len(list) \in Nat /\ S \cap (1 .. Len(list)) = S
    BY DEF IsDocument, IsList
  <1>2. K = InOrder(S, Len(list))
    BY DEF KeptOf
  <1> HIDE DEF S, K
  <1>3. Ascends(K) /\ Members(K) = S
    BY <1>1, <1>2, InOrderLists
  <1>4. \A i \in 1 .. Len(K) : K[i] \in S
    BY <1>3 DEF Members
  <1>5. \A i, j \in 1 .. Len(K) : K[i] = K[j] => i = j
    <2>1. ASSUME NEW i \in 1 .. Len(K), NEW j \in 1 .. Len(K), K[i] = K[j], i < j PROVE FALSE
      BY <1>3, <2>1 DEF Ascends
    <2>2. Len(K) \in Nat
      BY <1>3 DEF Ascends, IsList
    <2> QED BY <2>1, <2>2
  <1> QED BY <1>3, <1>4, <1>5 DEF S, K, Ascends

\* So are the sections that are skipped.
LEMMA SectionsAre ==
  ASSUME NEW list, IsDocument(list)
  PROVE  /\ IsList(SectionsOf(list))
         /\ \A i \in 1 .. Len(SectionsOf(list)) : SectionsOf(list)[i] \in 1 .. Len(list)
  <1> DEFINE S == {n \in 1 .. Len(list) : Section(list[n], list)}
             K == SectionsOf(list)
  <1>1. Len(list) \in Nat /\ S \cap (1 .. Len(list)) = S
    BY DEF IsDocument, IsList
  <1>2. K = InOrder(S, Len(list))
    BY DEF SectionsOf
  <1> HIDE DEF S, K
  <1>3. Ascends(K) /\ Members(K) = S
    BY <1>1, <1>2, InOrderLists
  <1>4. \A i \in 1 .. Len(K) : K[i] \in S
    BY <1>3 DEF Members
  <1> QED BY <1>3, <1>4 DEF S, K, Ascends

\* One more element.
LEMMA DocumentGrows ==
  ASSUME NEW list, IsDocument(list), NEW e, IsElement(e), e.kept \in BOOLEAN,
         e.parent \in 0 .. Len(list)
  PROVE  LET more == Append(list, e)
             n    == Len(list) + 1
         IN /\ IsDocument(more) /\ Len(more) = n /\ more[n] = e
            /\ \A k \in 1 .. Len(list) : more[k] = list[k]
            /\ KeptOf(more) = IF e.kept THEN Append(KeptOf(list), n) ELSE KeptOf(list)
            /\ SectionsOf(more) =
                 IF Section(e, list) THEN Append(SectionsOf(list), n) ELSE SectionsOf(list)
  <1> DEFINE more == Append(list, e)
             N    == Len(list)
  <1>1. /\ IsList(more) /\ Len(more) = N + 1 /\ N \in Nat
        /\ \A k \in 1 .. N : more[k] = list[k]
        /\ more[N + 1] = e
    BY ListAppend DEF IsDocument, IsList
  <1>2. \A k \in 1 .. N : IsElement(list[k]) /\ list[k].kept \in BOOLEAN /\ list[k].parent \in 0 .. k - 1
    BY DEF IsDocument
  <1> HIDE DEF more
  <1>3. IsDocument(more)
    <2>1. \A k \in 1 .. N + 1 : k \in 1 .. N \/ k = N + 1
      BY <1>1
    <2>2. ASSUME NEW k \in 1 .. N + 1
          PROVE  IsElement(more[k]) /\ more[k].kept \in BOOLEAN /\ more[k].parent \in 0 .. k - 1
      <3>1. CASE k \in 1 .. N
        BY <1>1, <1>2, <3>1
      <3>2. CASE k = N + 1
        BY <1>1, <3>2
      <3> QED BY <2>1, <3>1, <3>2
    <2> QED BY <1>1, <2>2 DEF IsDocument
  <1> HIDE DEF N
  <1>4. KeptOf(more) = IF e.kept THEN Append(KeptOf(list), N + 1) ELSE KeptOf(list)
    <2> DEFINE S == {n \in 1 .. Len(more) : more[n].kept}
               T == {n \in 1 .. N : list[n].kept}
    <2>1. S \cap (1 .. N) = T \cap (1 .. N)
      BY <1>1
    <2>2. N + 1 \in S <=> e.kept
      BY <1>1
    <2>3. KeptOf(more) = InOrder(S, N + 1) /\ KeptOf(list) = InOrder(T, N)
      BY <1>1 DEF KeptOf, N
    <2> HIDE DEF S, T
    <2>4. InOrder(S, N) = InOrder(T, N)
      BY <1>1, <2>1, InOrderSame
    <2>5. N + 1 \in Nat /\ N + 1 # 0 /\ (N + 1) - 1 = N
      BY <1>1
    <2>6. InOrder(S, N + 1) = InOrderStep(S, N + 1, InOrder(S, N))
      BY <2>5, InOrderGrows
    <2> QED BY <2>2, <2>3, <2>4, <2>6 DEF InOrderStep
  <1>5. SectionsOf(more) = IF Section(e, list) THEN Append(SectionsOf(list), N + 1) ELSE SectionsOf(list)
    <2> DEFINE S == {n \in 1 .. Len(more) : Section(more[n], more)}
               T == {n \in 1 .. N : Section(list[n], list)}
    <2>0. ASSUME NEW r, r.parent \in 0 .. N PROVE Section(r, more) = Section(r, list)
      <3>1. CASE r.parent = 0
        BY <3>1 DEF Section, NONE
      <3>2. CASE r.parent # 0
        <4>1. r.parent \in 1 .. N
          BY <1>1, <2>0, <3>2
        <4> QED BY <1>1, <4>1 DEF Section
      <3> QED BY <3>1, <3>2
    <2>1. S \cap (1 .. N) = T \cap (1 .. N)
      <3>1. ASSUME NEW n \in 1 .. N PROVE Section(more[n], more) = Section(list[n], list)
        <4>1. list[n].parent \in 0 .. N
          BY <1>1, <1>2 DEF N
        <4> QED BY <1>1, <2>0, <4>1
      <3>2. \A n \in 1 .. N : n \in 1 .. Len(more)
        BY <1>1
      <3> QED BY <3>1, <3>2
    <2>2. N + 1 \in S <=> Section(e, list)
      <3>1. Section(e, more) = Section(e, list)
        BY <2>0 DEF N
      <3> QED BY <1>1, <3>1
    <2>3. SectionsOf(more) = InOrder(S, N + 1) /\ SectionsOf(list) = InOrder(T, N)
      BY <1>1 DEF SectionsOf, N
    <2> HIDE DEF S, T
    <2>4. InOrder(S, N) = InOrder(T, N)
      BY <1>1, <2>1, InOrderSame
    <2>5. N + 1 \in Nat /\ N + 1 # 0 /\ (N + 1) - 1 = N
      BY <1>1
    <2>6. InOrder(S, N + 1) = InOrderStep(S, N + 1, InOrder(S, N))
      BY <2>5, InOrderGrows
    <2> QED BY <2>2, <2>3, <2>4, <2>6 DEF InOrderStep
  <1> QED BY <1>1, <1>3, <1>4, <1>5 DEF more, N

\* The same elements in their places, whatever else of them has changed.
SameDocument(a, b) ==
  /\ Len(b) = Len(a)
  /\ \A n \in 1 .. Len(a) :
       b[n].tag = a[n].tag /\ b[n].parent = a[n].parent /\ b[n].kept = a[n].kept

\* They keep the same of their elements, and skip the same sections.
LEMMA DocumentSame ==
  ASSUME NEW a, IsDocument(a), NEW b, SameDocument(a, b)
  PROVE  KeptOf(b) = KeptOf(a) /\ SectionsOf(b) = SectionsOf(a)
  <1>1. {n \in 1 .. Len(b) : b[n].kept} = {n \in 1 .. Len(a) : a[n].kept} /\ Len(b) = Len(a)
    BY DEF SameDocument
  <1>2. ASSUME NEW n \in 1 .. Len(a) PROVE Section(b[n], b) = Section(a[n], a)
    <2>1. a[n].parent # NONE => a[n].parent \in 1 .. Len(a)
      BY DEF IsDocument, IsList, NONE
    <2>2. b[n].tag = a[n].tag /\ b[n].parent = a[n].parent
      BY DEF SameDocument
    <2>3. a[n].parent # NONE => b[a[n].parent].kept = a[a[n].parent].kept
      BY <2>1 DEF SameDocument
    <2> QED BY <2>2, <2>3 DEF Section
  <1>3. {n \in 1 .. Len(b) : Section(b[n], b)} = {n \in 1 .. Len(a) : Section(a[n], a)}
    BY <1>1, <1>2
  <1> QED BY <1>1, <1>3 DEF KeptOf, SectionsOf

\* A change to one element that leaves those be.
LEMMA ElementChanges ==
  ASSUME NEW list, IsDocument(list), NEW k \in 1 .. Len(list), NEW r, IsElement(r),
         r.tag = list[k].tag, r.parent = list[k].parent, r.kept = list[k].kept
  PROVE  IsDocument(Put(list, k, r)) /\ SameDocument(list, Put(list, k, r))
  <1> DEFINE b == Put(list, k, r)
  <1>1. /\ IsList(b) /\ Len(b) = Len(list)
        /\ \A i \in 1 .. Len(list) : b[i] = IF i = k THEN r ELSE list[i]
    <2>1. IsList(list)
      BY DEF IsDocument
    <2> QED BY <2>1, ListPut
  <1> HIDE DEF b
  <1>2. \A i \in 1 .. Len(list) : (b[i] = r /\ i = k) \/ b[i] = list[i]
    BY <1>1
  <1>3. IsDocument(b) /\ SameDocument(list, b)
    BY <1>1, <1>2 DEF IsDocument, SameDocument
  <1> QED BY <1>3 DEF b

-------------------------------------------------------------------------------
\* The nodes stand for the elements to keep, the list of sections for those
\* that were skipped.
Represents(nodes, skipped, list) ==
  LET K == KeptOf(list)
      S == SectionsOf(list)
  IN /\ Len(nodes) = Len(K)
     /\ \A i \in 1 .. Len(K) :
          IF list[K[i]].parent = NONE THEN nodes[i].parent = NONE
          ELSE nodes[i].parent \in 1 .. Len(K) /\ K[nodes[i].parent] = list[K[i]].parent
     /\ IsList(skipped) /\ Len(skipped) = Len(S)
     /\ \A i \in 1 .. Len(S) : skipped[i] = list[S[i]].tag

\* They still do when nothing of that changes.
LEMMA RepresentsSame ==
  ASSUME NEW a, IsDocument(a), NEW b, SameDocument(a, b),
         NEW nodes, NEW skipped, Represents(nodes, skipped, a),
         NEW others, Len(others) = Len(nodes),
         \A n \in 1 .. Len(nodes) : others[n].parent = nodes[n].parent
  PROVE  Represents(others, skipped, b)
  <1> DEFINE K == KeptOf(a)
             S == SectionsOf(a)
  <1>1. KeptOf(b) = K /\ SectionsOf(b) = S
    BY DocumentSame
  <1>2. \A i \in 1 .. Len(K) : K[i] \in 1 .. Len(a)
    BY KeptIs
  <1>3. \A i \in 1 .. Len(S) : S[i] \in 1 .. Len(a)
    BY SectionsAre
  <1>4. /\ Len(nodes) = Len(K)
        /\ \A i \in 1 .. Len(K) :
             IF a[K[i]].parent = NONE THEN nodes[i].parent = NONE
             ELSE nodes[i].parent \in 1 .. Len(K) /\ K[nodes[i].parent] = a[K[i]].parent
        /\ IsList(skipped) /\ Len(skipped) = Len(S)
        /\ \A i \in 1 .. Len(S) : skipped[i] = a[S[i]].tag
    BY DEF Represents
  <1> HIDE DEF K, S
  <1>5. \A i \in 1 .. Len(K) : b[K[i]].parent = a[K[i]].parent /\ others[i].parent = nodes[i].parent
    BY <1>2, <1>4 DEF SameDocument
  <1>6. \A i \in 1 .. Len(S) : b[S[i]].tag = a[S[i]].tag
    BY <1>3 DEF SameDocument
  <1>7. \A i \in 1 .. Len(K) :
             IF b[K[i]].parent = NONE THEN others[i].parent = NONE
             ELSE others[i].parent \in 1 .. Len(K) /\ K[others[i].parent] = b[K[i]].parent
    BY <1>4, <1>5
  <1> QED BY <1>1, <1>4, <1>6, <1>7 DEF Represents

\* An element that is neither kept nor a section to be skipped.
LEMMA RepresentsUnder ==
  ASSUME NEW list, IsDocument(list), NEW e, IsElement(e), e.kept = FALSE,
         e.parent \in 0 .. Len(list), ~ Section(e, list),
         NEW nodes, NEW skipped, Represents(nodes, skipped, list)
  PROVE  Represents(nodes, skipped, Append(list, e))
  <1> DEFINE K == KeptOf(list)
             S == SectionsOf(list)
             more == Append(list, e)
  <1>1. /\ KeptOf(more) = K /\ SectionsOf(more) = S
        /\ \A k \in 1 .. Len(list) : more[k] = list[k]
    <2>1. /\ KeptOf(more) = IF e.kept THEN Append(KeptOf(list), Len(list) + 1) ELSE KeptOf(list)
          /\ SectionsOf(more) =
               IF Section(e, list) THEN Append(SectionsOf(list), Len(list) + 1) ELSE SectionsOf(list)
          /\ \A k \in 1 .. Len(list) : more[k] = list[k]
      <3>1. e.kept \in BOOLEAN
        OBVIOUS
      <3> QED BY <3>1, DocumentGrows
    <2>2. ~ e.kept
      OBVIOUS
    <2> QED BY <2>1, <2>2
  <1>2. \A i \in 1 .. Len(K) : K[i] \in 1 .. Len(list)
    BY KeptIs
  <1>3. \A i \in 1 .. Len(S) : S[i] \in 1 .. Len(list)
    BY SectionsAre
  <1>4. /\ Len(nodes) = Len(K)
        /\ \A i \in 1 .. Len(K) :
             IF list[K[i]].parent = NONE THEN nodes[i].parent = NONE
             ELSE nodes[i].parent \in 1 .. Len(K) /\ K[nodes[i].parent] = list[K[i]].parent
        /\ IsList(skipped) /\ Len(skipped) = Len(S)
        /\ \A i \in 1 .. Len(S) : skipped[i] = list[S[i]].tag
    BY DEF Represents
  <1> HIDE DEF K, S, more
  <1>5. /\ \A i \in 1 .. Len(K) : more[K[i]] = list[K[i]]
        /\ \A i \in 1 .. Len(S) : more[S[i]] = list[S[i]]
    BY <1>1, <1>2, <1>3
  <1>6. Represents(nodes, skipped, more)
    BY <1>1, <1>4, <1>5 DEF Represents
  <1> QED BY <1>6 DEF more

\* A section to be skipped.
LEMMA RepresentsSection ==
  ASSUME NEW list, IsDocument(list), NEW e, IsElement(e), e.kept = FALSE,
         e.parent \in 0 .. Len(list), Section(e, list),
         NEW nodes, NEW skipped, Represents(nodes, skipped, list)
  PROVE  Represents(nodes, Append(skipped, e.tag), Append(list, e))
  <1> DEFINE K == KeptOf(list)
             S == SectionsOf(list)
             n == Len(list) + 1
             more == Append(list, e)
             tags == Append(skipped, e.tag)
             grown == Append(S, n)
  <1>1. /\ KeptOf(more) = K /\ SectionsOf(more) = grown
        /\ \A k \in 1 .. Len(list) : more[k] = list[k]
        /\ more[n] = e
    BY DocumentGrows
  <1>2. \A i \in 1 .. Len(K) : K[i] \in 1 .. Len(list)
    BY KeptIs
  <1>3. IsList(S) /\ \A i \in 1 .. Len(S) : S[i] \in 1 .. Len(list)
    BY SectionsAre
  <1>4. /\ Len(nodes) = Len(K)
        /\ \A i \in 1 .. Len(K) :
             IF list[K[i]].parent = NONE THEN nodes[i].parent = NONE
             ELSE nodes[i].parent \in 1 .. Len(K) /\ K[nodes[i].parent] = list[K[i]].parent
        /\ IsList(skipped) /\ Len(skipped) = Len(S)
        /\ \A i \in 1 .. Len(S) : skipped[i] = list[S[i]].tag
    BY DEF Represents
  <1> HIDE DEF K, S, more
  <1>5. /\ \A i \in 1 .. Len(K) : more[K[i]] = list[K[i]]
        /\ \A i \in 1 .. Len(S) : more[S[i]] = list[S[i]]
    BY <1>1, <1>2, <1>3
  <1>6. /\ IsList(tags) /\ Len(tags) = Len(skipped) + 1
        /\ \A i \in 1 .. Len(skipped) : tags[i] = skipped[i]
        /\ tags[Len(skipped) + 1] = e.tag
    BY <1>4, ListAppend
  <1>7. /\ Len(grown) = Len(S) + 1 /\ Len(S) \in Nat
        /\ \A i \in 1 .. Len(S) : grown[i] = S[i]
        /\ grown[Len(S) + 1] = n
    BY <1>3, ListAppend DEF IsList
  <1> HIDE DEF tags, grown, n
  <1>8. ASSUME NEW i \in 1 .. Len(grown) PROVE tags[i] = more[grown[i]].tag
    <2>1. CASE i = Len(S) + 1
      BY <1>1, <1>4, <1>6, <1>7, <2>1
    <2>2. CASE i # Len(S) + 1
      <3>1. i \in 1 .. Len(S)
        BY <1>7, <2>2
      <3> QED BY <1>4, <1>5, <1>6, <1>7, <3>1
    <2> QED BY <2>1, <2>2
  <1>9. Represents(nodes, tags, more)
    BY <1>1, <1>4, <1>5, <1>6, <1>7, <1>8 DEF Represents
  <1> QED BY <1>9 DEF more, tags

\* An element to keep, and its node.
LEMMA RepresentsKept ==
  ASSUME NEW list, IsDocument(list), NEW e, IsElement(e), e.kept = TRUE,
         e.parent \in 0 .. Len(list), ~ Section(e, list),
         NEW nodes, NEW skipped, Represents(nodes, skipped, list),
         NEW others, Len(others) = Len(nodes) + 1,
         \A k \in 1 .. Len(nodes) : others[k].parent = nodes[k].parent,
         IF e.parent = NONE THEN others[Len(nodes) + 1].parent = NONE
         ELSE /\ others[Len(nodes) + 1].parent \in 1 .. Len(nodes)
              /\ KeptOf(list)[others[Len(nodes) + 1].parent] = e.parent
  PROVE  Represents(others, skipped, Append(list, e))
  <1> DEFINE K == KeptOf(list)
             S == SectionsOf(list)
             n == Len(list) + 1
             more == Append(list, e)
             grown == Append(K, n)
  <1>1. /\ KeptOf(more) = grown /\ SectionsOf(more) = S
        /\ \A k \in 1 .. Len(list) : more[k] = list[k]
        /\ more[n] = e
    BY DocumentGrows
  <1>2. IsList(K) /\ \A i \in 1 .. Len(K) : K[i] \in 1 .. Len(list)
    BY KeptIs
  <1>3. \A i \in 1 .. Len(S) : S[i] \in 1 .. Len(list)
    BY SectionsAre
  <1>4. /\ Len(nodes) = Len(K)
        /\ \A i \in 1 .. Len(K) :
             IF list[K[i]].parent = NONE THEN nodes[i].parent = NONE
             ELSE nodes[i].parent \in 1 .. Len(K) /\ K[nodes[i].parent] = list[K[i]].parent
        /\ IsList(skipped) /\ Len(skipped) = Len(S)
        /\ \A i \in 1 .. Len(S) : skipped[i] = list[S[i]].tag
    BY DEF Represents
  <1>5. IF e.parent = NONE THEN others[Len(nodes) + 1].parent = NONE
        ELSE /\ others[Len(nodes) + 1].parent \in 1 .. Len(nodes)
             /\ K[others[Len(nodes) + 1].parent] = e.parent
    OBVIOUS
  <1> HIDE DEF K, S, more
  <1>6. /\ \A i \in 1 .. Len(K) : more[K[i]] = list[K[i]]
        /\ \A i \in 1 .. Len(S) : more[S[i]] = list[S[i]]
    BY <1>1, <1>2, <1>3
  <1>7. /\ Len(grown) = Len(K) + 1 /\ Len(K) \in Nat
        /\ \A i \in 1 .. Len(K) : grown[i] = K[i]
        /\ grown[Len(K) + 1] = n
    BY <1>2, ListAppend DEF IsList
  <1> HIDE DEF grown, n
  <1>8. ASSUME NEW i \in 1 .. Len(grown)
        PROVE  IF more[grown[i]].parent = NONE THEN others[i].parent = NONE
               ELSE /\ others[i].parent \in 1 .. Len(grown)
                    /\ grown[others[i].parent] = more[grown[i]].parent
    <2>1. CASE i = Len(K) + 1
      <3>1. more[grown[i]] = e
        BY <1>1, <1>7, <2>1
      <3>2. IF e.parent = NONE THEN others[i].parent = NONE
            ELSE others[i].parent \in 1 .. Len(K) /\ K[others[i].parent] = e.parent
        BY <1>4, <1>5, <2>1
      <3> QED BY <1>7, <3>1, <3>2
    <2>2. CASE i # Len(K) + 1
      <3>1. i \in 1 .. Len(K)
        BY <1>7, <2>2
      <3>2. more[grown[i]] = list[K[i]] /\ others[i].parent = nodes[i].parent
        BY <1>4, <1>6, <1>7, <3>1
      <3>3. IF list[K[i]].parent = NONE THEN nodes[i].parent = NONE
             ELSE nodes[i].parent \in 1 .. Len(K) /\ K[nodes[i].parent] = list[K[i]].parent
        BY <1>4, <3>1
      <3> QED BY <1>7, <3>2, <3>3
    <2> QED BY <2>1, <2>2
  <1>9. Represents(others, skipped, more)
    <2>1. Len(others) = Len(grown)
      BY <1>4, <1>7
    <2> QED BY <1>1, <1>4, <1>6, <1>8, <2>1 DEF Represents
  <1> QED BY <1>9 DEF more

-------------------------------------------------------------------------------
\* Of the elements the reader is in, the outermost are kept, and the open
\* nodes stand for them.
Stacks(ancestors, within, list) ==
  /\ IsList(ancestors) /\ IsList(within) /\ Len(ancestors) <= Len(within)
  /\ \A j \in 1 .. Len(within) :
       /\ within[j] \in 1 .. Len(list)
       /\ list[within[j]].kept <=> j <= Len(ancestors)
  /\ \A j \in 1 .. Len(ancestors) :
       /\ ancestors[j] \in 1 .. Len(KeptOf(list))
       /\ KeptOf(list)[ancestors[j]] = within[j]

\* The stacks are about nothing else.
LEMMA StacksSame ==
  ASSUME NEW a, IsDocument(a), NEW b, SameDocument(a, b),
         NEW ancestors, NEW within, Stacks(ancestors, within, a)
  PROVE  Stacks(ancestors, within, b)
  <1>1. KeptOf(b) = KeptOf(a) /\ Len(b) = Len(a)
    BY DocumentSame DEF SameDocument
  <1>2. \A j \in 1 .. Len(within) : b[within[j]].kept = a[within[j]].kept
    BY DEF Stacks, SameDocument
  <1> QED BY <1>1, <1>2 DEF Stacks

\* An element is met: it is not entered, or is and is not kept, or is and is.
LEMMA StacksMeet ==
  ASSUME NEW list, IsDocument(list), NEW e, IsElement(e), e.kept \in BOOLEAN,
         e.parent \in 0 .. Len(list),
         NEW ancestors, NEW within, Stacks(ancestors, within, list)
  PROVE  /\ Stacks(ancestors, within, Append(list, e))
         /\ e.kept = FALSE =>
              Stacks(ancestors, Append(within, Len(list) + 1), Append(list, e))
         /\ e.kept = TRUE /\ Len(ancestors) = Len(within) =>
              Stacks(Append(ancestors, Len(KeptOf(list)) + 1), Append(within, Len(list) + 1),
                     Append(list, e))
  <1> DEFINE K == KeptOf(list)
             n == Len(list) + 1
             more == Append(list, e)
             M == KeptOf(more)
             deeper == Append(within, n)
             opened == Append(ancestors, Len(K) + 1)
  <1>1. /\ M = IF e.kept THEN Append(K, n) ELSE K
        /\ \A k \in 1 .. Len(list) : more[k] = list[k]
        /\ more[n] = e /\ Len(more) = n
    BY DocumentGrows
  <1>2. IsList(K) /\ Len(K) \in Nat /\ Len(list) \in Nat
    BY KeptIs DEF IsDocument, IsList
  <1>3. /\ IsList(ancestors) /\ IsList(within) /\ Len(ancestors) <= Len(within)
        /\ Len(ancestors) \in Nat /\ Len(within) \in Nat
        /\ \A j \in 1 .. Len(within) :
             /\ within[j] \in 1 .. Len(list)
             /\ list[within[j]].kept <=> j <= Len(ancestors)
        /\ \A j \in 1 .. Len(ancestors) :
             /\ ancestors[j] \in 1 .. Len(K)
             /\ K[ancestors[j]] = within[j]
    BY DEF Stacks, IsList
  <1> HIDE DEF K, more, M
  <1>4. Len(M) >= Len(K) /\ \A i \in 1 .. Len(K) : i \in 1 .. Len(M) /\ M[i] = K[i]
    <2>1. CASE e.kept
      <3>1. Len(Append(K, n)) = Len(K) + 1 /\ \A i \in 1 .. Len(K) : Append(K, n)[i] = K[i]
        BY <1>2, ListAppend
      <3>2. M = Append(K, n)
        BY <1>1, <2>1
      <3> HIDE DEF n
      <3> QED BY <1>2, <3>1, <3>2
    <2>2. CASE ~ e.kept
      <3>1. M = K
        BY <1>1, <2>2
      <3> QED BY <1>2, <3>1
    <2> QED BY <2>1, <2>2
  <1>5. \A j \in 1 .. Len(within) :
             /\ within[j] \in 1 .. Len(more)
             /\ more[within[j]].kept <=> j <= Len(ancestors)
    BY <1>1, <1>2, <1>3
  <1>6. \A j \in 1 .. Len(ancestors) : ancestors[j] \in 1 .. Len(M) /\ M[ancestors[j]] = within[j]
    BY <1>3, <1>4
  <1>7. Stacks(ancestors, within, more)
    BY <1>3, <1>5, <1>6 DEF Stacks, M
  <1>8. /\ IsList(deeper) /\ Len(deeper) = Len(within) + 1
        /\ \A j \in 1 .. Len(within) : deeper[j] = within[j]
        /\ deeper[Len(within) + 1] = n
    BY <1>3, ListAppend
  <1>9. /\ IsList(opened) /\ Len(opened) = Len(ancestors) + 1
        /\ \A j \in 1 .. Len(ancestors) : opened[j] = ancestors[j]
        /\ opened[Len(ancestors) + 1] = Len(K) + 1
    BY <1>3, ListAppend
  <1>10. n \in 1 .. Len(more) /\ more[n] = e
    BY <1>1, <1>2
  <1> HIDE DEF deeper, opened, n
  <1>11. \A j \in 1 .. Len(deeper) : j \in 1 .. Len(within) \/ j = Len(within) + 1
    BY <1>3, <1>8
  <1>12. ASSUME e.kept = FALSE PROVE Stacks(ancestors, deeper, more)
    <2>1. ASSUME NEW j \in 1 .. Len(deeper)
          PROVE  deeper[j] \in 1 .. Len(more) /\ (more[deeper[j]].kept <=> j <= Len(ancestors))
      <3>1. CASE j \in 1 .. Len(within)
        BY <1>5, <1>8, <3>1
      <3>2. CASE j = Len(within) + 1
        BY <1>3, <1>8, <1>10, <1>12, <3>2
      <3> QED BY <1>11, <3>1, <3>2
    <2>2. \A j \in 1 .. Len(ancestors) : deeper[j] = within[j]
      BY <1>3, <1>8
    <2>3. Len(ancestors) <= Len(deeper)
      BY <1>3, <1>8
    <2> QED BY <1>3, <1>6, <1>8, <2>1, <2>2, <2>3 DEF Stacks, M
  <1>13. ASSUME e.kept = TRUE, Len(ancestors) = Len(within) PROVE Stacks(opened, deeper, more)
    <2>1. ASSUME NEW j \in 1 .. Len(deeper)
          PROVE  deeper[j] \in 1 .. Len(more) /\ (more[deeper[j]].kept <=> j <= Len(opened))
      <3>1. CASE j \in 1 .. Len(within)
        <4>1. j <= Len(ancestors) /\ j <= Len(opened)
          BY <1>3, <1>9, <1>13, <3>1
        <4> QED BY <1>5, <1>8, <3>1, <4>1
      <3>2. CASE j = Len(within) + 1
        <4>1. j <= Len(opened)
          BY <1>3, <1>9, <1>13, <3>2
        <4> QED BY <1>8, <1>10, <1>13, <3>2, <4>1
      <3> QED BY <1>11, <3>1, <3>2
    <2>2. M = Append(K, n)
      BY <1>1, <1>13
    <2>3. Len(M) = Len(K) + 1 /\ M[Len(K) + 1] = n
      BY <1>2, <2>2, ListAppend
    <2>4. ASSUME NEW j \in 1 .. Len(opened)
          PROVE  opened[j] \in 1 .. Len(M) /\ M[opened[j]] = deeper[j]
      <3>1. CASE j \in 1 .. Len(ancestors)
        BY <1>3, <1>6, <1>8, <1>9, <1>13, <3>1
      <3>2. CASE j = Len(ancestors) + 1
        BY <1>2, <1>8, <1>9, <1>13, <2>3, <3>2
      <3>3. j \in 1 .. Len(ancestors) \/ j = Len(ancestors) + 1
        BY <1>3, <1>9
      <3> QED BY <3>1, <3>2, <3>3
    <2>5. Len(opened) <= Len(deeper)
      BY <1>3, <1>8, <1>9, <1>13
    <2> QED BY <1>8, <1>9, <2>1, <2>4, <2>5 DEF Stacks, M
  <1>14. /\ Stacks(ancestors, within, more)
         /\ e.kept = FALSE => Stacks(ancestors, deeper, more)
         /\ e.kept = TRUE /\ Len(ancestors) = Len(within) => Stacks(opened, deeper, more)
    BY <1>7, <1>12, <1>13
  <1> QED BY <1>14 DEF more, deeper, opened, n, K

\* An element is left: one that is not kept, or one that is.
LEMMA StacksLeave ==
  ASSUME NEW list, NEW ancestors, NEW within, Stacks(ancestors, within, list), within # <<>>
  PROVE  /\ Len(ancestors) < Len(within) => Stacks(ancestors, Front(within), list)
         /\ Len(ancestors) = Len(within) => Stacks(Front(ancestors), Front(within), list)
  <1> DEFINE out == Front(within)
             rest == Front(ancestors)
             K == KeptOf(list)
  <1>1. /\ IsList(ancestors) /\ IsList(within) /\ Len(ancestors) <= Len(within)
        /\ Len(ancestors) \in Nat /\ Len(within) \in Nat
        /\ \A j \in 1 .. Len(within) :
             /\ within[j] \in 1 .. Len(list)
             /\ list[within[j]].kept <=> j <= Len(ancestors)
        /\ \A j \in 1 .. Len(ancestors) :
             /\ ancestors[j] \in 1 .. Len(K)
             /\ K[ancestors[j]] = within[j]
    BY DEF Stacks, IsList
  <1>2. IsList(out) /\ Len(within) # 0 /\ Len(out) = Len(within) - 1
        /\ \A j \in 1 .. Len(out) : out[j] = within[j]
    BY <1>1, ListFront DEF Front
  <1>3. \A j \in 1 .. Len(out) : j \in 1 .. Len(within)
    BY <1>1, <1>2
  <1> HIDE DEF out, rest
  <1>4. ASSUME Len(ancestors) < Len(within) PROVE Stacks(ancestors, out, list)
    <2>1. Len(ancestors) <= Len(out) /\ \A j \in 1 .. Len(ancestors) : out[j] = within[j]
      BY <1>1, <1>2, <1>4
    <2>2. \A j \in 1 .. Len(out) :
             out[j] \in 1 .. Len(list) /\ (list[out[j]].kept <=> j <= Len(ancestors))
      BY <1>1, <1>2, <1>3
    <2> QED BY <1>1, <1>2, <2>1, <2>2 DEF Stacks
  <1>5. ASSUME Len(ancestors) = Len(within) PROVE Stacks(rest, out, list)
    <2>1. ancestors # <<>>
      BY <1>1, <1>2, <1>5
    <2>2. IsList(rest) /\ Len(rest) = Len(out) /\ \A j \in 1 .. Len(rest) : rest[j] = ancestors[j]
      <3>1. rest = SubSeq(ancestors, 1, Len(ancestors) - 1)
        BY DEF rest, Front
      <3>2. IsList(rest) /\ Len(rest) = Len(ancestors) - 1
            /\ \A j \in 1 .. Len(rest) : rest[j] = ancestors[j]
        <4>1. IsList(ancestors)
          BY <1>1
        <4> QED BY <2>1, <3>1, <4>1, ListFront
      <3> QED BY <1>2, <1>5, <3>2
    <2>3. \A j \in 1 .. Len(out) :
             out[j] \in 1 .. Len(list) /\ (list[out[j]].kept <=> j <= Len(rest))
      BY <1>1, <1>2, <1>3, <1>5, <2>2
    <2>4. \A j \in 1 .. Len(rest) : rest[j] \in 1 .. Len(K) /\ K[rest[j]] = out[j]
      BY <1>1, <1>2, <1>3, <1>5, <2>2
    <2>5. Len(rest) <= Len(out)
      BY <1>1, <1>2, <2>2
    <2> QED BY <1>1, <1>2, <2>2, <2>3, <2>4, <2>5 DEF Stacks
  <1> QED BY <1>4, <1>5 DEF out, rest

-------------------------------------------------------------------------------
\* The tree, the document and the two stacks belong together.
DocumentInv ==
  /\ TreeInv
  /\ Chained(dom.nodes, dom.lastChild)
  /\ IsDocument(document)
  /\ Represents(dom.nodes, dom.skipped, document)
  /\ Stacks(open, inside, document)

\* The element that Met adds.
Newcomer(e) ==
  [tag |-> e.tag, attributes |-> e.attributes, parent |-> Enclosing, texts |-> <<>>,
   closed |-> FALSE,
   kept |-> e.tag \notin Sections /\ (Enclosing # NONE => document[Enclosing].kept)]

\* What the reader meets is kept, skipped or below what is, as the depth of
\* skipping and the tag say.
LEMMA NewcomerIs ==
  ASSUME DocumentInv, NEW e, NEW r, r = Newcomer(e)
  PROVE  /\ Met(e) = Append(document, r) /\ IsElement(r) /\ r.kept \in BOOLEAN
         /\ r.tag = e.tag /\ r.parent = Enclosing /\ Enclosing \in 0 .. Len(document)
         /\ skipping > 0 => r.kept = FALSE /\ ~ Section(r, document)
         /\ skipping = 0 /\ e.tag \in Sections => r.kept = FALSE /\ Section(r, document)
         /\ skipping = 0 /\ e.tag \notin Sections => r.kept = TRUE /\ ~ Section(r, document)
         /\ skipping = 0 =>
              IF Enclosing = NONE THEN Parent = NONE
              ELSE /\ Parent \in 1 .. Len(dom.nodes)
                   /\ KeptOf(document)[Parent] = Enclosing
  <1>1. Met(e) = Append(document, r)
    BY DEF Met, Newcomer
  <1>2. /\ IsElement(r) /\ r.tag = e.tag /\ r.parent = Enclosing
        /\ r.kept = (e.tag \notin Sections /\ (Enclosing # NONE => document[Enclosing].kept))
        /\ r.kept \in BOOLEAN
    BY DEF IsElement, Newcomer
  <1>3. /\ IsList(inside) /\ Len(inside) \in Nat /\ Len(open) \in Nat
        /\ skipping \in Nat /\ Len(open) + skipping = Len(inside)
        /\ Len(document) \in Nat
        /\ \A j \in 1 .. Len(inside) :
             /\ inside[j] \in 1 .. Len(document)
             /\ document[inside[j]].kept <=> j <= Len(open)
        /\ \A j \in 1 .. Len(open) :
             /\ open[j] \in 1 .. Len(KeptOf(document))
             /\ KeptOf(document)[open[j]] = inside[j]
        /\ Len(dom.nodes) = Len(KeptOf(document))
    BY DEF DocumentInv, TreeInv, Stacks, IsDocument, IsList, Represents
  <1>4. CASE inside = <<>>
    <2>1. Enclosing = NONE /\ Len(inside) = 0
      BY <1>4 DEF Enclosing
    <2>2. skipping = 0 /\ Len(open) = 0 /\ open = <<>>
      <3>1. skipping = 0 /\ Len(open) = 0
        BY <1>3, <2>1
      <3> QED BY <3>1 DEF DocumentInv, TreeInv
    <2>3. Parent = NONE
      BY <2>2 DEF Parent
    <2>4. Section(r, document) <=> e.tag \in Sections
      BY <1>2, <2>1 DEF Section
    <2>5. r.kept <=> e.tag \notin Sections
      BY <1>2, <2>1
    <2>6. skipping = 0 /\ ~ skipping > 0
      BY <2>2
    <2>7. e.tag \in Sections => r.kept = FALSE /\ Section(r, document)
      BY <1>2, <2>4, <2>5
    <2>8. e.tag \notin Sections => r.kept = TRUE /\ ~ Section(r, document)
      BY <1>2, <2>4, <2>5
    <2>9. Enclosing \in 0 .. Len(document)
      BY <1>3, <2>1 DEF NONE
    <2> QED BY <1>1, <1>2, <2>1, <2>3, <2>6, <2>7, <2>8, <2>9
  <1>5. CASE inside # <<>>
    <2>1. Len(inside) \in 1 .. Len(inside)
      BY <1>3, <1>5 DEF IsList
    <2>2. Enclosing = inside[Len(inside)]
      BY <1>5 DEF Enclosing, Last
    <2>3. Enclosing \in 1 .. Len(document) /\ (document[Enclosing].kept <=> Len(inside) <= Len(open))
      BY <1>3, <2>1, <2>2
    <2>4. Enclosing # NONE /\ (Len(inside) <= Len(open) <=> skipping = 0)
      BY <1>3, <2>3 DEF NONE
    <2>5. Section(r, document) <=> e.tag \in Sections /\ document[Enclosing].kept
      BY <1>2, <2>4 DEF Section
    <2>6. r.kept <=> e.tag \notin Sections /\ document[Enclosing].kept
      BY <1>2, <2>4
    <2>7. ASSUME skipping = 0
          PROVE  Parent \in 1 .. Len(dom.nodes) /\ KeptOf(document)[Parent] = Enclosing
      <3>1. Len(open) = Len(inside) /\ open # <<>> /\ Len(open) \in 1 .. Len(open)
        BY <1>3, <2>1, <2>7
      <3>2. Parent = open[Len(open)]
        BY <3>1 DEF Parent, Last
      <3> QED BY <1>3, <2>2, <3>1, <3>2
    <2>8. skipping > 0 <=> skipping # 0
      BY <1>3
    <2>9. skipping > 0 => r.kept = FALSE /\ ~ Section(r, document)
      BY <1>2, <2>3, <2>4, <2>5, <2>6, <2>8
    <2>10. skipping = 0 /\ e.tag \in Sections => r.kept = FALSE /\ Section(r, document)
      BY <1>2, <2>3, <2>4, <2>5, <2>6
    <2>11. skipping = 0 /\ e.tag \notin Sections => r.kept = TRUE /\ ~ Section(r, document)
      BY <1>2, <2>3, <2>4, <2>5, <2>6
    <2>12. Enclosing \in 0 .. Len(document)
      BY <1>3, <2>3
    <2>13. skipping = 0 =>
                 IF Enclosing = NONE THEN Parent = NONE
                 ELSE /\ Parent \in 1 .. Len(dom.nodes)
                      /\ KeptOf(document)[Parent] = Enclosing
      BY <2>4, <2>7
    <2>14. /\ Met(e) = Append(document, r) /\ IsElement(r) /\ r.kept \in BOOLEAN
           /\ r.tag = e.tag /\ r.parent = Enclosing /\ Enclosing \in 0 .. Len(document)
      BY <1>1, <1>2, <2>12
    <2> QED BY <2>9, <2>10, <2>11, <2>13, <2>14
  <1> QED BY <1>4, <1>5

\* A change to an element that is being read.
LEMMA ClosedSame ==
  ASSUME NEW list, IsDocument(list), NEW n \in 1 .. Len(list)
  PROVE  IsDocument(Closed(list, n)) /\ SameDocument(list, Closed(list, n))
  <1> DEFINE r == [list[n] EXCEPT !.closed = TRUE]
  <1>1. IsElement(list[n])
    BY DEF IsDocument
  <1>2. IsElement(r) /\ r.tag = list[n].tag /\ r.parent = list[n].parent /\ r.kept = list[n].kept
    BY <1>1 DEF IsElement
  <1>3. Closed(list, n) = Put(list, n, r)
    BY DEF Closed, Put
  <1> HIDE DEF r
  <1> QED BY <1>2, <1>3, ElementChanges
\* So too when it is given character data.
LEMMA CharactersSame ==
  ASSUME NEW list, IsDocument(list), NEW n \in 1 .. Len(list), NEW piece
  PROVE  LET b == [list EXCEPT ![n].texts = Append(@, piece)]
         IN IsDocument(b) /\ SameDocument(list, b)
  <1> DEFINE r == [list[n] EXCEPT !.texts = Append(@, piece)]
  <1>1. IsElement(list[n])
    BY DEF IsDocument
  <1>2. IsElement(r) /\ r.tag = list[n].tag /\ r.parent = list[n].parent /\ r.kept = list[n].kept
    BY <1>1 DEF IsElement
  <1>3. [list EXCEPT ![n].texts = Append(@, piece)] = Put(list, n, r)
    BY DEF Put
  <1> HIDE DEF r
  <1>4. IsDocument(Put(list, n, r)) /\ SameDocument(list, Put(list, n, r))
    BY <1>2, ElementChanges
  <1> QED BY <1>3, <1>4

\* The document at each kind of step, and the nodes with it.
LEMMA MeetUnder ==
  ASSUME DocumentInv, NEW e, skipping > 0
  PROVE  /\ IsDocument(Met(e)) /\ Represents(dom.nodes, dom.skipped, Met(e))
         /\ Stacks(open, Append(inside, Len(document) + 1), Met(e))
         /\ Stacks(open, inside, Met(e)) /\ Len(Met(e)) = Len(document) + 1
  <1> DEFINE r == Newcomer(e)
  <1>1. /\ Met(e) = Append(document, r) /\ IsElement(r) /\ r.kept \in BOOLEAN
        /\ r.parent \in 0 .. Len(document) /\ r.kept = FALSE /\ ~ Section(r, document)
    BY NewcomerIs
  <1> HIDE DEF r
  <1>2. IsDocument(document) /\ Represents(dom.nodes, dom.skipped, document) /\ Stacks(open, inside, document)
    BY DEF DocumentInv
  <1>3. Represents(dom.nodes, dom.skipped, Met(e))
    BY <1>1, <1>2, RepresentsUnder
  <1>4. Stacks(open, inside, Met(e)) /\ Stacks(open, Append(inside, Len(document) + 1), Met(e))
    BY <1>1, <1>2, StacksMeet
  <1>5. IsDocument(Met(e)) /\ Len(Met(e)) = Len(document) + 1
    BY <1>1, <1>2, DocumentGrows
  <1> QED BY <1>3, <1>4, <1>5

\* A section to skip, where nothing is skipped yet.
LEMMA MeetSection ==
  ASSUME DocumentInv, NEW e, skipping = 0, e.tag \in Sections
  PROVE  /\ IsDocument(Met(e)) /\ Represents(dom.nodes, Append(dom.skipped, e.tag), Met(e))
         /\ Stacks(open, Append(inside, Len(document) + 1), Met(e))
         /\ Stacks(open, inside, Met(e)) /\ Len(Met(e)) = Len(document) + 1
  <1> DEFINE r == Newcomer(e)
  <1>1. /\ Met(e) = Append(document, r) /\ IsElement(r) /\ r.kept \in BOOLEAN
        /\ r.parent \in 0 .. Len(document) /\ r.kept = FALSE /\ Section(r, document)
        /\ r.tag = e.tag
    BY NewcomerIs
  <1> HIDE DEF r
  <1>2. IsDocument(document) /\ Represents(dom.nodes, dom.skipped, document) /\ Stacks(open, inside, document)
    BY DEF DocumentInv
  <1>3. Represents(dom.nodes, Append(dom.skipped, e.tag), Met(e))
    BY <1>1, <1>2, RepresentsSection
  <1>4. Stacks(open, inside, Met(e)) /\ Stacks(open, Append(inside, Len(document) + 1), Met(e))
    BY <1>1, <1>2, StacksMeet
  <1>5. IsDocument(Met(e)) /\ Len(Met(e)) = Len(document) + 1
    BY <1>1, <1>2, DocumentGrows
  <1> QED BY <1>3, <1>4, <1>5

\* An element outside the sections, and its node.
LEMMA MeetElement ==
  ASSUME DocumentInv, NEW e, skipping = 0, e.tag \notin Sections
  PROVE  LET b == OpenElement(dom, e, Parent)
         IN /\ Sound(b) /\ Chained(b.nodes, b.lastChild)
            /\ Len(b.nodes) = Len(dom.nodes) + 1
            /\ IsDocument(Met(e)) /\ Represents(b.nodes, b.skipped, Met(e))
            /\ Stacks(open, inside, Met(e)) /\ Len(Met(e)) = Len(document) + 1
            /\ Stacks(Append(open, Len(dom.nodes) + 1),
                      Append(inside, Len(document) + 1), Met(e))
  <1> DEFINE r == Newcomer(e)
             b == OpenElement(dom, e, Parent)
  <1>1. /\ Met(e) = Append(document, r) /\ IsElement(r) /\ r.kept \in BOOLEAN
        /\ r.parent \in 0 .. Len(document) /\ r.kept = TRUE /\ ~ Section(r, document)
        /\ r.parent = Enclosing
        /\ IF Enclosing = NONE THEN Parent = NONE
           ELSE Parent \in 1 .. Len(dom.nodes) /\ KeptOf(document)[Parent] = Enclosing
    BY NewcomerIs
  <1> HIDE DEF r
  <1>2. /\ IsDocument(document) /\ Represents(dom.nodes, dom.skipped, document)
        /\ Stacks(open, inside, document) /\ Wired(dom) /\ TreeInv
        /\ Len(dom.nodes) = Len(KeptOf(document))
    BY DEF DocumentInv, TreeInv, Wired, Represents
  <1>3. Parent \in 0 .. Len(dom.nodes)
    BY <1>2, ParentIsOpen
  <1>4. /\ Wired(b) /\ b.skipped = dom.skipped
        /\ Len(b.nodes) = Len(dom.nodes) + 1
        /\ \A n \in 1 .. Len(dom.nodes) : b.nodes[n].parent = dom.nodes[n].parent
        /\ b.nodes[Len(dom.nodes) + 1].parent = Parent
    BY <1>2, <1>3, OpenElementWired
  <1> HIDE DEF b
  <1>5. Represents(b.nodes, b.skipped, Met(e))
    <2>1. IF r.parent = NONE THEN b.nodes[Len(dom.nodes) + 1].parent = NONE
          ELSE /\ b.nodes[Len(dom.nodes) + 1].parent \in 1 .. Len(dom.nodes)
               /\ KeptOf(document)[b.nodes[Len(dom.nodes) + 1].parent] = r.parent
      BY <1>1, <1>4
    <2> QED BY <1>1, <1>2, <1>4, <2>1, RepresentsKept
  <1>6. Len(open) = Len(inside)
    BY <1>2 DEF TreeInv
  <1>7. /\ Stacks(open, inside, Met(e))
        /\ Stacks(Append(open, Len(KeptOf(document)) + 1), Append(inside, Len(document) + 1), Met(e))
    BY <1>1, <1>2, <1>6, StacksMeet
  <1>8. IsDocument(Met(e)) /\ Len(Met(e)) = Len(document) + 1
    BY <1>1, <1>2, DocumentGrows
  <1>9. Sound(b) /\ Chained(b.nodes, b.lastChild)
    BY <1>4 DEF Wired
  <1> QED BY <1>2, <1>4, <1>5, <1>7, <1>8, <1>9 DEF b

\* DocumentInv is inductive.
LEMMA DocumentInit == Init => DocumentInv
  <1> SUFFICES ASSUME Init PROVE DocumentInv
    OBVIOUS
  <1>1. /\ dom.nodes = <<>> /\ dom.lastChild = <<>> /\ dom.skipped = <<>>
        /\ open = <<>> /\ inside = <<>> /\ document = <<>>
    BY DEF Init
  <1>2. IsList(<<>>) /\ Len(<<>>) = 0
    BY DEF IsList
  <1>3. TreeInv
    BY TreeInit
  <1>4. Chained(dom.nodes, dom.lastChild)
    BY <1>1, <1>2 DEF Chained
  <1>5. IsDocument(document)
    BY <1>1, <1>2 DEF IsDocument
  <1>6. KeptOf(document) = <<>> /\ SectionsOf(document) = <<>>
    <2>1. \A S : InOrder(S, 0) = <<>>
      BY InOrderGrows
    <2> QED BY <1>1, <1>2, <2>1 DEF KeptOf, SectionsOf
  <1>7. Represents(dom.nodes, dom.skipped, document)
    BY <1>1, <1>2, <1>6 DEF Represents
  <1>8. Stacks(open, inside, document)
    BY <1>1, <1>2, <1>6 DEF Stacks
  <1> QED BY <1>3, <1>4, <1>5, <1>7, <1>8 DEF DocumentInv

\* A new section leaves the nodes as they are.
LEMMA SectionSkipped ==
  ASSUME Sound(dom), NEW tags
  PROVE  LET b == [dom EXCEPT !.skipped = tags]
         IN b.nodes = dom.nodes /\ b.lastChild = dom.lastChild /\ b.skipped = tags
  BY DEF Sound, IsDom

LEMMA DocumentStep == DocumentInv /\ [Next]_vars => DocumentInv'
  <1> SUFFICES ASSUME DocumentInv, [Next]_vars PROVE DocumentInv'
    OBVIOUS
  <1>0. /\ TreeInv /\ Sound(dom) /\ Chained(dom.nodes, dom.lastChild)
        /\ IsDocument(document)
        /\ Represents(dom.nodes, dom.skipped, document)
        /\ Stacks(open, inside, document)
        /\ skipping \in Nat /\ Len(open) \in Nat /\ Len(open) + skipping = Len(inside)
    BY DEF DocumentInv, TreeInv, Stacks, IsList
  <1>a. TreeInv'
    BY <1>0, TreeStep
  <1> DEFINE Holds(d, list, ancestors, within) ==
        /\ Chained(d.nodes, d.lastChild)
        /\ IsDocument(list)
        /\ Represents(d.nodes, d.skipped, list)
        /\ Stacks(ancestors, within, list)
  <1>b. SUFFICES Holds(dom', document', open', inside')
    BY <1>a DEF DocumentInv, Chained, IsDocument, Represents, Stacks, KeptOf, SectionsOf, Section
  <1>c. Holds(dom, document, open, inside)
    BY <1>0
  <1>1. ASSUME NEW e \in Elements, StartSkipped(e)
        PROVE  Holds(dom', document', open', inside')
    <2>1. /\ skipping > 0 /\ dom' = dom /\ open' = open
          /\ document' = Met(e) /\ inside' = Append(inside, Len(document) + 1)
      BY <1>1 DEF StartSkipped
    <2> QED BY <1>0, <2>1, MeetUnder
  <1>2. ASSUME NEW e \in Elements, StartSection(e)
        PROVE  Holds(dom', document', open', inside')
    <2>1. /\ skipping = 0 /\ e.tag \in Sections /\ open' = open
          /\ dom' = [dom EXCEPT !.skipped = Append(dom.skipped, e.tag)]
          /\ document' = Met(e) /\ inside' = Append(inside, Len(document) + 1)
      BY <1>2 DEF StartSection
    <2>2. /\ dom'.nodes = dom.nodes /\ dom'.lastChild = dom.lastChild
          /\ dom'.skipped = Append(dom.skipped, e.tag)
      BY <1>0, <2>1, SectionSkipped
    <2> QED BY <1>0, <2>1, <2>2, MeetSection
  <1>3. ASSUME NEW e \in Elements, StartElement(e)
        PROVE  Holds(dom', document', open', inside')
    <2>1. /\ skipping = 0 /\ e.tag \notin Sections /\ dom' = OpenElement(dom, e, Parent)
          /\ open' = Append(open, Len(dom.nodes) + 1)
          /\ document' = Met(e) /\ inside' = Append(inside, Len(document) + 1)
      BY <1>3 DEF StartElement
    <2> QED BY <2>1, MeetElement
  <1>4. ASSUME NEW e \in Elements, EmptyElement(e)
        PROVE  Holds(dom', document', open', inside')
    <2>1. /\ document' = Closed(Met(e), Len(document) + 1) /\ open' = open /\ inside' = inside
          /\ \/ skipping > 0 /\ dom' = dom
             \/ /\ skipping = 0 /\ e.tag \in Sections
                /\ dom' = [dom EXCEPT !.skipped = Append(dom.skipped, e.tag)]
             \/ /\ skipping = 0 /\ e.tag \notin Sections
                /\ dom' = OpenElement(dom, e, Parent)
      BY <1>4 DEF EmptyElement
    <2>2. Holds(dom', Met(e), open, inside) /\ Len(Met(e)) = Len(document) + 1
      <3>1. CASE skipping > 0 /\ dom' = dom
        BY <1>0, <3>1, MeetUnder
      <3>2. CASE /\ skipping = 0 /\ e.tag \in Sections
                 /\ dom' = [dom EXCEPT !.skipped = Append(dom.skipped, e.tag)]
        <4>1. /\ dom'.nodes = dom.nodes /\ dom'.lastChild = dom.lastChild
              /\ dom'.skipped = Append(dom.skipped, e.tag)
          BY <1>0, <3>2, SectionSkipped
        <4> QED BY <1>0, <3>2, <4>1, MeetSection
      <3>3. CASE /\ skipping = 0 /\ e.tag \notin Sections
                 /\ dom' = OpenElement(dom, e, Parent)
        BY <3>3, MeetElement
      <3> QED BY <2>1, <3>1, <3>2, <3>3
    <2>3. Len(document) + 1 \in 1 .. Len(Met(e))
      BY <1>0, <2>2 DEF IsDocument, IsList
    <2>4. IsDocument(document') /\ SameDocument(Met(e), document')
      BY <2>1, <2>2, <2>3, ClosedSame
    <2>5. Represents(dom'.nodes, dom'.skipped, document')
      BY <2>2, <2>4, RepresentsSame
    <2>6. Stacks(open', inside', document')
      BY <2>1, <2>2, <2>4, StacksSame
    <2> QED BY <2>2, <2>4, <2>5, <2>6
  <1>5. CASE End
    <2>1. /\ inside # <<>> /\ inside' = Front(inside)
          /\ document' = Closed(document, Last(inside))
          /\ EndSkipped \/ EndElement
      BY <1>5 DEF End, EndSkipped, EndElement
    <2>2. Last(inside) \in 1 .. Len(document)
      <3>1. IsList(inside) /\ Len(inside) \in 1 .. Len(inside)
        BY <1>0, <2>1 DEF Stacks, IsList
      <3> QED BY <1>0, <3>1 DEF Stacks, Last
    <2>3. IsDocument(document') /\ SameDocument(document, document')
      BY <1>0, <2>1, <2>2, ClosedSame
    <2>4. Chained(dom'.nodes, dom'.lastChild) /\ Represents(dom'.nodes, dom'.skipped, document')
      <3>1. CASE dom' = dom
        BY <1>0, <2>3, <3>1, RepresentsSame
      <3>2. CASE dom' # dom
        <4>1. /\ open # <<>> /\ EndElement /\ ~ Blank(scratch)
          BY <2>1, <3>2 DEF EndElement, EndSkipped
        <4>2. Last(open) \in 1 .. Len(dom.nodes)
          BY <1>0, <4>1 DEF TreeInv, Last
        <4> DEFINE yes == TRUE
                   span == Span(dom, scratch)
                   arena == dom.arena \o scratch
                   k == Last(open)
        <4>3. dom' = Texted(dom, k, span, yes, arena)
          BY <1>0, <4>1 DEF EndElement, PushText, Texted, Put, PutText, Sound, IsDom
        <4>4. /\ Wired(dom') /\ dom'.skipped = dom.skipped /\ Len(dom'.nodes) = Len(dom.nodes)
              /\ \A n \in 1 .. Len(dom.nodes) : dom'.nodes[n].parent = dom.nodes[n].parent
          <5>1. Wired(dom) /\ k \in 1 .. Len(dom.nodes)
            BY <1>0, <4>2 DEF Wired
          <5> HIDE DEF yes, span, arena, k
          <5> QED BY <4>3, <5>1, TextWired
        <4>5. Represents(dom'.nodes, dom.skipped, document')
          BY <1>0, <2>3, <4>4, RepresentsSame
        <4> QED BY <4>4, <4>5 DEF Wired
      <3> QED BY <3>1, <3>2
    <2>5. Stacks(open', inside', document)
      <3>1. CASE EndSkipped
        <4>1. skipping > 0 /\ open' = open
          BY <3>1 DEF EndSkipped
        <4>2. Len(open) < Len(inside)
          BY <1>0, <4>1
        <4> QED BY <1>0, <2>1, <4>1, <4>2, StacksLeave
      <3>2. CASE EndElement
        <4>1. skipping = 0 /\ open' = IF open = <<>> THEN open ELSE Front(open)
          BY <3>2 DEF EndElement
        <4>2. Len(open) = Len(inside)
          BY <1>0, <4>1
        <4>3. open # <<>>
          BY <1>0, <2>1, <4>2 DEF Stacks, IsList
        <4> QED BY <1>0, <2>1, <4>1, <4>2, <4>3, StacksLeave
      <3> QED BY <2>1, <3>1, <3>2
    <2>6. Stacks(open', inside', document')
      BY <1>0, <2>3, <2>5, StacksSame
    <2> QED BY <2>3, <2>4, <2>6
  <1>6. ASSUME NEW kind \in {"word", "blank"}, Characters(kind)
        PROVE  Holds(dom', document', open', inside')
    <2>1. /\ inside # <<>> /\ dom' = dom /\ open' = open /\ inside' = inside
          /\ \E piece : document' = [document EXCEPT ![Last(inside)].texts = Append(@, piece)]
      BY <1>6 DEF Characters
    <2>2. Last(inside) \in 1 .. Len(document)
      <3>1. IsList(inside) /\ Len(inside) \in 1 .. Len(inside)
        BY <1>0, <2>1 DEF Stacks, IsList
      <3> QED BY <1>0, <3>1 DEF Stacks, Last
    <2>3. PICK piece : document' = [document EXCEPT ![Last(inside)].texts = Append(@, piece)]
      BY <2>1
    <2>4. IsDocument(document') /\ SameDocument(document, document')
      BY <1>0, <2>2, <2>3, CharactersSame
    <2>5. Represents(dom.nodes, dom.skipped, document')
      BY <1>0, <2>4, RepresentsSame
    <2>6. Stacks(open, inside, document')
      BY <1>0, <2>4, StacksSame
    <2> QED BY <1>0, <2>1, <2>4, <2>5, <2>6
  <1>7. CASE UNCHANGED <<dom, open, document, inside>>
    BY <1>c, <1>7
  <1>8. ASSUME Eof \/ BadInput \/ \E e \in Elements : BadAttribute(e)
        PROVE  UNCHANGED <<dom, open, document, inside>>
    BY <1>8 DEF Eof, BadInput, BadAttribute, reader
  <1>9. ASSUME UNCHANGED vars
        PROVE  UNCHANGED <<dom, open, document, inside>>
    BY <1>9 DEF vars
  <1> HIDE DEF Holds
  <1> QED BY <1>1, <1>2, <1>3, <1>4, <1>5, <1>6, <1>7, <1>8, <1>9 DEF Next

-------------------------------------------------------------------------------
\* For every document: the arena is the document without what is skipped
\* (open_element, push_node and the events of run).
THEOREM TreeIsDocument == Spec => []ArenaIsDocument
  <1>1. ASSUME DocumentInv PROVE ArenaIsDocument
    <2> DEFINE K == KeptOf(document)
               S == SectionsOf(document)
               N == Len(K)
    <2>1. /\ IsDocument(document) /\ IsList(document)
          /\ Represents(dom.nodes, dom.skipped, document)
          /\ Linkage(dom.nodes, dom.lastChild) /\ Chained(dom.nodes, dom.lastChild)
      BY <1>1 DEF DocumentInv, TreeInv, Sound, IsDocument
    <2>2. DOMAIN document = 1 .. Len(document)
      BY <2>1, ListDomain
    <2>3. Kept = K /\ SkippedSections = S
      <3>1. {n \in DOMAIN document : document[n].kept} = {n \in 1 .. Len(document) : document[n].kept}
        BY <2>2
      <3>2. {n \in DOMAIN document : IsSkippedSection(document[n])}
              = {n \in 1 .. Len(document) : Section(document[n], document)}
        BY <2>2 DEF IsSkippedSection, Section
      <3> QED BY <3>1, <3>2 DEF Kept, SkippedSections, KeptOf, SectionsOf
    <2>4. /\ IsList(K) /\ IsList(S) /\ DOMAIN K = 1 .. Len(K) /\ DOMAIN S = 1 .. Len(S)
          /\ \A i \in 1 .. Len(K) : K[i] \in 1 .. Len(document)
          /\ \A i, j \in 1 .. Len(K) : K[i] = K[j] => i = j
      BY <2>1, KeptIs, SectionsAre, ListDomain
    <2>5. /\ Len(dom.nodes) = Len(K)
          /\ \A i \in 1 .. Len(K) :
               IF document[K[i]].parent = NONE THEN dom.nodes[i].parent = NONE
               ELSE /\ dom.nodes[i].parent \in 1 .. Len(K)
                    /\ K[dom.nodes[i].parent] = document[K[i]].parent
          /\ IsList(dom.skipped) /\ Len(dom.skipped) = Len(S)
          /\ \A i \in 1 .. Len(S) : dom.skipped[i] = document[S[i]].tag
      BY <2>1 DEF Represents
    <2> HIDE DEF K, S
    <2>6. ASSUME NEW i \in DOMAIN K
          PROVE  dom.nodes[i].parent = NodeFor(document[K[i]].parent)
      <3>1. CASE document[K[i]].parent = NONE
        BY <2>4, <2>5, <3>1 DEF NodeFor
      <3>2. CASE document[K[i]].parent # NONE
        <4> DEFINE up == dom.nodes[i].parent
        <4>1. up \in DOMAIN K /\ K[up] = document[K[i]].parent
          BY <2>4, <2>5, <3>2
        <4>2. \A j \in DOMAIN K : K[j] = K[up] => j = up
          BY <2>4, <4>1
        <4> HIDE DEF up
        <4>3. up = CHOOSE j \in DOMAIN K : K[j] = document[K[i]].parent
          BY <4>1, <4>2
        <4> QED BY <2>3, <3>2, <4>3 DEF NodeFor, up
      <3> QED BY <3>1, <3>2
    <2>7. ASSUME NEW i \in DOMAIN K
          PROVE  Children(dom, i) = InOrder({k \in DOMAIN K : document[K[k]].parent = K[i]}, Len(K))
      <3>1. i \in 1 .. Len(dom.nodes)
        BY <2>4, <2>5
      <3>2. Children(dom, i) =
              InOrder({k \in 1 .. Len(dom.nodes) : dom.nodes[k].parent = i}, Len(dom.nodes))
        BY <2>1, <3>1, ChildrenAre
      <3>3. ASSUME NEW k \in 1 .. Len(K)
            PROVE  dom.nodes[k].parent = i <=> document[K[k]].parent = K[i]
        <4>1. i # NONE /\ K[i] # NONE
          BY <2>4 DEF NONE
        <4>2. CASE document[K[k]].parent = NONE
          BY <2>5, <4>1, <4>2
        <4>3. CASE document[K[k]].parent # NONE
          <5>1. dom.nodes[k].parent \in 1 .. Len(K) /\ K[dom.nodes[k].parent] = document[K[k]].parent
            BY <2>5, <4>3
          <5> QED BY <2>4, <5>1
        <4> QED BY <4>2, <4>3
      <3>4. {k \in 1 .. Len(dom.nodes) : dom.nodes[k].parent = i}
              = {k \in DOMAIN K : document[K[k]].parent = K[i]}
        BY <2>4, <2>5, <3>3
      <3> QED BY <2>5, <3>2, <3>4
    <2>8. dom.skipped = [i \in DOMAIN S |-> document[S[i]].tag]
      <3>1. dom.skipped = [i \in DOMAIN dom.skipped |-> dom.skipped[i]]
        BY <2>5, ListIsSeq DEF IsList
      <3>2. DOMAIN dom.skipped = DOMAIN S
        BY <2>4, <2>5, ListDomain
      <3> QED BY <2>4, <2>5, <3>1, <3>2
    <2> QED BY <2>3, <2>5, <2>6, <2>7, <2>8 DEF ArenaIsDocument
  <1> QED BY <1>1, DocumentInit, DocumentStep, PTL DEF Spec
-------------------------------------------------------------------------------
\* Where a text stands in the arena, and that it stays there.
Reads(arena, span, text) ==
  /\ span.start \in Nat /\ span.len \in Nat /\ span.start + span.len <= Len(arena)
  /\ SubSeq(arena, span.start + 1, span.start + span.len) = text
Extends(more, list) == Len(list) <= Len(more) /\ \A i \in 1 .. Len(list) : more[i] = list[i]

\* What a node holds of its element: the name, the attributes and the text.
Listed(keys) == InOrder({n \in 1 .. Len(keys) : keys[n] # "xmlns"}, Len(keys))
NameRead(arena, name, span) ==
  name \notin Vocabulary => Reads(arena, span, <<<<"name", name>>>>)
AttributeRead(arena, a, key, number, n) ==
  a.key = key /\ NameRead(arena, key, a.name) /\ Reads(arena, a.value, <<ValueOf(number, n)>>)
AttributesRead(arena, attrs, node, keys, number) ==
  /\ node.attrStart \in Nat /\ node.attrLen = Len(Listed(keys))
  /\ node.attrStart + node.attrLen <= Len(attrs)
  /\ \A k \in 1 .. Len(Listed(keys)) :
       AttributeRead(arena, attrs[node.attrStart + k], keys[Listed(keys)[k]], number, Listed(keys)[k])
Childless(list, n) == \A m \in 1 .. Len(list) : list[m].parent # n
TextRead(arena, node, list, n) ==
  IF node.hasText
  THEN list[n].closed /\ \E text \in Runs(list[n].texts) :
         /\ Reads(arena, node.text, text) /\ ~ Blank(text)
         /\ Childless(list, n) => text = list[n].texts
  ELSE list[n].closed /\ Childless(list, n) => Blank(list[n].texts)
Holds(d, i, list, n) ==
  /\ d.nodes[i].tag = list[n].tag
  /\ NameRead(d.arena, list[n].tag, d.nodes[i].name)
  /\ AttributesRead(d.arena, d.attrs, d.nodes[i], list[n].attributes, n)
  /\ TextRead(d.arena, d.nodes[i], list, n)

\* What the reader has met is a tree in the order of the document: while an
\* element is open, everything that is met is below it.
Nested(within, list) ==
  /\ Ascends(within)
  /\ \A j \in 1 .. Len(within) :
       /\ ~ list[within[j]].closed
       /\ j # 1 => list[within[j]].parent = within[j - 1]
       /\ \A k \in within[j] + 1 .. Len(list) : list[k].parent >= within[j]
  /\ \A k \in 1 .. Len(list) :
       \A j \in list[k].parent + 1 .. k - 1 : list[j].parent >= list[k].parent

\* The character data at hand is the end of what the innermost element has.
IsTail(s, t) == \E a \in 1 .. Len(t) + 1 : s = SubSeq(t, a, Len(t))
Pending(text, within, skip, list) ==
  IF within = <<>> \/ skip # 0 THEN text = <<>>
  ELSE LET n == within[Len(within)] IN
       /\ IsTail(text, list[n].texts)
       /\ Childless(list, n) => text = list[n].texts

\* The texts and attributes of the document are lists.
Listing(list) ==
  \A n \in 1 .. Len(list) : IsList(list[n].texts) /\ list[n].attributes \in Seq(STRING)
Contents(d, list, within, skip, text) ==
  /\ IsList(d.arena) /\ IsList(d.attrs) /\ IsList(text)
  /\ Listing(list)
  /\ \A i \in 1 .. Len(d.nodes) : Holds(d, i, list, KeptOf(list)[i])
  /\ Nested(within, list)
  /\ Pending(text, within, skip, list)
ContentInv == DocumentInv /\ Contents(dom, document, inside, skipping, scratch)

\* A run of a list.
LEMMA ListRun ==
  ASSUME NEW s, IsList(s), NEW m \in 1 .. Len(s) + 1, NEW n \in 0 .. Len(s)
  PROVE  /\ IsList(SubSeq(s, m, n))
         /\ Len(SubSeq(s, m, n)) = IF m <= n THEN n - m + 1 ELSE 0
         /\ \A i \in 1 .. Len(SubSeq(s, m, n)) : SubSeq(s, m, n)[i] = s[m + i - 1]
  <1> DEFINE S == {s[i] : i \in 1 .. Len(s)} \cup {0}
             t == SubSeq(s, m, n)
  <1>1. Len(s) \in Nat /\ m \in Int /\ n \in Int /\ \A i \in m .. n : i \in 1 .. Len(s)
    BY DEF IsList
  <1>2. \A i \in m .. n : s[i] \in S
    BY <1>1
  <1> HIDE DEF S
  <1>3. /\ t \in Seq(S)
        /\ Len(t) = IF m <= n THEN n - m + 1 ELSE 0
        /\ \A i \in 1 .. n - m + 1 : t[i] = s[m + i - 1]
    BY <1>1, <1>2, SubSeqProperties
  <1> HIDE DEF t
  <1>4. IsList(t)
    BY <1>3, SeqIsList
  <1>5. \A i \in 1 .. Len(t) : i \in 1 .. n - m + 1
    BY <1>1, <1>3
  <1> QED BY <1>3, <1>4, <1>5 DEF t

\* Lists with the same entries are the same.
LEMMA ListsEqual ==
  ASSUME NEW s, IsList(s), NEW t, IsList(t), Len(s) = Len(t), \A i \in 1 .. Len(s) : s[i] = t[i]
  PROVE  s = t
  BY DEF IsList

\* A stretch of a text is one of its runs.
LEMMA RunIn ==
  ASSUME NEW s, NEW m \in 1 .. Len(s) + 1, NEW n \in 0 .. Len(s)
  PROVE  SubSeq(s, m, n) \in Runs(s)
  BY DEF Runs

\* A run of a run is a run of the whole.
LEMMA RunOfRun ==
  ASSUME NEW s, IsList(s), NEW t \in Runs(s), NEW u \in Runs(t)
  PROVE  u \in Runs(s)
  <1>1. PICK a \in 1 .. Len(s) + 1, b \in 0 .. Len(s) : t = SubSeq(s, a, b)
    BY DEF Runs
  <1>2. PICK c \in 1 .. Len(t) + 1, e \in 0 .. Len(t) : u = SubSeq(t, c, e)
    BY DEF Runs
  <1>3. /\ IsList(t) /\ Len(t) = IF a <= b THEN b - a + 1 ELSE 0
        /\ \A i \in 1 .. Len(t) : t[i] = s[a + i - 1]
    BY <1>1, ListRun
  <1>4. /\ IsList(u) /\ Len(u) = IF c <= e THEN e - c + 1 ELSE 0
        /\ \A i \in 1 .. Len(u) : u[i] = t[c + i - 1]
    BY <1>2, <1>3, ListRun
  <1>5. Len(s) \in Nat /\ Len(t) \in Nat
    BY <1>3 DEF IsList
  <1>6. CASE c <= e
    <2> DEFINE m == a + c - 1
               n == a + e - 1
               v == SubSeq(s, m, n)
    <2>1. m \in 1 .. Len(s) + 1 /\ n \in 0 .. Len(s) /\ n - m + 1 = e - c + 1 /\ m <= n
      BY <1>1, <1>2, <1>3, <1>5, <1>6
    <2>2. /\ IsList(v) /\ Len(v) = e - c + 1
          /\ \A i \in 1 .. Len(v) : v[i] = s[m + i - 1]
      BY <2>1, ListRun
    <2> HIDE DEF v
    <2>3. ASSUME NEW i \in 1 .. Len(u) PROVE u[i] = v[i]
      <3>1. c + i - 1 \in 1 .. Len(t) /\ i \in 1 .. Len(v)
        BY <1>2, <1>4, <1>5, <1>6, <2>2, <2>3
      <3>2. a + (c + i - 1) - 1 = m + i - 1
        BY <1>1, <1>2, <1>5, <2>3
      <3>3. u[i] = t[c + i - 1]
        BY <1>4, <2>3
      <3>4. t[c + i - 1] = s[a + (c + i - 1) - 1]
        BY <1>3, <3>1
      <3>5. v[i] = s[m + i - 1]
        BY <2>2, <3>1
      <3> HIDE DEF m
      <3> QED BY <3>2, <3>3, <3>4, <3>5
    <2>4. u = v
      <3>1. Len(u) = Len(v)
        BY <1>4, <1>6, <2>2
      <3> QED BY <1>4, <2>2, <2>3, <3>1, ListsEqual
    <2>5. u = SubSeq(s, m, n)
      BY <2>4 DEF v
    <2> HIDE DEF m, n
    <2> QED BY <2>1, <2>5, RunIn
  <1>7. CASE ~ (c <= e)
    <2>1. u = <<>>
      BY <1>4, <1>7, ListsEqual DEF IsList
    <2>2. SubSeq(s, 1, 0) = <<>>
      BY SubSeqEmpty
    <2>3. 1 \in 1 .. Len(s) + 1 /\ 0 \in 0 .. Len(s)
      BY <1>5
    <2> QED BY <2>1, <2>2, <2>3, RunIn
  <1> QED BY <1>6, <1>7

\* A list is a run of itself, and so is nothing.
LEMMA WholeRun ==
  ASSUME NEW s, IsList(s)
  PROVE  SubSeq(s, 1, Len(s)) = s /\ s \in Runs(s) /\ <<>> \in Runs(s)
  <1> DEFINE t == SubSeq(s, 1, Len(s))
  <1>1. Len(s) \in Nat /\ 1 \in 1 .. Len(s) + 1 /\ Len(s) \in 0 .. Len(s) /\ 0 \in 0 .. Len(s)
    BY DEF IsList
  <1>2. IsList(t) /\ Len(t) = (IF 1 <= Len(s) THEN Len(s) - 1 + 1 ELSE 0)
        /\ \A i \in 1 .. Len(t) : t[i] = s[1 + i - 1]
    BY <1>1, ListRun
  <1> HIDE DEF t
  <1>3. Len(t) = Len(s) /\ \A i \in 1 .. Len(t) : t[i] = s[i]
    BY <1>1, <1>2
  <1>4. t = s
    BY <1>2, <1>3, ListsEqual
  <1>5. SubSeq(s, 1, 0) = <<>>
    BY SubSeqEmpty
  <1> QED BY <1>1, <1>4, <1>5 DEF Runs, t

\* What is in the arena stays where it is.
LEMMA ReadsStays ==
  ASSUME NEW arena, IsList(arena), NEW more, IsList(more), Extends(more, arena),
         NEW span, NEW text, Reads(arena, span, text)
  PROVE  Reads(more, span, text)
  <1> DEFINE m == span.start + 1
             n == span.start + span.len
             s == SubSeq(arena, m, n)
             t == SubSeq(more, m, n)
  <1>1. /\ Len(arena) \in Nat /\ Len(more) \in Nat /\ Len(arena) <= Len(more)
        /\ span.start \in Nat /\ span.len \in Nat /\ n <= Len(arena) /\ s = text
    BY DEF Reads, Extends, IsList
  <1>2. /\ m \in 1 .. Len(arena) + 1 /\ n \in 0 .. Len(arena)
        /\ m \in 1 .. Len(more) + 1 /\ n \in 0 .. Len(more)
    <2>1. m \in Nat /\ n \in Nat /\ 1 <= m /\ m <= n + 1
      BY <1>1
    <2>2. n <= Len(arena) /\ n <= Len(more)
      BY <1>1, <2>1
    <2> HIDE DEF m, n
    <2> QED BY <1>1, <2>1, <2>2
  <1>3. /\ IsList(s) /\ Len(s) = IF m <= n THEN n - m + 1 ELSE 0
        /\ \A i \in 1 .. Len(s) : s[i] = arena[m + i - 1]
    BY <1>2, ListRun
  <1>4. /\ IsList(t) /\ Len(t) = IF m <= n THEN n - m + 1 ELSE 0
        /\ \A i \in 1 .. Len(t) : t[i] = more[m + i - 1]
    BY <1>2, ListRun
  <1> HIDE DEF s, t
  <1>5. ASSUME NEW i \in 1 .. Len(s) PROVE s[i] = t[i]
    <2> HIDE DEF m, n
    <2>1. m + i - 1 \in 1 .. Len(arena)
      BY <1>1, <1>2, <1>3, <1>5
    <2>2. more[m + i - 1] = arena[m + i - 1]
      BY <2>1 DEF Extends
    <2> QED BY <1>3, <1>4, <2>2
  <1>6. s = t
    BY <1>3, <1>4, <1>5, ListsEqual
  <1>7. t = text
    BY <1>1, <1>6
  <1> QED BY <1>1, <1>2, <1>7 DEF Reads, t

\* A text that is put at the end of the arena is read there.
LEMMA PushReads ==
  ASSUME NEW arena, IsList(arena), NEW text, IsList(text),
         NEW span, span = [start |-> Len(arena), len |-> Len(text)]
  PROVE  /\ IsList(arena \o text) /\ Extends(arena \o text, arena)
         /\ Reads(arena \o text, span, text)
  <1> DEFINE more == arena \o text
             t == SubSeq(more, Len(arena) + 1, Len(arena) + Len(text))
  <1>1. /\ IsList(more) /\ Len(more) = Len(arena) + Len(text)
        /\ \A i \in 1 .. Len(arena) : more[i] = arena[i]
        /\ \A i \in 1 .. Len(text) : more[Len(arena) + i] = text[i]
    BY ListConcat
  <1>2. Len(arena) \in Nat /\ Len(text) \in Nat
    BY DEF IsList
  <1> HIDE DEF more
  <1>3. Extends(more, arena)
    BY <1>1, <1>2 DEF Extends
  <1>4. /\ Len(arena) + 1 \in 1 .. Len(more) + 1 /\ Len(arena) + Len(text) \in 0 .. Len(more)
    BY <1>1, <1>2
  <1>5. /\ IsList(t)
        /\ Len(t) = IF Len(arena) + 1 <= Len(arena) + Len(text)
                    THEN Len(arena) + Len(text) - (Len(arena) + 1) + 1 ELSE 0
        /\ \A i \in 1 .. Len(t) : t[i] = more[Len(arena) + 1 + i - 1]
    BY <1>1, <1>4, ListRun
  <1> HIDE DEF t
  <1>6. Len(t) = Len(text)
    BY <1>2, <1>5
  <1>7. ASSUME NEW i \in 1 .. Len(t) PROVE t[i] = text[i]
    <2>1. Len(arena) + 1 + i - 1 = Len(arena) + i
      BY <1>2, <1>6, <1>7
    <2> QED BY <1>1, <1>5, <1>6, <1>7, <2>1
  <1>8. t = text
    BY <1>5, <1>6, <1>7, ListsEqual
  <1>9. span.start = Len(arena) /\ span.len = Len(text)
    OBVIOUS
  <1>10. Reads(more, span, text)
    BY <1>1, <1>2, <1>8, <1>9 DEF Reads, t
  <1> QED BY <1>1, <1>3, <1>10 DEF more

\* What extends an extension extends the list.
LEMMA ExtendsMore ==
  ASSUME NEW a, IsList(a), NEW b, IsList(b), NEW c, IsList(c), Extends(b, a), Extends(c, b)
  PROVE  Extends(c, a)
  BY DEF Extends, IsList
\* A list extends itself.
LEMMA ExtendsSelf ==
  ASSUME NEW a, IsList(a)
  PROVE  Extends(a, a)
  BY DEF Extends, IsList

\* The same of a name and of an attribute.
LEMMA NameStays ==
  ASSUME NEW arena, IsList(arena), NEW more, IsList(more), Extends(more, arena),
         NEW name, NEW span, NameRead(arena, name, span)
  PROVE  NameRead(more, name, span)
  BY ReadsStays DEF NameRead
\* An attribute reads the same in an arena that has grown.
LEMMA AttributeStays ==
  ASSUME NEW arena, IsList(arena), NEW more, IsList(more), Extends(more, arena),
         NEW a, NEW key, NEW number, NEW n, AttributeRead(arena, a, key, number, n)
  PROVE  AttributeRead(more, a, key, number, n)
  BY ReadsStays, NameStays DEF AttributeRead

\* A text of one piece.
LEMMA PieceIsList ==
  ASSUME NEW piece
  PROVE  IsList(<<piece>>)
  BY DEF IsList

\* push_text appends to the arena and touches nothing else.
LEMMA PushTextIs ==
  ASSUME NEW d, IsDom(d), NEW text
  PROVE  LET p == PushText(d, text)
         IN /\ IsDom(p) /\ p.arena = d.arena \o text /\ p.attrs = d.attrs /\ p.nodes = d.nodes
            /\ p.lastChild = d.lastChild /\ p.skipped = d.skipped
  BY DEF PushText, IsDom

\* push_text of a name that has no symbol.
LEMMA PushNameIs ==
  ASSUME NEW d, IsDom(d), IsList(d.arena), NEW name, NEW span, span = NameSpan(d, name)
  PROVE  LET p == PushName(d, name)
         IN /\ IsDom(p) /\ IsList(p.arena) /\ Extends(p.arena, d.arena)
            /\ NameRead(p.arena, name, span)
            /\ p.attrs = d.attrs /\ p.nodes = d.nodes
  <1> DEFINE p == PushName(d, name)
             text == <<<<"name", name>>>>
  <1>1. CASE name \in Vocabulary
    <2>1. p = d
      BY <1>1 DEF PushName
    <2>2. NameRead(p.arena, name, span)
      BY <1>1 DEF NameRead
    <2>3. Extends(d.arena, d.arena)
      BY ExtendsSelf
    <2> HIDE DEF p
    <2> QED BY <2>1, <2>2, <2>3 DEF p
  <1>2. CASE name \notin Vocabulary
    <2>1. p = PushText(d, text) /\ span = [start |-> Len(d.arena), len |-> Len(text)]
      BY <1>2 DEF PushName, NameSpan, Span
    <2>2. IsList(text)
      BY PieceIsList
    <2> HIDE DEF p
    <2>3. IsDom(p) /\ p.arena = d.arena \o text /\ p.attrs = d.attrs /\ p.nodes = d.nodes
      BY <2>1, PushTextIs
    <2>4. NameRead(p.arena, name, span) <=> Reads(p.arena, span, text)
      BY <1>2 DEF NameRead
    <2> HIDE DEF text
    <2>5. IsList(p.arena) /\ Extends(p.arena, d.arena) /\ Reads(p.arena, span, text)
      BY <2>1, <2>2, <2>3, PushReads
    <2> QED BY <2>3, <2>4, <2>5 DEF p
  <1> QED BY <1>1, <1>2

\* push_attributes, one at a time.
LEMMA PushAttributeIs ==
  ASSUME NEW d, IsDom(d), IsList(d.arena), IsList(d.attrs), NEW element, NEW key, NEW n
  PROVE  LET b == PushAttribute(d, element, key, n)
         IN /\ IsDom(b) /\ IsList(b.arena) /\ Extends(b.arena, d.arena)
            /\ IF key = "xmlns" THEN b.attrs = d.attrs
               ELSE \E a : b.attrs = Append(d.attrs, a) /\ AttributeRead(b.arena, a, key, element, n)
  <1> DEFINE b == PushAttribute(d, element, key, n)
             named == PushName(d, key)
             value == <<ValueOf(element, n)>>
             span  == Span(named, value)
             name  == NameSpan(d, key)
             a     == [key |-> key, name |-> name, value |-> span]
             text  == PushText(named, value)
  <1>1. CASE key = "xmlns"
    <2>1. b = d
      BY <1>1 DEF PushAttribute
    <2>2. Extends(d.arena, d.arena)
      BY ExtendsSelf
    <2> HIDE DEF b
    <2> QED BY <1>1, <2>1, <2>2 DEF b
  <1>2. CASE key # "xmlns"
    <2>1. b = [text EXCEPT !.attrs = Append(@, a)]
      BY <1>2 DEF PushAttribute
    <2>2. span = [start |-> Len(named.arena), len |-> Len(value)]
      BY DEF Span
    <2>3. a.key = key /\ a.name = name /\ a.value = span
      OBVIOUS
    <2> HIDE DEF span, a
    <2>4. /\ IsDom(named) /\ IsList(named.arena) /\ Extends(named.arena, d.arena)
          /\ NameRead(named.arena, key, name)
          /\ named.attrs = d.attrs
      BY PushNameIs
    <2> HIDE DEF named, name
    <2>5. IsList(value)
      BY PieceIsList
    <2>6. IsDom(text) /\ text.arena = named.arena \o value /\ text.attrs = named.attrs
      BY <2>4, PushTextIs
    <2> HIDE DEF value, text
    <2>7. IsDom(b) /\ b.arena = text.arena /\ b.attrs = Append(d.attrs, a)
      BY <2>1, <2>4, <2>6 DEF IsDom
    <2> HIDE DEF b
    <2>8. /\ IsList(b.arena) /\ Extends(b.arena, named.arena)
          /\ Reads(b.arena, span, value)
      BY <2>2, <2>4, <2>5, <2>6, <2>7, PushReads
    <2>9. Extends(b.arena, d.arena) /\ NameRead(b.arena, key, name)
      BY <2>4, <2>8, ExtendsMore, NameStays
    <2>10. AttributeRead(b.arena, a, key, element, n)
      BY <2>3, <2>8, <2>9 DEF AttributeRead, value
    <2> QED BY <1>2, <2>7, <2>8, <2>9, <2>10 DEF b
  <1> QED BY <1>1, <1>2

\* All of them.
FilledTo(x, d, element, keys, list) ==
  /\ IsDom(x) /\ IsList(x.arena) /\ IsList(x.attrs)
  /\ Extends(x.arena, d.arena) /\ Extends(x.attrs, d.attrs)
  /\ Len(x.attrs) = Len(d.attrs) + Len(list)
  /\ \A j \in 1 .. Len(list) :
       AttributeRead(x.arena, x.attrs[Len(d.attrs) + j], keys[list[j]], element, list[j])

\* Before its first attribute, push_attributes has listed none.
LEMMA FilledStart ==
  ASSUME NEW d, IsDom(d), IsList(d.arena), IsList(d.attrs), NEW element, NEW keys
  PROVE  FilledTo(d, d, element, keys, <<>>)
  <1>1. Len(<<>>) = 0 /\ Len(d.attrs) \in Nat
    BY DEF IsList
  <1>2. Extends(d.arena, d.arena) /\ Extends(d.attrs, d.attrs)
    BY ExtendsSelf
  <1> QED BY <1>1, <1>2 DEF FilledTo

\* One more attribute is listed, unless it declares a namespace.
LEMMA FilledOne ==
  ASSUME NEW d, IsDom(d), IsList(d.arena), IsList(d.attrs), NEW element, NEW keys,
         NEW x, NEW list, IsList(list), FilledTo(x, d, element, keys, list),
         NEW k, NEW more, more = IF keys[k] = "xmlns" THEN list ELSE Append(list, k)
  PROVE  FilledTo(PushAttribute(x, element, keys[k], k), d, element, keys, more)
  <1> DEFINE b == PushAttribute(x, element, keys[k], k)
             N == Len(d.attrs)
  <1>1. /\ IsDom(x) /\ IsList(x.arena) /\ IsList(x.attrs)
        /\ Extends(x.arena, d.arena) /\ Extends(x.attrs, d.attrs)
        /\ Len(x.attrs) = N + Len(list)
        /\ \A j \in 1 .. Len(list) :
             AttributeRead(x.arena, x.attrs[N + j], keys[list[j]], element, list[j])
        /\ N \in Nat /\ Len(list) \in Nat
    BY DEF FilledTo, IsList
  <1>2. /\ IsDom(b) /\ IsList(b.arena) /\ Extends(b.arena, x.arena)
        /\ IF keys[k] = "xmlns" THEN b.attrs = x.attrs
           ELSE \E a : b.attrs = Append(x.attrs, a) /\ AttributeRead(b.arena, a, keys[k], element, k)
    BY <1>1, PushAttributeIs
  <1> HIDE DEF b
  <1>3. Extends(b.arena, d.arena)
    BY <1>1, <1>2, ExtendsMore
  <1>4. \A j \in 1 .. Len(list) :
          AttributeRead(b.arena, x.attrs[N + j], keys[list[j]], element, list[j])
    BY <1>1, <1>2, AttributeStays
  <1>5. CASE keys[k] = "xmlns"
    <2>1. more = list /\ b.attrs = x.attrs
      BY <1>2, <1>5
    <2> HIDE DEF N
    <2> QED BY <1>1, <1>2, <1>3, <1>4, <2>1 DEF FilledTo, N, b
  <1>6. CASE keys[k] # "xmlns"
    <2>1. PICK a : b.attrs = Append(x.attrs, a) /\ AttributeRead(b.arena, a, keys[k], element, k)
      BY <1>2, <1>6
    <2>2. /\ IsList(b.attrs) /\ Len(b.attrs) = N + Len(list) + 1
          /\ \A i \in 1 .. N + Len(list) : b.attrs[i] = x.attrs[i]
          /\ b.attrs[N + Len(list) + 1] = a
      BY <1>1, <2>1, ListAppend
    <2>3. more = Append(list, k)
      BY <1>6
    <2>4. /\ IsList(more) /\ Len(more) = Len(list) + 1
          /\ \A i \in 1 .. Len(list) : more[i] = list[i]
          /\ more[Len(list) + 1] = k
      BY <2>3, ListAppend
    <2>5. Extends(b.attrs, x.attrs)
      BY <1>1, <2>2 DEF Extends
    <2>6. Extends(b.attrs, d.attrs)
      BY <1>1, <2>2, <2>5, ExtendsMore
    <2> HIDE DEF N
    <2>7. ASSUME NEW j \in 1 .. Len(more)
          PROVE  AttributeRead(b.arena, b.attrs[N + j], keys[more[j]], element, more[j])
      <3>1. CASE j \in 1 .. Len(list)
        <4>1. N + j \in 1 .. N + Len(list)
          BY <1>1, <3>1
        <4>2. b.attrs[N + j] = x.attrs[N + j] /\ more[j] = list[j]
          BY <2>2, <2>4, <3>1, <4>1
        <4> QED BY <1>4, <3>1, <4>2
      <3>2. CASE j = Len(list) + 1
        <4>1. N + j = N + Len(list) + 1
          BY <1>1, <3>2
        <4>2. b.attrs[N + j] = a /\ more[j] = k
          BY <2>2, <2>4, <3>2, <4>1
        <4> QED BY <2>1, <4>2
      <3> QED BY <1>1, <2>4, <3>1, <3>2
    <2>8. Len(b.attrs) = N + Len(more)
      BY <1>1, <2>2, <2>4
    <2> QED BY <1>2, <1>3, <2>2, <2>6, <2>7, <2>8 DEF FilledTo, N, b
  <1> QED BY <1>5, <1>6

\* push_attributes lists every attribute but the declarations of namespaces,
\* in order, each with its name and its value in the arena.
LEMMA FilledIs ==
  ASSUME NEW d, IsDom(d), IsList(d.arena), IsList(d.attrs), NEW element,
         NEW keys, IsList(keys)
  PROVE  FilledTo(Filled(d, element, keys), d, element, keys, Listed(keys))
  <1> DEFINE n == Len(keys)
             One(k, x) == PushAttribute(x, element, keys[k], k)
             Solves(f) == f = [k \in 0 .. n |-> IF k = 0 THEN d ELSE One(k, f[k - 1])]
             rec == CHOOSE f : Solves(f)
             S == {m \in 1 .. n : keys[m] # "xmlns"}
             T == {k \in 0 .. n : FilledTo(rec[k], d, element, keys, InOrder(S, k))}
  <1>1. n \in Nat
    BY DEF IsList
  <1>2. Filled(d, element, keys) = rec[n]
    BY DEF Filled
  <1>3. Listed(keys) = InOrder(S, n)
    BY DEF Listed
  <1>4. \A k \in 1 .. n : k \in S <=> keys[k] # "xmlns"
    OBVIOUS
  <1> HIDE DEF n, One, S
  <1>5. HasChain(n, d, One)
    BY <1>1, FiniteRecursion
  <1>6. rec = [k \in 0 .. n |-> IF k = 0 THEN d ELSE One(k, rec[k - 1])]
    BY <1>5 DEF HasChain
  <1> HIDE DEF rec
  <1>7. rec[0] = d
    BY <1>1, <1>6
  <1>8. ASSUME NEW k \in 1 .. n PROVE rec[k] = PushAttribute(rec[k - 1], element, keys[k], k)
    <2>1. k \in 0 .. n /\ k # 0
      BY <1>1
    <2>2. rec[k] = One(k, rec[k - 1])
      BY <1>6, <2>1
    <2> QED BY <2>2 DEF One
  <1>9. 0 \in T
    <2>1. InOrder(S, 0) = <<>>
      BY InOrderGrows
    <2>2. FilledTo(d, d, element, keys, <<>>)
      BY FilledStart
    <2> QED BY <1>1, <1>7, <2>1, <2>2
  <1>10. ASSUME NEW k \in 1 .. n, k - 1 \in T PROVE k \in T
    <2> DEFINE list == InOrder(S, k - 1)
               more == InOrder(S, k)
               x == rec[k - 1]
    <2>1. FilledTo(x, d, element, keys, list)
      BY <1>10
    <2>2. more = InOrderStep(S, k, list) /\ list \in Seq(Nat)
      BY InOrderGrows
    <2> HIDE DEF x, list, more
    <2>3. more = IF keys[k] = "xmlns" THEN list ELSE Append(list, k)
      BY <1>4, <2>2 DEF InOrderStep
    <2>4. IsList(list)
      BY <2>2, SeqIsList
    <2>5. FilledTo(PushAttribute(x, element, keys[k], k), d, element, keys, more)
      BY <2>1, <2>3, <2>4, FilledOne
    <2>6. FilledTo(rec[k], d, element, keys, more)
      BY <1>8, <2>5 DEF x
    <2>7. k \in 0 .. n
      OBVIOUS
    <2> QED BY <2>6, <2>7 DEF more
  <1> HIDE DEF T
  <1>11. 0 .. n \subseteq T
    BY <1>1, <1>9, <1>10, InductionTo
  <1>12. n \in T
    BY <1>1, <1>11
  <1>13. FilledTo(rec[n], d, element, keys, InOrder(S, n))
    BY <1>12 DEF T
  <1> QED BY <1>2, <1>3, <1>13

\* What a node holds does not change with its links.
SameHeld(r, q) ==
  /\ q.tag = r.tag /\ q.name = r.name /\ q.attrStart = r.attrStart /\ q.attrLen = r.attrLen
  /\ q.text = r.text /\ q.hasText = r.hasText
\* A link to the first child leaves what the node holds.
LEMMA FirstHeld ==
  ASSUME NEW r, IsNode(r), NEW x
  PROVE  SameHeld(r, PutFirst(r, x))
  BY DEF IsNode, PutFirst, SameHeld
\* A link to the next sibling does so too.
LEMMA NextHeld ==
  ASSUME NEW r, IsNode(r), NEW x
  PROVE  SameHeld(r, PutNext(r, x))
  BY DEF IsNode, PutNext, SameHeld
\* The range of its attributes leaves the name and the text of a node.
LEMMA AttributesHeld ==
  ASSUME NEW r, IsNode(r), NEW x, NEW y
  PROVE  LET q == PutAttributes(r, x, y)
         IN /\ q.tag = r.tag /\ q.name = r.name /\ q.attrStart = x /\ q.attrLen = y
            /\ q.text = r.text /\ q.hasText = r.hasText
  BY DEF IsNode, PutAttributes
\* Its text leaves the name and the attributes of a node.
LEMMA TextHeld ==
  ASSUME NEW r, IsNode(r), NEW x, NEW y
  PROVE  LET q == PutText(r, x, y)
         IN /\ q.tag = r.tag /\ q.name = r.name
            /\ q.attrStart = r.attrStart /\ q.attrLen = r.attrLen
            /\ q.text = x /\ q.hasText = y
  BY DEF IsNode, PutText

\* Linking a node leaves what all nodes hold, and the arena.
LEMMA LinkedHeld ==
  ASSUME NEW d, Sound(d), NEW index, index = Len(d.nodes), NEW parent \in 1 .. index
  PROVE  LET b == Linked(d, index, parent)
         IN /\ b.arena = d.arena /\ b.attrs = d.attrs
            /\ \A n \in 1 .. index : SameHeld(d.nodes[n], b.nodes[n])
  <1> DEFINE previous == d.lastChild[parent]
             first == PutFirst(d.nodes[parent], index)
             next  == PutNext(d.nodes[previous], index)
             nodes == IF previous = NONE THEN Put(d.nodes, parent, first)
                      ELSE Put(d.nodes, previous, next)
             last  == Put(d.lastChild, parent, index)
  <1> USE DEF NONE
  <1>1. /\ Linkage(d.nodes, d.lastChild)
        /\ IsList(d.nodes) /\ IsList(d.lastChild)
        /\ index \in Nat
        /\ Len(d.lastChild) = index
        /\ \A n \in 1 .. index : IsNode(d.nodes[n])
    BY DEF Sound, Linkage, IsList
  <1>2. /\ parent \in 1 .. Len(d.nodes)
        /\ parent \in 1 .. Len(d.lastChild)
        /\ previous \in After(parent, d.nodes)
    BY <1>1 DEF Linkage, After
  <1>3. Linked(d, index, parent) = [d EXCEPT !.nodes = nodes, !.lastChild = last]
    <2>1. CASE previous = NONE
      BY <2>1 DEF Linked, first, Put, PutFirst, IsDom, Sound
    <2>2. CASE previous # NONE
      BY <2>2 DEF Linked, next, Put, PutNext, IsDom, Sound
    <2> QED BY <2>1, <2>2
  <1>4. ASSUME NEW n \in 1 .. index
        PROVE  SameHeld(d.nodes[n], nodes[n])
    <2>0. SameHeld(d.nodes[n], d.nodes[n])
      BY DEF SameHeld
    <2>1. CASE previous = NONE
      <3>1. nodes[n] = IF n = parent THEN first ELSE d.nodes[n]
        BY <1>1, <1>2, <2>1, ListPut
      <3>2. SameHeld(d.nodes[parent], first)
        BY <1>1, <1>2, FirstHeld
      <3> HIDE DEF nodes, first
      <3> QED BY <2>0, <2>1, <3>1, <3>2
    <2>2. CASE previous # NONE
      <3>1. previous \in 1 .. Len(d.nodes)
        BY <1>1, <1>2, <2>2 DEF After
      <3>2. nodes[n] = IF n = previous THEN next ELSE d.nodes[n]
        BY <1>1, <2>2, <3>1, ListPut
      <3>3. SameHeld(d.nodes[previous], next)
        <4> HIDE DEF previous
        <4> QED BY <1>1, <3>1, NextHeld
      <3> HIDE DEF nodes, next
      <3> QED BY <2>0, <2>2, <3>2, <3>3
    <2> QED BY <2>1, <2>2
  <1> HIDE DEF nodes, last
  <1>5. /\ Linked(d, index, parent).nodes = nodes
        /\ Linked(d, index, parent).arena = d.arena
        /\ Linked(d, index, parent).attrs = d.attrs
    BY <1>3 DEF Sound, IsDom
  <1> QED BY <1>4, <1>5

\* push_node keeps what the nodes hold, and its own holds the name.
Pushed(b, d, tag, k) ==
  /\ IsList(b.arena) /\ Extends(b.arena, d.arena) /\ b.attrs = d.attrs
  /\ \A n \in 1 .. k - 1 : SameHeld(d.nodes[n], b.nodes[n])
  /\ b.nodes[k].tag = tag /\ NameRead(b.arena, tag, b.nodes[k].name)
  /\ b.nodes[k].hasText = FALSE
\* push_node adds a node that reads back its name, and leaves the others.
LEMMA PushNodeHeld ==
  ASSUME NEW d, Sound(d), IsList(d.arena), IsList(d.attrs), NEW tag, NEW parent \in 0 .. Len(d.nodes)
  PROVE  Pushed(PushNode(d, tag, parent), d, tag, Len(d.nodes) + 1)
  <1> DEFINE index == Len(d.nodes) + 1
             name  == NameSpan(d, tag)
             start == Len(d.attrs)
             node  == [tag |-> tag, name |-> name, parent |-> parent,
                       firstChild |-> NONE, nextSibling |-> NONE,
                       attrStart |-> start, attrLen |-> 0,
                       text |-> EmptySpan, hasText |-> FALSE]
             named == PushName(d, tag)
             p     == [named EXCEPT !.nodes = Append(@, node),
                                    !.lastChild = Append(@, NONE)]
             b     == PushNode(d, tag, parent)
  <1>1. b = IF parent = NONE THEN p ELSE Linked(p, index, parent)
    BY DEF PushNode
  <1>2. /\ IsNode(node) /\ node.firstChild = NONE /\ node.nextSibling = NONE /\ node.parent = parent
        /\ node.tag = tag /\ node.name = name /\ node.hasText = FALSE
    BY DEF IsNode
  <1> HIDE DEF node, start
  <1>3. /\ IsDom(named) /\ IsList(named.arena) /\ Extends(named.arena, d.arena)
        /\ NameRead(named.arena, tag, name)
        /\ named.attrs = d.attrs /\ named.nodes = d.nodes
    BY PushNameIs DEF Sound
  <1>4. named.lastChild = d.lastChild
    BY PushNameSound DEF Sound
  <1> HIDE DEF named, name
  <1>5. /\ IsDom(p) /\ p.nodes = Append(d.nodes, node) /\ p.lastChild = Append(d.lastChild, NONE)
        /\ p.arena = named.arena /\ p.attrs = d.attrs
    BY <1>3, <1>4 DEF IsDom
  <1> HIDE DEF p, b
  <1>6. Linkage(d.nodes, d.lastChild) /\ IsList(d.nodes) /\ Len(d.nodes) \in Nat
    BY DEF Sound, Linkage, IsList
  <1>7. Sound(p)
    <2>1. Linkage(Append(d.nodes, node), Append(d.lastChild, NONE))
      BY <1>2, <1>6, PushLinks
    <2> QED BY <1>5, <2>1 DEF Sound
  <1>8. /\ Len(p.nodes) = index
        /\ \A n \in 1 .. Len(d.nodes) : p.nodes[n] = d.nodes[n]
        /\ p.nodes[index] = node
    BY <1>5, <1>6, ListAppend
  <1>9. /\ b.arena = p.arena /\ b.attrs = p.attrs
        /\ \A n \in 1 .. index : SameHeld(p.nodes[n], b.nodes[n])
    <2>1. CASE parent = NONE
      <3>1. \A n \in 1 .. index : SameHeld(p.nodes[n], p.nodes[n])
        BY DEF SameHeld
      <3>2. b = p
        BY <1>1, <2>1
      <3> QED BY <3>1, <3>2
    <2>2. CASE parent # NONE
      <3>1. parent \in 1 .. index /\ index = Len(p.nodes)
        BY <1>6, <1>8, <2>2 DEF NONE
      <3>2. b = Linked(p, index, parent)
        BY <1>1, <2>2
      <3> HIDE DEF index
      <3> QED BY <1>7, <3>1, <3>2, LinkedHeld
    <2> QED BY <2>1, <2>2
  <1>10. \A n \in 1 .. Len(d.nodes) : n \in 1 .. index
    BY <1>6
  <1>11. index \in 1 .. index
    BY <1>6
  <1>12. \A n \in 1 .. Len(d.nodes) : SameHeld(d.nodes[n], b.nodes[n])
    BY <1>8, <1>9, <1>10
  <1>13. SameHeld(node, b.nodes[index])
    BY <1>8, <1>9, <1>11
  <1>14. /\ b.nodes[index].tag = tag /\ b.nodes[index].name = name
         /\ b.nodes[index].hasText = FALSE
    BY <1>2, <1>13 DEF SameHeld
  <1>15. index - 1 = Len(d.nodes)
    BY <1>6
  <1>16. NameRead(b.arena, tag, b.nodes[index].name) /\ IsList(b.arena)
         /\ Extends(b.arena, d.arena) /\ b.attrs = d.attrs
    BY <1>3, <1>5, <1>9, <1>14
  <1> HIDE DEF index
  <1>17. Pushed(b, d, tag, index)
    BY <1>12, <1>14, <1>15, <1>16 DEF Pushed
  <1> QED BY <1>17 DEF b, index

\* push_attributes keeps what the other nodes hold, and the last one holds the
\* attributes.
Attributes(b, d, keys, number, k) ==
  /\ IsList(b.arena) /\ IsList(b.attrs)
  /\ Extends(b.arena, d.arena) /\ Extends(b.attrs, d.attrs)
  /\ \A n \in 1 .. k - 1 : SameHeld(d.nodes[n], b.nodes[n])
  /\ b.nodes[k].tag = d.nodes[k].tag /\ b.nodes[k].name = d.nodes[k].name
  /\ b.nodes[k].hasText = d.nodes[k].hasText
  /\ AttributesRead(b.arena, b.attrs, b.nodes[k], keys, number)
\* push_attributes gives the last node its attributes, and leaves the others.
LEMMA PushAttributesHeld ==
  ASSUME NEW d, Sound(d), IsList(d.arena), IsList(d.attrs), Len(d.nodes) # 0,
         NEW element, NEW keys, IsList(keys)
  PROVE  Attributes(PushAttributes(d, element, keys), d, keys, element, Len(d.nodes))
  <1> DEFINE filled == Filled(d, element, keys)
             k == Len(d.nodes)
             start == Len(d.attrs)
             count == Len(filled.attrs) - Len(d.attrs)
             node == PutAttributes(d.nodes[k], start, count)
             nodes == Put(d.nodes, k, node)
             b == PushAttributes(d, element, keys)
  <1>1. /\ Linkage(d.nodes, d.lastChild)
        /\ IsList(d.nodes)
        /\ k \in 1 .. Len(d.nodes) /\ k \in Nat
    BY DEF Sound, Linkage, IsList
  <1>2. b = [d EXCEPT !.arena = filled.arena, !.attrs = filled.attrs, !.nodes = nodes]
    BY DEF PushAttributes, Put, PutAttributes, Sound, IsDom
  <1>3. FilledTo(filled, d, element, keys, Listed(keys))
    BY FilledIs DEF Sound
  <1> DEFINE L == Listed(keys)
  <1>4. IsList(L) /\ Len(L) \in Nat
    <2>1. Len(keys) \in Nat
      BY DEF IsList
    <2>2. L \in Seq(Nat)
      BY <2>1, InOrderGrows DEF Listed
    <2> QED BY <2>2, SeqIsList DEF IsList
  <1> HIDE DEF filled, b, L
  <1>5. /\ IsList(filled.arena) /\ IsList(filled.attrs)
        /\ Extends(filled.arena, d.arena) /\ Extends(filled.attrs, d.attrs)
        /\ Len(filled.attrs) = Len(d.attrs) + Len(L)
        /\ \A j \in 1 .. Len(L) :
             AttributeRead(filled.arena, filled.attrs[Len(d.attrs) + j], keys[L[j]], element, L[j])
    BY <1>3 DEF FilledTo, L
  <1>6. start \in Nat /\ count = Len(L)
    BY <1>4, <1>5 DEF IsList
  <1> HIDE DEF start, count
  <1>7. /\ node.tag = d.nodes[k].tag /\ node.name = d.nodes[k].name
        /\ node.attrStart = start /\ node.attrLen = count /\ node.hasText = d.nodes[k].hasText
    <2>1. IsNode(d.nodes[k])
      BY <1>1 DEF Linkage
    <2> HIDE DEF k
    <2> QED BY <2>1, AttributesHeld
  <1> HIDE DEF node
  <1>8. \A i \in 1 .. Len(d.nodes) : nodes[i] = IF i = k THEN node ELSE d.nodes[i]
    <2> HIDE DEF k
    <2> QED BY <1>1, ListPut
  <1> HIDE DEF nodes
  <1>9. b.nodes = nodes /\ b.arena = filled.arena /\ b.attrs = filled.attrs
    BY <1>2 DEF Sound, IsDom
  <1>10. b.nodes[k] = node
    BY <1>1, <1>8, <1>9
  <1>11. ASSUME NEW n \in 1 .. k - 1 PROVE SameHeld(d.nodes[n], b.nodes[n])
    <2>1. n \in 1 .. Len(d.nodes) /\ n # k
      BY <1>1
    <2>2. b.nodes[n] = d.nodes[n]
      BY <1>8, <1>9, <2>1
    <2> QED BY <2>2 DEF SameHeld
  <1>12. AttributesRead(b.arena, b.attrs, node, keys, element)
    BY <1>5, <1>6, <1>7, <1>9 DEF AttributesRead, L, start
  <1> HIDE DEF k
  <1>13. Attributes(b, d, keys, element, k)
    BY <1>5, <1>7, <1>9, <1>10, <1>11, <1>12 DEF Attributes
  <1> QED BY <1>13 DEF b, k

\* A new element in the tree, and what its node holds.
Opened(b, d, e, number, k) ==
  /\ IsList(b.arena) /\ IsList(b.attrs)
  /\ Extends(b.arena, d.arena) /\ Extends(b.attrs, d.attrs)
  /\ \A n \in 1 .. k - 1 : SameHeld(d.nodes[n], b.nodes[n])
  /\ b.nodes[k].tag = e.tag /\ NameRead(b.arena, e.tag, b.nodes[k].name)
  /\ b.nodes[k].hasText = FALSE
  /\ AttributesRead(b.arena, b.attrs, b.nodes[k], e.attributes, number)
\* open_element adds a node that holds the name and the attributes of its
\* element, and leaves what the others hold.
LEMMA OpenElementHeld ==
  ASSUME Sound(dom), IsList(dom.arena), IsList(dom.attrs), NEW e, IsList(e.attributes),
         NEW parent \in 0 .. Len(dom.nodes)
  PROVE  Opened(OpenElement(dom, e, parent), dom, e, Len(document) + 1, Len(dom.nodes) + 1)
  <1> DEFINE N == Len(dom.nodes)
             k == N + 1
             number == Len(document) + 1
             tag == e.tag
             keys == e.attributes
             p == PushNode(dom, tag, parent)
             f == PushAttributes(p, number, keys)
             b == OpenElement(dom, e, parent)
  <1>1. N \in Nat
    BY DEF Sound, Linkage, IsList
  <1>2. Sound(p) /\ Len(p.nodes) = k
    BY PushNodeSound
  <1>3. Pushed(p, dom, tag, k)
    BY PushNodeHeld
  <1>4. b = IF dom.nodes = <<>> THEN [f EXCEPT !.xmlns = "xmlns" \in ToSet(e.attributes)]
            ELSE f
    BY DEF OpenElement
  <1>5. k # 0
    BY <1>1
  <1> HIDE DEF p, b, number, k
  <1>6. Sound(f)
    BY <1>2, <1>5, PushAttributesSound
  <1>7. IsList(p.arena) /\ IsList(p.attrs)
    BY <1>3 DEF Pushed
  <1>8. Attributes(f, p, keys, number, k)
    <2>1. Attributes(f, p, keys, number, Len(p.nodes))
      BY <1>2, <1>5, <1>7, PushAttributesHeld
    <2> QED BY <1>2, <2>1
  <1> HIDE DEF f, tag, keys
  <1>9. b.nodes = f.nodes /\ b.arena = f.arena /\ b.attrs = f.attrs
    BY <1>4, <1>6 DEF Sound, IsDom
  <1>10. Extends(f.arena, dom.arena) /\ NameRead(f.arena, tag, p.nodes[k].name)
    BY <1>3, <1>7, <1>8, ExtendsMore, NameStays DEF Pushed, Attributes
  <1>11. \A n \in 1 .. k - 1 : SameHeld(dom.nodes[n], f.nodes[n])
    BY <1>3, <1>8 DEF Pushed, Attributes, SameHeld
  <1>12. Opened(b, dom, e, number, k)
    BY <1>3, <1>8, <1>9, <1>10, <1>11 DEF Pushed, Attributes, Opened, tag, keys
  <1> QED BY <1>12 DEF b, number, k

\* The attributes that are kept are numbers of attributes.
LEMMA ListedIs ==
  ASSUME NEW keys, IsList(keys)
  PROVE  /\ IsList(Listed(keys)) /\ Len(Listed(keys)) \in Nat
         /\ \A k \in 1 .. Len(Listed(keys)) : Listed(keys)[k] \in 1 .. Len(keys)
  <1> DEFINE S == {n \in 1 .. Len(keys) : keys[n] # "xmlns"}
             L == InOrder(S, Len(keys))
  <1>1. Len(keys) \in Nat
    BY DEF IsList
  <1>2. Listed(keys) = L
    BY DEF Listed
  <1> HIDE DEF S
  <1>3. Ascends(L) /\ Members(L) = S \cap (1 .. Len(keys))
    BY <1>1, InOrderLists
  <1> HIDE DEF L
  <1>4. IsList(L) /\ Len(L) \in Nat
    BY <1>3 DEF Ascends, IsList
  <1> QED BY <1>2, <1>3, <1>4 DEF Members

\* The attributes of a node read the same when the arena and the attributes
\* have grown and its links have changed.
LEMMA AttributesStay ==
  ASSUME NEW arena, IsList(arena), NEW more, IsList(more), Extends(more, arena),
         NEW attrs, IsList(attrs), NEW others, IsList(others), Extends(others, attrs),
         NEW r, NEW q, SameHeld(r, q), NEW keys, IsList(keys), NEW number,
         AttributesRead(arena, attrs, r, keys, number)
  PROVE  AttributesRead(more, others, q, keys, number)
  <1> DEFINE L == Listed(keys)
  <1>1. IsList(L) /\ Len(L) \in Nat
    BY ListedIs
  <1>2. /\ q.attrStart = r.attrStart /\ q.attrLen = r.attrLen
        /\ r.attrStart \in Nat /\ r.attrLen = Len(L) /\ r.attrStart + r.attrLen <= Len(attrs)
        /\ Len(attrs) \in Nat /\ Len(others) \in Nat /\ Len(attrs) <= Len(others)
    BY DEF AttributesRead, SameHeld, IsList, Extends
  <1> HIDE DEF L
  <1>3. ASSUME NEW k \in 1 .. Len(L)
        PROVE  AttributeRead(more, others[q.attrStart + k], keys[L[k]], number, L[k])
    <2>1. r.attrStart + k \in 1 .. Len(attrs)
      BY <1>1, <1>2
    <2>2. others[q.attrStart + k] = attrs[r.attrStart + k]
      BY <1>2, <2>1 DEF Extends
    <2>3. AttributeRead(arena, attrs[r.attrStart + k], keys[L[k]], number, L[k])
      BY DEF AttributesRead, L
    <2> QED BY <2>2, <2>3, AttributeStays
  <1> QED BY <1>1, <1>2, <1>3 DEF AttributesRead, L

\* A node still holds its element when neither changes.
LEMMA HoldsStays ==
  ASSUME NEW d, NEW b, IsList(d.arena), IsList(b.arena), IsList(d.attrs), IsList(b.attrs),
         Extends(b.arena, d.arena), Extends(b.attrs, d.attrs),
         NEW i, SameHeld(d.nodes[i], b.nodes[i]),
         NEW list, NEW more, NEW n, IsList(list[n].attributes),
         more[n].tag = list[n].tag, more[n].attributes = list[n].attributes,
         more[n].texts = list[n].texts, more[n].closed = list[n].closed,
         Childless(more, n) => Childless(list, n),
         Holds(d, i, list, n)
  PROVE  Holds(b, i, more, n)
  <1>1. b.nodes[i].tag = more[n].tag
    BY DEF Holds, SameHeld
  <1>2. NameRead(b.arena, more[n].tag, b.nodes[i].name)
    BY NameStays DEF Holds, SameHeld
  <1>3. AttributesRead(b.arena, b.attrs, b.nodes[i], more[n].attributes, n)
    BY AttributesStay DEF Holds
  <1>4. TextRead(b.arena, b.nodes[i], more, n)
    <2>1. TextRead(d.arena, d.nodes[i], list, n)
      BY DEF Holds
    <2>2. b.nodes[i].text = d.nodes[i].text /\ b.nodes[i].hasText = d.nodes[i].hasText
      BY DEF SameHeld
    <2>3. CASE d.nodes[i].hasText
      <3>1. PICK text \in Runs(list[n].texts) :
              /\ Reads(d.arena, d.nodes[i].text, text) /\ ~ Blank(text)
              /\ Childless(list, n) => text = list[n].texts
        BY <2>1, <2>3 DEF TextRead
      <3>2. list[n].closed
        BY <2>1, <2>3 DEF TextRead
      <3>3. Reads(b.arena, b.nodes[i].text, text)
        BY <2>2, <3>1, ReadsStays
      <3>4. text \in Runs(more[n].texts) /\ (Childless(more, n) => text = more[n].texts)
        BY <3>1
      <3> QED BY <2>2, <2>3, <3>1, <3>2, <3>3, <3>4 DEF TextRead
    <2>4. CASE ~ d.nodes[i].hasText
      BY <2>1, <2>2, <2>4 DEF TextRead
    <2> QED BY <2>3, <2>4
  <1> QED BY <1>1, <1>2, <1>3, <1>4 DEF Holds

\* A node holds what it holds.
LEMMA SameHeldSelf ==
  ASSUME NEW r
  PROVE  SameHeld(r, r)
  BY DEF SameHeld

\* The new node holds its element.
LEMMA HoldsNew ==
  ASSUME NEW b, NEW d, NEW e, NEW k, NEW list, NEW n, Opened(b, d, e, n, k),
         list[n].tag = e.tag, list[n].attributes = e.attributes, list[n].texts = <<>>
  PROVE  Holds(b, k, list, n)
  <1>1. Blank(<<>>)
    BY DEF Blank
  <1>2. TextRead(b.arena, b.nodes[k], list, n)
    BY <1>1 DEF TextRead, Opened
  <1> QED BY <1>2 DEF Holds, Opened

\* One more element that is met keeps the nesting, entered or not.
LEMMA NestedMeets ==
  ASSUME NEW list, IsDocument(list), NEW within, IsList(within), Nested(within, list),
         \A j \in 1 .. Len(within) : within[j] \in 1 .. Len(list),
         NEW more, IsList(more), Len(more) = Len(list) + 1,
         \A k \in 1 .. Len(list) : more[k].parent = list[k].parent /\ more[k].closed = list[k].closed,
         more[Len(list) + 1].parent = (IF within = <<>> THEN NONE ELSE within[Len(within)])
  PROVE  /\ Nested(within, more)
         /\ ~ more[Len(list) + 1].closed => Nested(Append(within, Len(list) + 1), more)
  <1> DEFINE N == Len(list)
             up == more[N + 1].parent
             w == Append(within, N + 1)
             M == Len(within)
  <1>1. /\ N \in Nat /\ M \in Nat
        /\ \A k \in 1 .. N : list[k].parent \in 0 .. k - 1
        /\ \A j \in 1 .. M : within[j] \in 1 .. N
        /\ within = <<>> <=> M = 0
    BY DEF IsDocument, IsList
  <1>2. /\ \A i, j \in 1 .. M : i < j => within[i] < within[j]
        /\ \A j \in 1 .. M :
             /\ ~ list[within[j]].closed
             /\ j # 1 => list[within[j]].parent = within[j - 1]
             /\ \A k \in within[j] + 1 .. N : list[k].parent >= within[j]
        /\ \A k \in 1 .. N : \A j \in list[k].parent + 1 .. k - 1 : list[j].parent >= list[k].parent
    BY DEF Nested, Ascends
  <1>3. up \in 0 .. N
    BY <1>1 DEF NONE
  <1>4. \A j \in 1 .. M : up >= within[j]
    <2>1. ASSUME NEW j \in 1 .. M PROVE up >= within[j]
      <3>1. up = within[M] /\ M \in 1 .. M
        BY <1>1
      <3>2. j = M \/ within[j] < within[M]
        BY <1>2, <3>1
      <3> QED BY <1>1, <3>1, <3>2
    <2> QED BY <2>1
  <1>5. \A j \in up + 1 .. N : list[j].parent >= up
    <2>1. CASE M = 0
      BY <1>1, <2>1 DEF NONE
    <2>2. CASE M # 0
      BY <1>1, <1>2, <2>2
    <2> QED BY <2>1, <2>2
  <1>6. /\ \A k \in 1 .. N : more[k].parent = list[k].parent /\ more[k].closed = list[k].closed
        /\ Len(more) = N + 1
    OBVIOUS
  <1> HIDE DEF N, M, up
  <1>7. ASSUME NEW j \in 1 .. M
        PROVE  /\ ~ more[within[j]].closed
               /\ j # 1 => more[within[j]].parent = within[j - 1]
               /\ \A k \in within[j] + 1 .. N + 1 : more[k].parent >= within[j]
    <2>1. within[j] \in 1 .. N
      BY <1>1
    <2>2. ASSUME NEW k \in within[j] + 1 .. N + 1 PROVE more[k].parent >= within[j]
      <3>1. CASE k = N + 1
        BY <1>4, <3>1 DEF up
      <3>2. CASE k # N + 1
        <4>1. k \in 1 .. N /\ k \in within[j] + 1 .. N
          BY <1>1, <2>1, <3>2
        <4> QED BY <1>2, <1>6, <4>1
      <3> QED BY <3>1, <3>2
    <2> QED BY <1>2, <1>6, <2>1, <2>2
  <1>8. ASSUME NEW k \in 1 .. N + 1, NEW j \in more[k].parent + 1 .. k - 1
        PROVE  more[j].parent >= more[k].parent
    <2>1. CASE k = N + 1
      <3>1. more[k].parent = up
        BY <2>1 DEF up
      <3>2. j \in up + 1 .. N /\ j \in 1 .. N
        BY <1>1, <1>3, <2>1, <3>1
      <3> QED BY <1>5, <1>6, <3>1, <3>2
    <2>2. CASE k # N + 1
      <3>1. k \in 1 .. N
        BY <1>1, <2>2
      <3>2. more[k].parent = list[k].parent /\ list[k].parent \in 0 .. k - 1
        BY <1>1, <1>6, <3>1
      <3>3. j \in 1 .. N /\ j \in list[k].parent + 1 .. k - 1
        BY <1>1, <3>1, <3>2
      <3>4. more[j].parent = list[j].parent
        BY <1>6, <3>3
      <3> QED BY <1>2, <3>1, <3>2, <3>3, <3>4
    <2> QED BY <2>1, <2>2
  <1>9. Nested(within, more)
    BY <1>6, <1>7, <1>8 DEF Nested, M
  <1>10. ASSUME ~ more[N + 1].closed PROVE Nested(w, more)
    <2>1. /\ IsList(w) /\ Len(w) = M + 1
          /\ \A j \in 1 .. M : w[j] = within[j]
          /\ w[M + 1] = N + 1
      BY ListAppend DEF M
    <2> HIDE DEF w
    <2>2. Ascends(w)
      <3>1. \A j \in 1 .. M + 1 : j \in 1 .. M \/ j = M + 1
        BY <1>1
      <3>2. ASSUME NEW j \in 1 .. Len(w) PROVE w[j] \in Nat
        <4>1. N + 1 \in Nat /\ 1 .. N \subseteq Nat
          BY <1>1
        <4> QED BY <1>1, <2>1, <3>1, <4>1
      <3>3. ASSUME NEW i \in 1 .. M + 1, NEW j \in 1 .. M + 1, i < j PROVE w[i] < w[j]
        <4>1. i \in 1 .. M
          BY <1>1, <3>3
        <4>2. CASE j = M + 1
          BY <1>1, <2>1, <4>1, <4>2
        <4>3. CASE j \in 1 .. M
          BY <1>2, <2>1, <3>3, <4>1, <4>3
        <4> QED BY <3>1, <4>2, <4>3
      <3> QED BY <2>1, <3>2, <3>3 DEF Ascends
    <2>3. ASSUME NEW j \in 1 .. Len(w)
          PROVE  /\ ~ more[w[j]].closed
                 /\ j # 1 => more[w[j]].parent = w[j - 1]
                 /\ \A k \in w[j] + 1 .. N + 1 : more[k].parent >= w[j]
      <3>1. CASE j \in 1 .. M
        <4>1. w[j] = within[j] /\ (j # 1 => j - 1 \in 1 .. M)
          BY <1>1, <2>1, <3>1
        <4> QED BY <1>7, <2>1, <3>1, <4>1
      <3>2. CASE j = M + 1
        <4>1. w[j] = N + 1 /\ \A k \in w[j] + 1 .. N + 1 : FALSE
          BY <1>1, <2>1, <3>2
        <4>2. ASSUME j # 1 PROVE more[w[j]].parent = w[j - 1]
          <5>1. M # 0 /\ M \in 1 .. M /\ j - 1 = M
            BY <1>1, <3>2, <4>2
          <5>2. up = within[M]
            BY <1>1, <5>1 DEF up, N, M
          <5> QED BY <2>1, <4>1, <5>1, <5>2 DEF up
        <4> QED BY <1>10, <4>1, <4>2
      <3> QED BY <1>1, <2>1, <3>1, <3>2
    <2> QED BY <1>6, <1>8, <2>2, <2>3 DEF Nested
  <1> QED BY <1>9, <1>10 DEF N, w

\* So does one that is left.
LEMMA NestedLeaves ==
  ASSUME NEW list, NEW within, IsList(within), within # <<>>, Nested(within, list),
         NEW rest, rest = Front(within),
         NEW more, Len(more) = Len(list),
         \A k \in 1 .. Len(list) : more[k].parent = list[k].parent,
         \A k \in 1 .. Len(list) : k # within[Len(within)] => more[k].closed = list[k].closed,
         \A j \in 1 .. Len(within) : within[j] \in 1 .. Len(list),
         IsDocument(list)
  PROVE  Nested(rest, more)
  <1> DEFINE M == Len(within)
  <1>1. /\ IsList(rest) /\ M \in Nat \ {0} /\ Len(rest) = M - 1
        /\ \A i \in 1 .. Len(rest) : rest[i] = within[i]
    <2>1. rest = SubSeq(within, 1, Len(within) - 1)
      BY DEF Front
    <2> QED BY <2>1, ListFront
  <1>2. \A j \in 1 .. Len(rest) : j \in 1 .. M /\ j < M
    BY <1>1
  <1>3. Len(list) \in Nat /\ \A k \in 1 .. Len(list) : list[k].parent \in 0 .. k - 1
    BY DEF IsDocument, IsList
  <1>4. /\ \A i, j \in 1 .. M : i < j => within[i] < within[j]
        /\ \A i \in 1 .. M : within[i] \in Nat
    BY DEF Nested, Ascends
  <1>5. \A j \in 1 .. Len(rest) : rest[j] # within[M] /\ rest[j] \in 1 .. Len(list)
    <2>1. M \in 1 .. M
      BY <1>1
    <2>2. ASSUME NEW j \in 1 .. Len(rest) PROVE rest[j] # within[M]
      <3>1. within[j] < within[M]
        BY <1>2, <1>4, <2>1
      <3> QED BY <1>1, <1>2, <1>4, <2>1, <3>1
    <2> QED BY <1>1, <1>2, <2>2
  <1>6. Ascends(rest)
    BY <1>1, <1>2, <1>4 DEF Ascends
  <1>7. ASSUME NEW j \in 1 .. Len(rest)
        PROVE  /\ ~ more[rest[j]].closed
               /\ j # 1 => more[rest[j]].parent = rest[j - 1]
               /\ \A k \in rest[j] + 1 .. Len(more) : more[k].parent >= rest[j]
    <2>1. rest[j] = within[j] /\ j \in 1 .. M /\ (j # 1 => rest[j - 1] = within[j - 1])
      BY <1>1, <1>2
    <2>2. /\ ~ list[within[j]].closed
          /\ j # 1 => list[within[j]].parent = within[j - 1]
          /\ \A k \in within[j] + 1 .. Len(list) : list[k].parent >= within[j]
      BY <2>1 DEF Nested
    <2>3. \A k \in within[j] + 1 .. Len(list) : k \in 1 .. Len(list)
      BY <1>3, <1>5, <2>1
    <2> HIDE DEF M
    <2> QED BY <1>5, <2>1, <2>2, <2>3 DEF M
  <1>8. ASSUME NEW k \in 1 .. Len(list), NEW j \in list[k].parent + 1 .. k - 1
        PROVE  j \in 1 .. Len(list) /\ list[j].parent >= list[k].parent
    BY <1>3 DEF Nested
  <1>9. \A k \in 1 .. Len(more) :
          \A j \in more[k].parent + 1 .. k - 1 : more[j].parent >= more[k].parent
    BY <1>8
  <1> QED BY <1>6, <1>7, <1>9 DEF Nested

\* So do character data.
LEMMA NestedSame ==
  ASSUME NEW list, NEW within, Nested(within, list), IsDocument(list),
         NEW more, Len(more) = Len(list),
         \A k \in 1 .. Len(list) : more[k].parent = list[k].parent /\ more[k].closed = list[k].closed,
         \A j \in 1 .. Len(within) : within[j] \in 1 .. Len(list)
  PROVE  Nested(within, more)
  <1>1. Len(list) \in Nat /\ \A k \in 1 .. Len(list) : list[k].parent \in 0 .. k - 1
    BY DEF IsDocument, IsList
  <1>2. ASSUME NEW j \in 1 .. Len(within)
        PROVE  /\ ~ more[within[j]].closed
               /\ j # 1 => more[within[j]].parent = within[j - 1]
               /\ \A k \in within[j] + 1 .. Len(more) : more[k].parent >= within[j]
    <2>1. \A k \in within[j] + 1 .. Len(list) : k \in 1 .. Len(list)
      BY <1>1
    <2> QED BY <2>1 DEF Nested
  <1>3. ASSUME NEW k \in 1 .. Len(list), NEW j \in list[k].parent + 1 .. k - 1
        PROVE  j \in 1 .. Len(list) /\ list[j].parent >= list[k].parent
    BY <1>1 DEF Nested
  <1>4. \A k \in 1 .. Len(more) :
          \A j \in more[k].parent + 1 .. k - 1 : more[j].parent >= more[k].parent
    BY <1>3
  <1> QED BY <1>2, <1>4 DEF Nested

\* The document with one more element.
MetAs(more, e, c) ==
  LET N == Len(document) IN
  /\ IsList(more) /\ Len(more) = N + 1
  /\ \A k \in 1 .. N : more[k] = document[k]
  /\ more[N + 1].tag = e.tag /\ more[N + 1].attributes = e.attributes
  /\ more[N + 1].texts = <<>> /\ more[N + 1].closed = c /\ more[N + 1].parent = Enclosing
  /\ KeptOf(more) = IF skipping = 0 /\ e.tag \notin Sections
                    THEN Append(KeptOf(document), N + 1) ELSE KeptOf(document)

\* A start tag adds its element to the document, an empty one a closed one.
LEMMA MetIs ==
  ASSUME DocumentInv, NEW e
  PROVE  MetAs(Met(e), e, FALSE) /\ MetAs(Closed(Met(e), Len(document) + 1), e, TRUE)
  <1> DEFINE r == Newcomer(e)
             N == Len(document)
             more == Met(e)
             q == [r EXCEPT !.closed = TRUE]
             last == Closed(more, N + 1)
  <1>1. IsDocument(document) /\ N \in Nat /\ skipping \in Nat
    BY DEF DocumentInv, TreeInv, IsDocument, IsList
  <1>2. /\ more = Append(document, r) /\ IsElement(r) /\ r.kept \in BOOLEAN
        /\ r.parent = Enclosing /\ Enclosing \in 0 .. N
        /\ skipping > 0 => r.kept = FALSE
        /\ skipping = 0 /\ e.tag \in Sections => r.kept = FALSE
        /\ skipping = 0 /\ e.tag \notin Sections => r.kept = TRUE
    BY NewcomerIs
  <1>3. /\ r.tag = e.tag /\ r.attributes = e.attributes /\ r.texts = <<>> /\ r.closed = FALSE
    BY DEF Newcomer
  <1>4. /\ q.tag = e.tag /\ q.attributes = e.attributes /\ q.texts = <<>> /\ q.closed = TRUE
        /\ q.parent = Enclosing
    BY DEF Newcomer
  <1>5. last = Put(more, N + 1, [more[N + 1] EXCEPT !.closed = TRUE])
    BY DEF Closed, Put
  <1> HIDE DEF r, more, last
  <1>6. /\ IsDocument(more) /\ Len(more) = N + 1 /\ more[N + 1] = r
        /\ \A k \in 1 .. Len(document) : more[k] = document[k]
        /\ KeptOf(more) = IF r.kept THEN Append(KeptOf(document), N + 1) ELSE KeptOf(document)
    BY <1>1, <1>2, DocumentGrows
  <1>7. last = Put(more, N + 1, q)
    BY <1>5, <1>6
  <1> HIDE DEF q
  <1>8. IsList(more) /\ N + 1 \in 1 .. Len(more)
    BY <1>1, <1>6 DEF IsDocument
  <1>9. /\ IsList(last) /\ Len(last) = N + 1
        /\ \A k \in 1 .. Len(more) : last[k] = IF k = N + 1 THEN q ELSE more[k]
    BY <1>6, <1>7, <1>8, ListPut
  <1>10. KeptOf(last) = KeptOf(more)
    <2>1. SameDocument(more, last)
      BY <1>1, <1>6, <1>8, ClosedSame DEF last
    <2> QED BY <1>6, <2>1, DocumentSame
  <1>11. r.kept <=> skipping = 0 /\ e.tag \notin Sections
    <2>1. skipping = 0 \/ skipping > 0
      BY <1>1
    <2> QED BY <1>2, <2>1
  <1>12. KeptOf(more) = IF skipping = 0 /\ e.tag \notin Sections
                        THEN Append(KeptOf(document), N + 1) ELSE KeptOf(document)
    BY <1>2, <1>6, <1>11
  <1>13. MetAs(more, e, FALSE)
    BY <1>2, <1>3, <1>6, <1>8, <1>12 DEF MetAs
  <1>14. \A k \in 1 .. N : last[k] = document[k]
    BY <1>1, <1>6, <1>9
  <1>15. last[N + 1] = q
    BY <1>1, <1>6, <1>9
  <1>16. MetAs(last, e, TRUE)
    BY <1>4, <1>9, <1>10, <1>12, <1>14, <1>15 DEF MetAs
  <1> QED BY <1>13, <1>16 DEF more, last

\* The element that encloses the next one is the last of those open.
LEMMA EnclosingIs == Enclosing = IF inside = <<>> THEN NONE ELSE inside[Len(inside)]
  BY DEF Enclosing, Last

\* What a new element leaves of the contents, without the text at hand.
MeetsWell(d, more, c) ==
  /\ IsList(d.arena) /\ IsList(d.attrs) /\ Listing(more)
  /\ \A i \in 1 .. Len(d.nodes) : Holds(d, i, more, KeptOf(more)[i])
  /\ Nested(inside, more)
  /\ ~ c => Nested(Append(inside, Len(document) + 1), more)

\* A new element leaves the document listed and in its order; no element loses
\* a child, and the one that encloses it has one.
LEMMA MeetTypes ==
  ASSUME ContentInv, NEW e \in Elements, NEW more, NEW c \in BOOLEAN, MetAs(more, e, c)
  PROVE  /\ Listing(more) /\ Nested(inside, more) /\ IsList(e.attributes)
         /\ ~ c => Nested(Append(inside, Len(document) + 1), more)
         /\ \A n \in 1 .. Len(document) : Childless(more, n) => Childless(document, n)
         /\ Enclosing # NONE => ~ Childless(more, Enclosing)
  <1> DEFINE N == Len(document)
  <1>1. /\ IsDocument(document) /\ N \in Nat /\ IsList(inside) /\ Nested(inside, document)
        /\ \A j \in 1 .. Len(inside) : inside[j] \in 1 .. N
        /\ Listing(document)
    BY DEF ContentInv, Contents, DocumentInv, TreeInv, IsDocument, IsList, Stacks
  <1>2. e.attributes \in Seq(STRING) /\ IsList(e.attributes)
    <2>1. e.attributes \in Seq(STRING)
      BY ElementsAssumption
    <2> QED BY <2>1, SeqIsList
  <1>3. /\ IsList(more) /\ Len(more) = N + 1
        /\ \A k \in 1 .. N : more[k] = document[k]
        /\ more[N + 1].attributes = e.attributes
        /\ more[N + 1].texts = <<>> /\ more[N + 1].closed = c /\ more[N + 1].parent = Enclosing
    BY DEF MetAs
  <1>4. Enclosing = IF inside = <<>> THEN NONE ELSE inside[Len(inside)]
    BY EnclosingIs
  <1>5. Nested(inside, more) /\ (~ c => Nested(Append(inside, N + 1), more))
    <2> HIDE DEF N
    <2>1. \A k \in 1 .. N : more[k].parent = document[k].parent /\ more[k].closed = document[k].closed
      BY <1>3
    <2> USE DEF N
    <2> QED BY <1>1, <1>3, <1>4, <2>1, NestedMeets
  <1> HIDE DEF N
  <1>6. Listing(more)
    <2>1. IsList(<<>>)
      BY DEF IsList
    <2>2. ASSUME NEW n \in 1 .. N + 1
          PROVE  IsList(more[n].texts) /\ more[n].attributes \in Seq(STRING)
      <3>1. CASE n = N + 1
        BY <1>2, <1>3, <2>1, <3>1
      <3>2. CASE n \in 1 .. N
        BY <1>1, <1>3, <3>2 DEF Listing, N
      <3> QED BY <1>1, <3>1, <3>2
    <2> QED BY <1>3, <2>2 DEF Listing
  <1>7. ASSUME NEW n \in 1 .. N, Childless(more, n) PROVE Childless(document, n)
    <2>1. \A m \in 1 .. N : m \in 1 .. Len(more) /\ more[m].parent = document[m].parent
      BY <1>1, <1>3
    <2> QED BY <1>7, <2>1 DEF Childless, N
  <1>8. Enclosing # NONE => ~ Childless(more, Enclosing)
    <2>1. N + 1 \in 1 .. Len(more)
      BY <1>1, <1>3
    <2> QED BY <1>3, <2>1 DEF Childless
  <1> QED BY <1>2, <1>5, <1>6, <1>7, <1>8 DEF N

\* Old nodes hold what they held.
LEMMA MeetHolds ==
  ASSUME ContentInv, NEW e \in Elements, NEW more, NEW c \in BOOLEAN, MetAs(more, e, c),
         NEW d, IsList(d.arena), IsList(d.attrs), Extends(d.arena, dom.arena),
         Extends(d.attrs, dom.attrs),
         NEW i \in 1 .. Len(dom.nodes), SameHeld(dom.nodes[i], d.nodes[i])
  PROVE  Holds(d, i, more, KeptOf(more)[i])
  <1> DEFINE K == KeptOf(document)
             n == K[i]
  <1>1. /\ IsDocument(document) /\ IsList(dom.arena) /\ IsList(dom.attrs)
        /\ Listing(document) /\ Holds(dom, i, document, n) /\ Len(dom.nodes) = Len(K)
    BY DEF ContentInv, Contents, DocumentInv, Represents
  <1>2. IsList(K) /\ i \in 1 .. Len(K) /\ n \in 1 .. Len(document)
    BY <1>1, KeptIs
  <1> HIDE DEF K
  <1>3. KeptOf(more)[i] = n
    <2>1. KeptOf(more) = K \/ KeptOf(more) = Append(K, Len(document) + 1)
      BY DEF MetAs, K
    <2> QED BY <1>2, <2>1, ListAppend
  <1> HIDE DEF n
  <1>4. more[n] = document[n]
    BY <1>2 DEF MetAs
  <1>5. Childless(more, n) => Childless(document, n)
    BY <1>2, MeetTypes
  <1>6. IsList(document[n].attributes)
    <2>1. document[n].attributes \in Seq(STRING)
      BY <1>1, <1>2 DEF Listing
    <2> QED BY <2>1, SeqIsList
  <1>7. Holds(d, i, more, n)
    BY <1>1, <1>4, <1>5, <1>6, HoldsStays
  <1> QED BY <1>3, <1>7

\* An element that is not kept, or a section.
LEMMA MeetUnkept ==
  ASSUME ContentInv, NEW e \in Elements, NEW more, NEW c \in BOOLEAN, MetAs(more, e, c),
         ~ (skipping = 0 /\ e.tag \notin Sections),
         NEW d, d.nodes = dom.nodes, d.arena = dom.arena, d.attrs = dom.attrs
  PROVE  MeetsWell(d, more, c)
  <1>1. IsList(d.arena) /\ IsList(d.attrs)
    BY DEF ContentInv, Contents
  <1>2. Extends(d.arena, dom.arena) /\ Extends(d.attrs, dom.attrs)
    BY <1>1, ExtendsSelf
  <1>3. ASSUME NEW i \in 1 .. Len(d.nodes) PROVE Holds(d, i, more, KeptOf(more)[i])
    <2>1. SameHeld(dom.nodes[i], d.nodes[i])
      BY SameHeldSelf
    <2> QED BY <1>1, <1>2, <2>1, MeetHolds
  <1>4. /\ Listing(more) /\ Nested(inside, more)
        /\ ~ c => Nested(Append(inside, Len(document) + 1), more)
    BY MeetTypes
  <1> QED BY <1>1, <1>3, <1>4 DEF MeetsWell

\* An element that is kept.
LEMMA MeetKept ==
  ASSUME ContentInv, NEW e \in Elements, NEW more, NEW c \in BOOLEAN, MetAs(more, e, c),
         skipping = 0, e.tag \notin Sections,
         NEW d, d = OpenElement(dom, e, Parent)
  PROVE  MeetsWell(d, more, c)
  <1> DEFINE k == Len(dom.nodes) + 1
             n == Len(document) + 1
             K == KeptOf(document)
  <1>1. /\ Sound(dom) /\ IsList(dom.arena) /\ IsList(dom.attrs) /\ TreeInv
        /\ IsDocument(document) /\ Len(dom.nodes) = Len(K)
    BY DEF ContentInv, Contents, DocumentInv, TreeInv, Represents
  <1>2. /\ Listing(more) /\ Nested(inside, more) /\ IsList(e.attributes)
        /\ ~ c => Nested(Append(inside, Len(document) + 1), more)
    BY MeetTypes
  <1>3. Parent \in 0 .. Len(dom.nodes)
    BY <1>1, ParentIsOpen
  <1>4. Opened(d, dom, e, n, k)
    BY <1>1, <1>2, <1>3, OpenElementHeld
  <1>5. Len(d.nodes) = k
    BY <1>1, <1>3, OpenElementSound
  <1>6. IsList(K) /\ Len(K) \in Nat
    BY <1>1, KeptIs DEF IsList
  <1>7. KeptOf(more)[k] = n
    <2>1. KeptOf(more) = Append(K, n)
      BY DEF MetAs
    <2> HIDE DEF K, n
    <2> QED BY <1>1, <1>6, <2>1, ListAppend
  <1>8. Holds(d, k, more, n)
    <2>1. more[n].tag = e.tag /\ more[n].attributes = e.attributes /\ more[n].texts = <<>>
      BY DEF MetAs
    <2> HIDE DEF k, n
    <2> QED BY <1>4, <2>1, HoldsNew
  <1>9. IsList(d.arena) /\ IsList(d.attrs) /\ Extends(d.arena, dom.arena) /\ Extends(d.attrs, dom.attrs)
    BY <1>4 DEF Opened
  <1>10. ASSUME NEW i \in 1 .. Len(dom.nodes) PROVE Holds(d, i, more, KeptOf(more)[i])
    <2>1. i \in 1 .. k - 1
      BY <1>1, <1>6
    <2>2. SameHeld(dom.nodes[i], d.nodes[i])
      BY <1>4, <2>1 DEF Opened
    <2> QED BY <1>9, <2>2, MeetHolds
  <1>11. \A i \in 1 .. k : i = k \/ i \in 1 .. Len(dom.nodes)
    BY <1>1, <1>6
  <1>12. \A i \in 1 .. Len(d.nodes) : Holds(d, i, more, KeptOf(more)[i])
    <2> HIDE DEF k, n
    <2> QED BY <1>5, <1>7, <1>8, <1>10, <1>11
  <1> QED BY <1>2, <1>9, <1>12 DEF MeetsWell

\* What goes with every step of the contents.
LEMMA ContentFacts ==
  ASSUME ContentInv
  PROVE  /\ DocumentInv /\ IsDocument(document) /\ IsList(document) /\ Len(document) \in Nat
         /\ Sound(dom) /\ IsList(dom.arena) /\ IsList(dom.attrs) /\ IsList(scratch)
         /\ Listing(document) /\ Nested(inside, document)
         /\ Pending(scratch, inside, skipping, document)
         /\ IsList(inside) /\ Len(inside) \in Nat /\ Len(open) \in Nat /\ skipping \in Nat
         /\ Len(open) + skipping = Len(inside)
         /\ \A j \in 1 .. Len(inside) : inside[j] \in 1 .. Len(document)
         /\ \A j \in 1 .. Len(inside) : document[inside[j]].kept <=> j <= Len(open)
         /\ \A j \in 1 .. Len(open) : open[j] \in 1 .. Len(KeptOf(document))
         /\ \A j \in 1 .. Len(open) : KeptOf(document)[open[j]] = inside[j]
         /\ Len(dom.nodes) = Len(KeptOf(document))
  BY DEF ContentInv, Contents, DocumentInv, TreeInv, IsDocument, IsList, Stacks, Represents

\* No text is at hand where none is read.
LEMMA NothingPending ==
  ASSUME NEW within, NEW skip, NEW list,
         within # <<>> /\ skip = 0 =>
           /\ IsList(list[within[Len(within)]].texts)
           /\ Childless(list, within[Len(within)]) => list[within[Len(within)]].texts = <<>>
  PROVE  Pending(<<>>, within, skip, list)
  <1>1. CASE within # <<>> /\ skip = 0
    <2> DEFINE n == within[Len(within)]
               t == list[n].texts
    <2>1. IsList(t) /\ (Childless(list, n) => t = <<>>)
      BY <1>1
    <2> HIDE DEF t, n
    <2>2. Len(t) + 1 \in 1 .. Len(t) + 1 /\ Len(t) \in Int /\ Len(t) + 1 \in Int /\ Len(t) < Len(t) + 1
      BY <2>1 DEF IsList
    <2>3. <<>> = SubSeq(t, Len(t) + 1, Len(t))
      BY <2>2, SubSeqEmpty
    <2>4. IsTail(<<>>, t)
      BY <2>2, <2>3 DEF IsTail
    <2> QED BY <1>1, <2>1, <2>4 DEF Pending, t, n
  <1>2. CASE ~ (within # <<>> /\ skip = 0)
    BY <1>2 DEF Pending
  <1> QED BY <1>1, <1>2

\* A start tag keeps the contents: the new element has no text yet.
LEMMA EntersContents ==
  ASSUME ContentInv, NEW e \in Elements, NEW d, MeetsWell(d, Met(e), FALSE), NEW skip,
         NEW text, IsList(text), text = <<>>
  PROVE  Contents(d, Met(e), Append(inside, Len(document) + 1), skip, text)
  <1> DEFINE more == Met(e)
             n == Len(document) + 1
             w == Append(inside, n)
  <1>1. MetAs(more, e, FALSE) /\ IsList(inside)
    BY MetIs, ContentFacts
  <1>2. more[n].texts = <<>> /\ Listing(more) /\ Nested(w, more)
    BY <1>1 DEF MetAs, MeetsWell
  <1>3. w[Len(w)] = n /\ Len(w) \in Nat
    BY <1>1, ListAppend DEF IsList
  <1> HIDE DEF more, n, w
  <1>4. IsList(<<>>)
    BY DEF IsList
  <1>5. Pending(text, w, skip, more)
    BY <1>2, <1>3, <1>4, NothingPending
  <1> QED BY <1>2, <1>5 DEF Contents, MeetsWell, more, n, w

\* An element that is empty leaves the character data be.
LEMMA EmptyContents ==
  ASSUME ContentInv, NEW e \in Elements, NEW d,
         MeetsWell(d, Closed(Met(e), Len(document) + 1), TRUE)
  PROVE  Contents(d, Closed(Met(e), Len(document) + 1), inside, skipping, scratch)
  <1> DEFINE more == Closed(Met(e), Len(document) + 1)
  <1>1. MetAs(more, e, TRUE)
    BY MetIs, ContentFacts
  <1> HIDE DEF more
  <1>2. Enclosing # NONE => ~ Childless(more, Enclosing)
    BY <1>1, MeetTypes
  <1>3. Pending(scratch, inside, skipping, document)
    BY ContentFacts
  <1>4. Pending(scratch, inside, skipping, more)
    <2>1. CASE inside = <<>> \/ skipping # 0
      BY <1>3, <2>1 DEF Pending
    <2>2. CASE ~ (inside = <<>> \/ skipping # 0)
      <3> DEFINE n == inside[Len(inside)]
      <3>1. n \in 1 .. Len(document)
        <4>1. Len(inside) \in 1 .. Len(inside)
          BY <2>2, ContentFacts DEF IsList
        <4> QED BY <4>1, ContentFacts
      <3>2. more[n] = document[n]
        BY <1>1, <3>1 DEF MetAs
      <3>3. Enclosing = n /\ n # NONE
        BY <2>2, <3>1, EnclosingIs DEF NONE
      <3>4. ~ Childless(more, n)
        BY <1>2, <3>3
      <3> QED BY <1>3, <2>2, <3>2, <3>4 DEF Pending
    <2> QED BY <2>1, <2>2
  <1> QED BY <1>4, ContentFacts DEF Contents, MeetsWell, more

\* What Closed changes.
ClosedAt(more, list, n) ==
  /\ Len(more) = Len(list) /\ IsList(more)
  /\ \A k \in 1 .. Len(list) :
       /\ more[k].tag = list[k].tag /\ more[k].attributes = list[k].attributes
       /\ more[k].parent = list[k].parent /\ more[k].texts = list[k].texts
       /\ more[k].closed = IF k = n THEN TRUE ELSE list[k].closed
\* An end tag closes one element and leaves the rest of it, and the others.
LEMMA ClosedIs ==
  ASSUME NEW list, IsDocument(list), NEW n \in 1 .. Len(list)
  PROVE  ClosedAt(Closed(list, n), list, n)
  <1> DEFINE r == [list[n] EXCEPT !.closed = TRUE]
             more == Closed(list, n)
  <1>1. IsElement(list[n]) /\ IsList(list)
    BY DEF IsDocument
  <1>2. /\ r.tag = list[n].tag /\ r.attributes = list[n].attributes /\ r.parent = list[n].parent
        /\ r.texts = list[n].texts /\ r.closed = TRUE
    BY <1>1 DEF IsElement
  <1>3. more = Put(list, n, r)
    BY DEF Closed, Put
  <1> HIDE DEF r, more
  <1>4. /\ IsList(more) /\ Len(more) = Len(list)
        /\ \A k \in 1 .. Len(list) : more[k] = IF k = n THEN r ELSE list[k]
    BY <1>1, <1>3, ListPut
  <1>5. ClosedAt(more, list, n)
    BY <1>2, <1>4 DEF ClosedAt
  <1> QED BY <1>5 DEF more

\* What Characters changes.
TextAt(more, list, n, piece) ==
  /\ Len(more) = Len(list) /\ IsList(more)
  /\ \A k \in 1 .. Len(list) :
       /\ more[k].tag = list[k].tag /\ more[k].attributes = list[k].attributes
       /\ more[k].parent = list[k].parent /\ more[k].closed = list[k].closed
       /\ more[k].texts = IF k = n THEN Append(list[n].texts, piece) ELSE list[k].texts
\* Character data adds a piece to one element and leaves the others.
LEMMA CharactersIs ==
  ASSUME NEW list, IsDocument(list), NEW n \in 1 .. Len(list), NEW piece
  PROVE  TextAt([list EXCEPT ![n].texts = Append(@, piece)], list, n, piece)
  <1> DEFINE t == Append(list[n].texts, piece)
             r == [list[n] EXCEPT !.texts = Append(@, piece)]
             more == [list EXCEPT ![n].texts = Append(@, piece)]
  <1>1. IsElement(list[n]) /\ IsList(list)
    BY DEF IsDocument
  <1>2. /\ r.tag = list[n].tag /\ r.attributes = list[n].attributes /\ r.parent = list[n].parent
        /\ r.texts = t /\ r.closed = list[n].closed
    BY <1>1 DEF IsElement
  <1>3. more = Put(list, n, r)
    BY DEF Put
  <1> HIDE DEF r, more, t
  <1>4. /\ IsList(more) /\ Len(more) = Len(list)
        /\ \A k \in 1 .. Len(list) : more[k] = IF k = n THEN r ELSE list[k]
    BY <1>1, <1>3, ListPut
  <1>5. TextAt(more, list, n, piece)
    BY <1>2, <1>4 DEF TextAt, t
  <1> QED BY <1>5 DEF more

\* The same parents, the same children.
LEMMA SameChildless ==
  ASSUME NEW list, NEW more, Len(more) = Len(list),
         \A k \in 1 .. Len(list) : more[k].parent = list[k].parent, NEW n
  PROVE  Childless(more, n) <=> Childless(list, n)
  BY DEF Childless

\* The reader leaves an element.
LEMMA LeaveTypes ==
  ASSUME ContentInv, inside # <<>>, NEW more, more = Closed(document, Last(inside)),
         NEW rest, rest = Front(inside), NEW skip
  PROVE  /\ Listing(more) /\ Nested(rest, more)
         /\ Pending(<<>>, rest, skip, more)
  <1> DEFINE M == Len(inside)
             n == inside[M]
  <1>1. Last(inside) = n
    BY DEF Last
  <1>2. M \in 1 .. M /\ n \in 1 .. Len(document)
    <2>1. M \in 1 .. M
      BY ContentFacts DEF IsList
    <2> QED BY <2>1, ContentFacts
  <1>3. /\ Len(more) = Len(document) /\ IsList(more)
        /\ \A k \in 1 .. Len(document) :
              /\ more[k].tag = document[k].tag /\ more[k].attributes = document[k].attributes
              /\ more[k].parent = document[k].parent /\ more[k].texts = document[k].texts
              /\ more[k].closed = IF k = n THEN TRUE ELSE document[k].closed
    <2>1. more = Closed(document, n) /\ IsDocument(document)
      BY <1>1, ContentFacts
    <2>2. ClosedAt(more, document, n)
      BY <1>2, <2>1, ClosedIs
    <2> HIDE DEF n, M
    <2> QED BY <2>2 DEF ClosedAt
  <1>4. Listing(more)
    BY <1>3, ContentFacts DEF Listing
  <1>5. Nested(rest, more)
    <2>1. \A k \in 1 .. Len(document) : more[k].parent = document[k].parent
      BY <1>3
    <2>2. \A k \in 1 .. Len(document) :
            k # inside[Len(inside)] => more[k].closed = document[k].closed
      BY <1>3
    <2>3. /\ IsList(inside) /\ Nested(inside, document) /\ IsDocument(document)
          /\ \A j \in 1 .. Len(inside) : inside[j] \in 1 .. Len(document)
      BY ContentFacts
    <2> QED BY <1>3, <2>1, <2>2, <2>3, NestedLeaves, ZenonT(40)
  <1>6. Pending(<<>>, rest, skip, more)
    <2>1. ASSUME rest # <<>> PROVE /\ IsList(more[rest[Len(rest)]].texts)
                                   /\ ~ Childless(more, rest[Len(rest)])
      <3>1. /\ IsList(rest) /\ M \in Nat \ {0} /\ Len(rest) = M - 1
            /\ \A i \in 1 .. Len(rest) : rest[i] = inside[i]
        <4>1. rest = SubSeq(inside, 1, Len(inside) - 1)
          BY DEF Front
        <4> QED BY <4>1, ListFront, ContentFacts
      <3>2. Len(rest) # 0
        BY <2>1, <3>1 DEF IsList
      <3>3. M - 1 \in 1 .. M /\ M # 1 /\ M - 1 \in 1 .. Len(rest)
        BY <3>1, <3>2
      <3>4. rest[Len(rest)] = inside[M - 1] /\ inside[M - 1] \in 1 .. Len(document)
        BY <3>1, <3>3, ContentFacts
      <3>5. document[n].parent = inside[M - 1]
        BY <1>2, <3>3, ContentFacts DEF Nested
      <3>6. ~ Childless(more, inside[M - 1])
        BY <1>2, <1>3, <3>5 DEF Childless
      <3>7. IsList(more[inside[M - 1]].texts)
        BY <1>3, <1>4, <3>4 DEF Listing
      <3> QED BY <3>4, <3>6, <3>7
    <2> QED BY <2>1, NothingPending
  <1> QED BY <1>4, <1>5, <1>6

\* The nodes of the other elements hold what they did.
LEMMA LeaveOthers ==
  ASSUME ContentInv, inside # <<>>, NEW more, more = Closed(document, Last(inside)),
         NEW d, IsList(d.arena), IsList(d.attrs), Extends(d.arena, dom.arena),
         Extends(d.attrs, dom.attrs),
         NEW i \in 1 .. Len(dom.nodes), SameHeld(dom.nodes[i], d.nodes[i]),
         KeptOf(document)[i] # Last(inside)
  PROVE  Holds(d, i, more, KeptOf(more)[i])
  <1> DEFINE n == KeptOf(document)[i]
             m == Last(inside)
  <1>1. m \in 1 .. Len(document)
    <2>1. Len(inside) \in 1 .. Len(inside) /\ m = inside[Len(inside)]
      BY ContentFacts DEF IsList, Last
    <2> QED BY <2>1, ContentFacts
  <1>2. /\ Len(more) = Len(document)
        /\ \A k \in 1 .. Len(document) :
              /\ more[k].tag = document[k].tag /\ more[k].attributes = document[k].attributes
              /\ more[k].parent = document[k].parent /\ more[k].texts = document[k].texts
              /\ more[k].closed = IF k = m THEN TRUE ELSE document[k].closed
    <2>1. more = Closed(document, m) /\ IsDocument(document)
      BY ContentFacts
    <2>2. ClosedAt(more, document, m)
      BY <1>1, <2>1, ClosedIs
    <2> HIDE DEF m
    <2> QED BY <2>2 DEF ClosedAt
  <1>3. n \in 1 .. Len(document)
    BY ContentFacts, KeptIs
  <1>4. KeptOf(more) = KeptOf(document)
    <2>1. SameDocument(document, more)
      BY <1>1, ContentFacts, ClosedSame
    <2> QED BY <2>1, ContentFacts, DocumentSame
  <1>5. Holds(dom, i, document, n)
    BY DEF ContentInv, Contents
  <1>6. IsList(document[n].attributes)
    <2>1. document[n].attributes \in Seq(STRING)
      BY <1>3, ContentFacts DEF Listing
    <2> QED BY <2>1, SeqIsList
  <1>7. Childless(more, n) => Childless(document, n)
    BY <1>2, SameChildless
  <1>8. n # m
    OBVIOUS
  <1> HIDE DEF n, m
  <1>9. Holds(d, i, more, n)
    BY <1>2, <1>3, <1>5, <1>6, <1>7, <1>8, ContentFacts, HoldsStays
  <1> QED BY <1>4, <1>9 DEF n

\* The attributes of a node read the same in an arena that has grown.
LEMMA HeldAttributes ==
  ASSUME NEW d, NEW b, IsList(d.arena), IsList(b.arena), IsList(d.attrs), IsList(b.attrs),
         Extends(b.arena, d.arena), Extends(b.attrs, d.attrs), NEW r, NEW keys, IsList(keys),
         NEW n, AttributesRead(d.arena, d.attrs, r, keys, n)
  PROVE  AttributesRead(b.arena, b.attrs, r, keys, n)
  BY SameHeldSelf, AttributesStay

\* The element that ends takes the text at hand, unless that is blank.
LEMMA EndHolds ==
  ASSUME ContentInv, inside # <<>>, skipping = 0,
         NEW more, more = Closed(document, Last(inside)),
         NEW k, k = Last(open), NEW d,
         d = IF Blank(scratch) THEN dom
             ELSE Texted(dom, k, Span(dom, scratch), TRUE, dom.arena \o scratch)
  PROVE  /\ IsList(d.arena) /\ IsList(d.attrs) /\ Len(d.nodes) = Len(dom.nodes)
         /\ \A i \in 1 .. Len(d.nodes) : Holds(d, i, more, KeptOf(more)[i])
  <1> DEFINE n == Last(inside)
             K == KeptOf(document)
             t == document[n].texts
             span == Span(dom, scratch)
             yes == TRUE
             node == PutText(dom.nodes[k], span, yes)
             nodes == Put(dom.nodes, k, node)
             arena == dom.arena \o scratch
  <1>1. /\ Len(open) = Len(inside) /\ Len(inside) \in 1 .. Len(inside) /\ Len(open) \in 1 .. Len(open)
        /\ open # <<>> /\ n = inside[Len(inside)] /\ k = open[Len(open)]
    <2>1. Len(open) = Len(inside) /\ Len(inside) \in 1 .. Len(inside)
      BY ContentFacts DEF IsList
    <2>2. open # <<>>
      BY <2>1
    <2> QED BY <2>1, <2>2 DEF Last
  <1>2. n \in 1 .. Len(document) /\ k \in 1 .. Len(K) /\ K[k] = n
    BY <1>1, ContentFacts
  <1>3. Len(dom.nodes) = Len(K) /\ \A i \in 1 .. Len(K) : i # k => K[i] # n
    BY <1>2, ContentFacts, KeptIs
  <1>4. ClosedAt(more, document, n)
    BY <1>2, ContentFacts, ClosedIs
  <1>5. more[n].closed = TRUE /\ more[n].tag = document[n].tag /\ more[n].texts = t
        /\ more[n].attributes = document[n].attributes
    BY <1>2, <1>4 DEF ClosedAt
  <1>6. Childless(more, n) => Childless(document, n)
    BY <1>4, SameChildless DEF ClosedAt
  <1>7. KeptOf(more) = K
    <2>1. SameDocument(document, more)
      BY <1>2, ContentFacts, ClosedSame
    <2> QED BY <2>1, ContentFacts, DocumentSame
  <1>8. Holds(dom, k, document, n) /\ IsList(document[n].attributes) /\ IsList(t)
    <2>1. document[n].attributes \in Seq(STRING) /\ IsList(t)
      BY <1>2, ContentFacts DEF Listing
    <2>2. k \in 1 .. Len(dom.nodes)
      BY <1>2, <1>3
    <2>3. Holds(dom, k, document, n)
      BY <1>2, <2>2 DEF ContentInv, Contents
    <2> QED BY <2>1, <2>3, SeqIsList
  <1>9. dom.nodes[k].hasText => FALSE
    <2>1. ~ document[n].closed
      BY <1>1, ContentFacts DEF Nested
    <2> QED BY <1>8, <2>1 DEF Holds, TextRead
  <1>10. /\ scratch \in Runs(t) /\ (Childless(document, n) => scratch = t) /\ IsList(scratch)
    <2> HIDE DEF t, n
    <2>1. /\ IsTail(scratch, t)
          /\ Childless(document, n) => scratch = t
      <3>1. Pending(scratch, inside, skipping, document)
        BY ContentFacts
      <3> QED BY <1>1, <3>1 DEF Pending, t
    <2>2. Len(t) \in 0 .. Len(t)
      BY <1>8 DEF IsList
    <2> QED BY <2>1, <2>2, RunIn, ContentFacts DEF IsTail
  <1>11. CASE Blank(scratch)
    <2>1. d = dom
      BY <1>11
    <2>2. Extends(dom.arena, dom.arena) /\ Extends(dom.attrs, dom.attrs)
      BY ContentFacts, ExtendsSelf
    <2>3. ASSUME NEW i \in 1 .. Len(dom.nodes) PROVE Holds(dom, i, more, K[i])
      <3>1. CASE i = k
        <4>1. TextRead(dom.arena, dom.nodes[k], more, n)
          BY <1>5, <1>6, <1>9, <1>10, <1>11 DEF TextRead
        <4> HIDE DEF n, K, t
        <4>2. Holds(dom, k, more, n)
          BY <1>5, <1>8, <4>1 DEF Holds
        <4> QED BY <1>2, <3>1, <4>2
      <3>2. CASE i # k
        <4>1. K[i] # Last(inside)
          BY <1>3, <3>2
        <4>2. SameHeld(dom.nodes[i], dom.nodes[i])
          BY SameHeldSelf
        <4>3. IsList(dom.arena) /\ IsList(dom.attrs)
          BY ContentFacts
        <4>4. Holds(dom, i, more, KeptOf(more)[i])
          BY <2>2, <4>1, <4>2, <4>3, LeaveOthers
        <4> QED BY <1>7, <4>4
      <3> QED BY <3>1, <3>2
    <2> QED BY <1>7, <2>1, <2>3, ContentFacts
  <1>12. CASE ~ Blank(scratch)
    <2>1. d = [dom EXCEPT !.arena = arena, !.nodes = nodes]
      BY <1>12 DEF Texted
    <2>2. IsList(arena) /\ Extends(arena, dom.arena) /\ Reads(arena, span, scratch)
      <3>1. span = [start |-> Len(dom.arena), len |-> Len(scratch)]
        BY DEF Span
      <3> HIDE DEF span
      <3> QED BY <3>1, ContentFacts, PushReads
    <2> HIDE DEF arena
    <2>3. /\ node.tag = dom.nodes[k].tag /\ node.name = dom.nodes[k].name
          /\ node.attrStart = dom.nodes[k].attrStart /\ node.attrLen = dom.nodes[k].attrLen
          /\ node.text = span /\ node.hasText = yes
      <3>1. IsNode(dom.nodes[k])
        BY <1>2, <1>3, ContentFacts DEF Sound, Linkage
      <3> HIDE DEF span, yes
      <3> QED BY <3>1, TextHeld
    <2> HIDE DEF node, span
    <2>4. /\ Len(nodes) = Len(dom.nodes)
          /\ \A i \in 1 .. Len(dom.nodes) : nodes[i] = IF i = k THEN node ELSE dom.nodes[i]
      <3>1. IsList(dom.nodes) /\ k \in 1 .. Len(dom.nodes)
        BY <1>2, <1>3, ContentFacts DEF Sound, Linkage
      <3> QED BY <3>1, ListPut
    <2> HIDE DEF nodes
    <2>5. d.nodes = nodes /\ d.arena = arena /\ d.attrs = dom.attrs
      <3>1. IsDom(dom)
        BY ContentFacts DEF Sound
      <3> QED BY <2>1, <3>1 DEF IsDom
    <2>6. Extends(d.arena, dom.arena) /\ Extends(d.attrs, dom.attrs) /\ IsList(d.arena) /\ IsList(d.attrs)
      BY <2>2, <2>5, ContentFacts, ExtendsSelf
    <2>7. ASSUME NEW i \in 1 .. Len(dom.nodes) PROVE Holds(d, i, more, K[i])
      <3>1. CASE i = k
        <4>1. d.nodes[k] = node /\ d.arena = arena
          BY <2>4, <2>5, <2>7, <3>1
        <4>2. TextRead(d.arena, node, more, n)
          <5>1. Reads(d.arena, node.text, scratch)
            BY <2>2, <2>3, <4>1
          <5> HIDE DEF n, t
          <5> QED BY <1>5, <1>6, <1>10, <1>12, <2>3, <5>1 DEF TextRead
        <4>3. /\ dom.nodes[k].tag = document[n].tag
              /\ NameRead(dom.arena, document[n].tag, dom.nodes[k].name)
              /\ AttributesRead(dom.arena, dom.attrs, dom.nodes[k], document[n].attributes, n)
          BY <1>8 DEF Holds
        <4> HIDE DEF n
        <4>4. NameRead(d.arena, document[n].tag, node.name)
          BY <2>3, <2>6, <4>3, ContentFacts, NameStays
        <4>5. AttributesRead(d.arena, d.attrs, node, document[n].attributes, n)
          <5>1. AttributesRead(d.arena, d.attrs, dom.nodes[k], document[n].attributes, n)
            <6>1. /\ IsList(dom.arena) /\ IsList(dom.attrs) /\ IsList(document[n].attributes)
                  /\ AttributesRead(dom.arena, dom.attrs, dom.nodes[k], document[n].attributes, n)
              BY <1>8, <4>3, ContentFacts
            <6> QED BY <2>6, <6>1, HeldAttributes
          <5> QED BY <2>3, <5>1 DEF AttributesRead
        <4>6. Holds(d, k, more, n)
          BY <1>5, <2>3, <4>1, <4>2, <4>3, <4>4, <4>5 DEF Holds
        <4> QED BY <1>2, <3>1, <4>6
      <3>2. CASE i # k
        <4>1. K[i] # Last(inside)
          BY <1>3, <3>2
        <4>2. d.nodes[i] = dom.nodes[i]
          BY <2>4, <2>5, <2>7, <3>2
        <4>3. SameHeld(dom.nodes[i], d.nodes[i])
          BY <4>2, SameHeldSelf
        <4>4. Holds(d, i, more, KeptOf(more)[i])
          BY <2>6, <4>1, <4>3, LeaveOthers
        <4> QED BY <1>7, <4>4
      <3> QED BY <3>1, <3>2
    <2> QED BY <1>7, <2>4, <2>5, <2>6, <2>7
  <1> QED BY <1>11, <1>12

\* The end of a text grows with it.
LEMMA TailGrows ==
  ASSUME NEW t, IsList(t), NEW s, IsTail(s, t), NEW x
  PROVE  IsTail(Append(s, x), Append(t, x))
  <1> DEFINE u == Append(t, x)
             N == Len(t)
             r == Append(s, x)
  <1>1. PICK a \in 1 .. N + 1 : s = SubSeq(t, a, N)
    BY DEF IsTail
  <1>2. IsList(u) /\ Len(u) = N + 1 /\ (\A i \in 1 .. N : u[i] = t[i]) /\ u[N + 1] = x
    BY ListAppend
  <1>3. N \in Nat /\ N \in 0 .. N
    BY DEF IsList
  <1> HIDE DEF u, N
  <1>4. /\ IsList(s) /\ Len(s) = IF a <= N THEN N - a + 1 ELSE 0
        /\ \A i \in 1 .. Len(s) : s[i] = t[a + i - 1]
    BY <1>1, <1>3, ListRun DEF N
  <1>5. Len(s) = N + 1 - a /\ Len(s) \in Nat
    BY <1>3, <1>4
  <1>6. /\ IsList(r) /\ Len(r) = Len(s) + 1
        /\ (\A i \in 1 .. Len(s) : r[i] = s[i]) /\ r[Len(s) + 1] = x
    BY <1>4, ListAppend
  <1> HIDE DEF r
  <1> DEFINE m == N + 1
             v == SubSeq(u, a, m)
  <1>7. a \in 1 .. Len(u) + 1 /\ m \in 0 .. Len(u) /\ Len(u) = m
    BY <1>2, <1>3
  <1> HIDE DEF m
  <1>8. /\ IsList(v) /\ Len(v) = IF a <= m THEN m - a + 1 ELSE 0
        /\ \A i \in 1 .. Len(v) : v[i] = u[a + i - 1]
    BY <1>2, <1>7, ListRun
  <1>13. v = SubSeq(u, a, Len(u))
    BY <1>7
  <1> USE DEF m
  <1> HIDE DEF v
  <1>9. Len(v) = Len(r)
    BY <1>3, <1>5, <1>6, <1>8
  <1>10. ASSUME NEW i \in 1 .. Len(r) PROVE r[i] = v[i]
    <2>1. CASE i \in 1 .. Len(s)
      <3>1. a + i - 1 \in 1 .. N
        BY <1>3, <1>5, <2>1
      <3> QED BY <1>2, <1>4, <1>6, <1>8, <1>9, <2>1, <3>1
    <2>2. CASE i = Len(s) + 1
      <3>1. a + i - 1 = N + 1
        BY <1>3, <1>5, <2>2
      <3> QED BY <1>2, <1>6, <1>8, <1>9, <2>2, <3>1
    <2> QED BY <1>5, <1>6, <2>1, <2>2
  <1>11. r = v
    BY <1>6, <1>8, <1>9, <1>10, ListsEqual
  <1>12. IsTail(r, u)
    BY <1>7, <1>11, <1>13 DEF IsTail
  <1> QED BY <1>12 DEF u, r

\* Character data is put to the innermost element.
LEMMA CharactersContents ==
  ASSUME ContentInv, inside # <<>>, NEW piece, NEW more,
         more = [document EXCEPT ![Last(inside)].texts = Append(@, piece)],
         NEW text, text = IF skipping > 0 \/ open = <<>> THEN scratch ELSE Append(scratch, piece)
  PROVE  Contents(dom, more, inside, skipping, text)
  <1> DEFINE n == Last(inside)
             K == KeptOf(document)
             t == document[n].texts
  <1>1. n = inside[Len(inside)] /\ Len(inside) \in 1 .. Len(inside) /\ n \in 1 .. Len(document)
    <2>1. Len(inside) \in 1 .. Len(inside)
      BY ContentFacts DEF IsList
    <2> QED BY <2>1, ContentFacts DEF Last
  <1>2. TextAt(more, document, n, piece)
    BY <1>1, ContentFacts, CharactersIs
  <1>3. KeptOf(more) = K
    <2>1. SameDocument(document, more)
      BY <1>1, ContentFacts, CharactersSame
    <2> QED BY <2>1, ContentFacts, DocumentSame
  <1>4. ~ document[n].closed
    BY <1>1, ContentFacts DEF Nested
  <1>5. IsList(t)
    BY <1>1, ContentFacts DEF Listing
  <1>6. \A m : Childless(more, m) <=> Childless(document, m)
    BY <1>2, SameChildless DEF TextAt
  <1> HIDE DEF n, t
  <1>7. Listing(more)
    <2>1. IsList(Append(t, piece))
      BY <1>5, ListAppend
    <2> QED BY <1>2, <2>1, ContentFacts DEF Listing, TextAt, t
  <1>8. Nested(inside, more)
    <2>1. Len(more) = Len(document)
          /\ \A k \in 1 .. Len(document) :
                more[k].parent = document[k].parent /\ more[k].closed = document[k].closed
      BY <1>2 DEF TextAt
    <2> QED BY <2>1, ContentFacts, NestedSame
  <1>9. ASSUME NEW i \in 1 .. Len(dom.nodes) PROVE Holds(dom, i, more, K[i])
    <2> DEFINE m == K[i]
    <2>1. m \in 1 .. Len(document) /\ Holds(dom, i, document, m)
      <3>1. i \in 1 .. Len(K)
        BY ContentFacts
      <3>2. m \in 1 .. Len(document)
        BY <3>1, ContentFacts, KeptIs
      <3> QED BY <3>2 DEF ContentInv, Contents
    <2> HIDE DEF m
    <2>2. /\ more[m].tag = document[m].tag /\ more[m].attributes = document[m].attributes
          /\ more[m].closed = document[m].closed
          /\ m # n => more[m].texts = document[m].texts
      BY <1>2, <2>1 DEF TextAt
    <2>3. TextRead(dom.arena, dom.nodes[i], more, m)
      <3>1. TextRead(dom.arena, dom.nodes[i], document, m)
        BY <2>1 DEF Holds
      <3>2. CASE m = n
        BY <1>4, <2>2, <3>1, <3>2 DEF TextRead
      <3>3. CASE m # n
        BY <1>6, <2>2, <3>1, <3>3 DEF TextRead
      <3> QED BY <3>2, <3>3
    <2>4. Holds(dom, i, more, m)
      BY <2>1, <2>2, <2>3 DEF Holds
    <2> QED BY <2>4 DEF m
  <1>10. IsList(text) /\ Pending(text, inside, skipping, more)
    <2>1. CASE skipping > 0
      <3>1. text = scratch /\ skipping # 0
        BY <2>1, ContentFacts
      <3> QED BY <3>1, ContentFacts DEF Pending
    <2>2. CASE ~ skipping > 0
      <3>1. skipping = 0 /\ Len(open) = Len(inside)
        BY <2>2, ContentFacts
      <3>2. open # <<>>
        BY <1>1, <3>1
      <3>3. text = Append(scratch, piece)
        BY <2>2, <3>2
      <3>4. IsList(scratch)
        BY ContentFacts
      <3>5. /\ IsTail(scratch, t)
            /\ Childless(document, n) => scratch = t
        <4>1. Pending(scratch, inside, skipping, document)
          BY ContentFacts
        <4> QED BY <1>1, <3>1, <4>1 DEF Pending, t
      <3>6. more[n].texts = Append(t, piece)
        BY <1>1, <1>2 DEF TextAt, t
      <3>7. IsTail(text, Append(t, piece))
        BY <1>5, <3>3, <3>5, TailGrows
      <3>8. Childless(more, n) => text = Append(t, piece)
        BY <1>6, <3>3, <3>5
      <3>9. IsList(text)
        BY <3>3, <3>4, ListAppend
      <3> QED BY <1>1, <3>1, <3>6, <3>7, <3>8, <3>9 DEF Pending
    <2> QED BY <2>1, <2>2
  <1> QED BY <1>3, <1>7, <1>8, <1>9, <1>10, ContentFacts DEF Contents

\* A text without the blank pieces at its ends is a run of it.
LEMMA TrimmedIs ==
  ASSUME NEW text, IsList(text)
  PROVE  /\ Trimmed(text) \in Runs(text)
         /\ Blank(text) <=> Trimmed(text) = <<>>
  <1> DEFINE I == {i \in 1 .. Len(text) : text[i][4] # "blank"}
             first == IF I # {} THEN Min(I) ELSE 0
             last  == IF I # {} THEN Max(I) ELSE 0
  <1>1. Trimmed(text) = IF first = 0 THEN <<>> ELSE SubSeq(text, first, last)
    BY DEF Trimmed, SelectInSeq, SelectLastInSeq
  <1>2. Len(text) \in Nat /\ DOMAIN text = 1 .. Len(text)
    BY ListDomain DEF IsList
  <1>3. Blank(text) <=> I = {}
    BY <1>2 DEF Blank
  <1>4. CASE I = {}
    <2>1. Trimmed(text) = <<>>
      BY <1>1, <1>4
    <2> QED BY <1>3, <1>4, <2>1, WholeRun
  <1>5. CASE I # {}
    <2>1. I \subseteq 1 .. Len(text)
      OBVIOUS
    <2> HIDE DEF I
    <2>2. PICK m \in I : \A i \in I : m <= i
      <3>1. I \subseteq Nat
        BY <1>2, <2>1
      <3> QED BY <1>5, <3>1, Least
    <2>3. Min(I) \in I
      BY <2>2 DEF Min
    <2>4. Max(I) \in I /\ \A i \in I : i <= Max(I)
      <3> DEFINE T == {Len(text) - i : i \in I}
      <3>1. T \subseteq Nat /\ T # {}
        BY <1>2, <1>5, <2>1
      <3> HIDE DEF T
      <3>2. PICK t \in T : \A u \in T : t <= u
        BY <3>1, Least
      <3>3. PICK x \in I : t = Len(text) - x
        BY DEF T
      <3>4. \A i \in I : i <= x
        <4>1. ASSUME NEW i \in I PROVE i <= x
          <5>1. Len(text) - i \in T
            BY DEF T
          <5>2. i \in 1 .. Len(text) /\ x \in 1 .. Len(text)
            BY <2>1
          <5> QED BY <1>2, <3>2, <3>3, <5>1, <5>2
        <4> QED BY <4>1
      <3> QED BY <3>4 DEF Max
    <2>5. first = Min(I) /\ last = Max(I) /\ Min(I) <= Max(I)
      BY <1>5, <2>3, <2>4
    <2>6. first \in 1 .. Len(text) /\ last \in 1 .. Len(text) /\ first <= last
      BY <2>1, <2>3, <2>4, <2>5
    <2> HIDE DEF first, last
    <2>7. first # 0 /\ first \in 1 .. Len(text) + 1 /\ last \in 0 .. Len(text)
      BY <1>2, <2>6
    <2>8. Trimmed(text) = SubSeq(text, first, last)
      BY <1>1, <2>7
    <2>9. Trimmed(text) \in Runs(text)
      BY <2>7, <2>8, RunIn
    <2>10. Len(Trimmed(text)) = last - first + 1
      BY <2>6, <2>7, <2>8, ListRun
    <2>11. Trimmed(text) # <<>>
      <3>1. last - first + 1 # 0
        BY <1>2, <2>6
      <3> QED BY <2>10, <3>1
    <2> QED BY <1>3, <1>5, <2>9, <2>11
  <1> QED BY <1>4, <1>5

\* ContentInv is inductive.
LEMMA ContentInit == Init => ContentInv
  <1> SUFFICES ASSUME Init PROVE ContentInv
    OBVIOUS
  <1>1. /\ dom.nodes = <<>> /\ dom.arena = <<>> /\ dom.attrs = <<>> /\ scratch = <<>>
        /\ inside = <<>> /\ document = <<>>
    BY DEF Init
  <1>2. IsList(<<>>) /\ Len(<<>>) = 0
    BY DEF IsList
  <1>3. Listing(document) /\ Nested(inside, document)
    BY <1>1, <1>2 DEF Listing, Nested, Ascends
  <1>4. Pending(scratch, inside, skipping, document)
    BY <1>1 DEF Pending
  <1> QED BY <1>1, <1>2, <1>3, <1>4, DocumentInit DEF ContentInv, Contents

\* Every step keeps the contents, and this is what each handler has to show:
\* what it pushes reads back, and what was pushed before still does.
LEMMA ContentStep == ContentInv /\ [Next]_vars => ContentInv'
  <1> SUFFICES ASSUME ContentInv, [Next]_vars PROVE ContentInv'
    OBVIOUS
  <1>a. DocumentInv'
    BY DocumentStep, ContentFacts
  <1> DEFINE Good == Contents(dom', document', inside', skipping', scratch')
  <1>b. SUFFICES Good
    <2>1. Good => Contents(dom, document, inside, skipping, scratch)'
      BY DEF Contents, Listing, Nested, Pending, Holds, KeptOf, Childless, TextRead, IsTail
    <2> QED BY <1>a, <2>1 DEF ContentInv
  <1>c. Contents(dom, document, inside, skipping, scratch)
    BY DEF ContentInv
  <1>e. IsList(<<>>)
    BY DEF IsList
  <1>1. ASSUME NEW e \in Elements, StartSkipped(e)
        PROVE  Good
    <2>1. /\ skipping > 0 /\ dom' = dom /\ scratch' = scratch /\ skipping' = skipping + 1
          /\ document' = Met(e) /\ inside' = Append(inside, Len(document) + 1)
      BY <1>1 DEF StartSkipped
    <2>2. skipping # 0 /\ skipping' # 0
      BY <2>1, ContentFacts
    <2>3. scratch = <<>>
      BY <2>2, ContentFacts DEF Pending
    <2>4. MetAs(Met(e), e, FALSE)
      BY MetIs, ContentFacts
    <2>5. MeetsWell(dom, Met(e), FALSE)
      BY <2>2, <2>4, MeetUnkept
    <2> QED BY <1>e, <2>1, <2>3, <2>5, EntersContents
  <1>2. ASSUME NEW e \in Elements, StartSection(e)
        PROVE  Good
    <2>1. /\ skipping = 0 /\ e.tag \in Sections /\ scratch' = <<>>
          /\ dom' = [dom EXCEPT !.skipped = Append(dom.skipped, e.tag)]
          /\ document' = Met(e) /\ inside' = Append(inside, Len(document) + 1)
      BY <1>2 DEF StartSection
    <2>2. dom'.nodes = dom.nodes /\ dom'.arena = dom.arena /\ dom'.attrs = dom.attrs
      <3>1. IsDom(dom)
        BY ContentFacts DEF Sound
      <3> QED BY <2>1, <3>1 DEF IsDom
    <2>3. MetAs(Met(e), e, FALSE)
      BY MetIs, ContentFacts
    <2>4. MeetsWell(dom', Met(e), FALSE)
      BY <2>1, <2>2, <2>3, MeetUnkept
    <2> QED BY <1>e, <2>1, <2>4, EntersContents
  <1>3. ASSUME NEW e \in Elements, StartElement(e)
        PROVE  Good
    <2>1. /\ skipping = 0 /\ e.tag \notin Sections /\ dom' = OpenElement(dom, e, Parent)
          /\ scratch' = <<>>
          /\ document' = Met(e) /\ inside' = Append(inside, Len(document) + 1)
      BY <1>3 DEF StartElement
    <2>2. MetAs(Met(e), e, FALSE)
      BY MetIs, ContentFacts
    <2>3. MeetsWell(dom', Met(e), FALSE)
      BY <2>1, <2>2, MeetKept
    <2> QED BY <1>e, <2>1, <2>3, EntersContents
  <1>4. ASSUME NEW e \in Elements, EmptyElement(e)
        PROVE  Good
    <2> DEFINE more == Closed(Met(e), Len(document) + 1)
    <2>1. /\ document' = more /\ inside' = inside /\ skipping' = skipping /\ scratch' = scratch
          /\ \/ skipping > 0 /\ dom' = dom
             \/ /\ skipping = 0 /\ e.tag \in Sections
                /\ dom' = [dom EXCEPT !.skipped = Append(dom.skipped, e.tag)]
             \/ /\ skipping = 0 /\ e.tag \notin Sections
                /\ dom' = OpenElement(dom, e, Parent)
      BY <1>4 DEF EmptyElement
    <2>2. MetAs(more, e, TRUE)
      BY MetIs, ContentFacts
    <2>3. MeetsWell(dom', more, TRUE)
      <3> HIDE DEF more
      <3>1. CASE skipping > 0 /\ dom' = dom
        <4>1. skipping # 0
          BY <3>1, ContentFacts
        <4> QED BY <2>2, <3>1, <4>1, MeetUnkept
      <3>2. CASE /\ skipping = 0 /\ e.tag \in Sections
                 /\ dom' = [dom EXCEPT !.skipped = Append(dom.skipped, e.tag)]
        <4>1. dom'.nodes = dom.nodes /\ dom'.arena = dom.arena /\ dom'.attrs = dom.attrs
          <5>1. IsDom(dom)
            BY ContentFacts DEF Sound
          <5> QED BY <3>2, <5>1 DEF IsDom
        <4> QED BY <2>2, <3>2, <4>1, MeetUnkept
      <3>3. CASE /\ skipping = 0 /\ e.tag \notin Sections
                 /\ dom' = OpenElement(dom, e, Parent)
        BY <2>2, <3>3, MeetKept
      <3> QED BY <2>1, <3>1, <3>2, <3>3
    <2> QED BY <2>1, <2>3, EmptyContents
  <1>5. CASE End
    <2>1. /\ inside # <<>> /\ inside' = Front(inside)
          /\ document' = Closed(document, Last(inside))
          /\ EndSkipped \/ EndElement
      BY <1>5 DEF End, EndSkipped, EndElement
    <2> DEFINE more == Closed(document, Last(inside))
               rest == Front(inside)
    <2>2. Listing(more) /\ Nested(rest, more) /\ Pending(<<>>, rest, skipping', more)
      BY <2>1, LeaveTypes
    <2>3. CASE EndSkipped
      <3>1. skipping > 0 /\ dom' = dom /\ scratch' = scratch
        BY <2>3 DEF EndSkipped
      <3>2. skipping # 0
        BY <3>1, ContentFacts
      <3>3. scratch = <<>>
        BY <3>2, ContentFacts DEF Pending
      <3>4. Last(inside) \in 1 .. Len(document) /\ ~ document[Last(inside)].kept
        <4>1. Len(inside) \in 1 .. Len(inside) /\ Last(inside) = inside[Len(inside)]
              /\ ~ (Len(inside) <= Len(open))
          BY <2>1, <3>1, ContentFacts DEF IsList, Last
        <4> QED BY <4>1, ContentFacts
      <3>5. ASSUME NEW i \in 1 .. Len(dom.nodes) PROVE Holds(dom, i, more, KeptOf(more)[i])
        <4>1. i \in 1 .. Len(KeptOf(document))
          BY ContentFacts
        <4>2. document[KeptOf(document)[i]].kept
          <5>1. Members(KeptOf(document)) = {n \in 1 .. Len(document) : document[n].kept}
            BY ContentFacts, KeptIs
          <5> QED BY <4>1, <5>1 DEF Members
        <4>3. KeptOf(document)[i] # Last(inside)
          BY <3>4, <4>2
        <4>4. SameHeld(dom.nodes[i], dom.nodes[i])
          BY SameHeldSelf
        <4>5. Extends(dom.arena, dom.arena) /\ Extends(dom.attrs, dom.attrs)
          BY ContentFacts, ExtendsSelf
        <4> QED BY <2>1, <4>3, <4>4, <4>5, ContentFacts, LeaveOthers
      <3> HIDE DEF more, rest
      <3> QED BY <1>e, <2>1, <2>2, <3>1, <3>3, <3>5, ContentFacts DEF Contents, more, rest
    <2>4. CASE EndElement
      <3>1. skipping = 0 /\ scratch' = <<>>
        BY <2>4 DEF EndElement
      <3>2. dom' = IF Blank(scratch) THEN dom
                   ELSE Texted(dom, Last(open), Span(dom, scratch), TRUE, dom.arena \o scratch)
        <4>1. open # <<>>
          <5>1. Len(open) = Len(inside) /\ Len(inside) # 0
            BY <2>1, <3>1, ContentFacts DEF IsList
          <5> QED BY <5>1
        <4>2. IsDom(dom)
          BY ContentFacts DEF Sound
        <4> QED BY <2>4, <4>1, <4>2 DEF EndElement, PushText, Texted, Put, PutText, IsDom
      <3>3. /\ IsList(dom'.arena) /\ IsList(dom'.attrs)
            /\ \A i \in 1 .. Len(dom'.nodes) : Holds(dom', i, more, KeptOf(more)[i])
        BY <2>1, <3>1, <3>2, EndHolds
      <3> HIDE DEF more, rest
      <3> QED BY <1>e, <2>1, <2>2, <3>1, <3>3 DEF Contents, more, rest
    <2> QED BY <2>1, <2>3, <2>4
  <1>6. ASSUME NEW kind \in {"word", "blank"}, Characters(kind)
        PROVE  Good
    <2>1. PICK piece :
            /\ inside # <<>> /\ dom' = dom /\ inside' = inside /\ skipping' = skipping
            /\ document' = [document EXCEPT ![Last(inside)].texts = Append(@, piece)]
            /\ scratch' = IF skipping > 0 \/ open = <<>> THEN scratch ELSE Append(scratch, piece)
      BY <1>6 DEF Characters
    <2> QED BY <2>1, CharactersContents
  <1>7. CASE UNCHANGED <<dom, document, inside, skipping, scratch>>
    BY <1>c, <1>7
  <1>8. ASSUME Eof \/ BadInput \/ \E e \in Elements : BadAttribute(e)
        PROVE  UNCHANGED <<dom, document, inside, skipping, scratch>>
    BY <1>8 DEF Eof, BadInput, BadAttribute, reader
  <1>9. ASSUME UNCHANGED vars
        PROVE  UNCHANGED <<dom, document, inside, skipping, scratch>>
    BY <1>9 DEF vars
  <1> HIDE DEF Good
  <1> QED BY <1>1, <1>2, <1>3, <1>4, <1>5, <1>6, <1>7, <1>8, <1>9 DEF Next

\* What is kept is KeptOf.
LEMMA KeptAgrees ==
  ASSUME ContentInv
  PROVE  /\ Kept = KeptOf(document) /\ IsList(Kept) /\ Len(Kept) = Len(dom.nodes)
         /\ \A i \in 1 .. Len(dom.nodes) : Kept[i] \in 1 .. Len(document)
  <1>1. IsList(document)
    BY ContentFacts
  <1>2. DOMAIN document = 1 .. Len(document)
    BY <1>1, ListDomain
  <1>3. Kept = KeptOf(document)
    BY <1>2 DEF Kept, KeptOf
  <1> QED BY <1>3, ContentFacts, KeptIs

\* Every element keeps its own text and no other, whatever is between its tags
\* and wherever what is skipped stands (the end of an element in run, and text).
THEOREM TextIsKept == Spec => []TextIsOwn
  <1>1. ASSUME ContentInv PROVE TextIsOwn
    <2> SUFFICES ASSUME NEW i \in DOMAIN dom.nodes
                 PROVE  LET element == document[Kept[i]] IN
                        /\ Text(dom, i) \subseteq Runs(element.texts)
                        /\ element.closed /\ (\A e \in ToSet(document) : e.parent # Kept[i]) =>
                             Text(dom, i) = {t \in {Trimmed(element.texts)} : t # <<>>}
      BY DEF TextIsOwn
    <2> DEFINE n == Kept[i]
               t == document[n].texts
               node == dom.nodes[i]
    <2>1. IsList(dom.nodes)
      BY <1>1, ContentFacts DEF Sound, Linkage
    <2>2. i \in 1 .. Len(dom.nodes)
      BY <2>1, ListDomain
    <2>3. n \in 1 .. Len(document) /\ n = KeptOf(document)[i]
      BY <1>1, <2>2, KeptAgrees
    <2>4. TextRead(dom.arena, node, document, n)
      BY <1>1, <2>2, <2>3 DEF ContentInv, Contents, Holds
    <2>5. IsList(t) /\ IsList(document)
      BY <1>1, <2>3, ContentFacts DEF Listing
    <2>6. (\A e \in ToSet(document) : e.parent # n) => Childless(document, n)
      <3>1. DOMAIN document = 1 .. Len(document)
        BY <2>5, ListDomain
      <3> QED BY <3>1 DEF ToSet, Childless
    <2> HIDE DEF n, t, node
    <2>7. CASE node.hasText
      <3>1. PICK text \in Runs(t) :
              /\ Reads(dom.arena, node.text, text) /\ ~ Blank(text)
              /\ Childless(document, n) => text = t
        BY <2>4, <2>7 DEF TextRead, t
      <3>2. StrAt(dom, node.text) = text
        BY <3>1 DEF StrAt, Slice, Reads
      <3>3. Text(dom, i) = {Trimmed(text)}
        BY <2>7, <3>2 DEF Text, node
      <3>4. IsList(text)
        <4>1. PICK a \in 1 .. Len(t) + 1, b \in 0 .. Len(t) : text = SubSeq(t, a, b)
          BY DEF Runs
        <4> QED BY <2>5, <4>1, ListRun
      <3>5. Trimmed(text) \in Runs(text) /\ Trimmed(text) # <<>>
        BY <3>1, <3>4, TrimmedIs
      <3>6. Trimmed(text) \in Runs(t)
        BY <2>5, <3>5, RunOfRun
      <3> QED BY <2>6, <3>1, <3>3, <3>5, <3>6 DEF t, n
    <2>8. CASE ~ node.hasText
      <3>1. Text(dom, i) = {}
        BY <2>8 DEF Text, node
      <3>2. document[n].closed /\ Childless(document, n) => Trimmed(t) = <<>>
        BY <2>4, <2>5, <2>8, TrimmedIs DEF TextRead, t
      <3> QED BY <2>6, <3>1, <3>2 DEF t, n
    <2> QED BY <2>7, <2>8
  <1> QED BY <1>1, ContentInit, ContentStep, PTL DEF Spec

-------------------------------------------------------------------------------
\* What is below each node, and the order in which a document lists it.
Preorder(up, N) ==
  \A k \in 1 .. N :
    /\ up[k] \in 0 .. k - 1
    /\ \A j \in up[k] + 1 .. k - 1 : up[j] >= up[k]
Subtrees(up, sub, N) ==
  \A i \in 1 .. N :
    /\ sub[i] \subseteq 1 .. N
    /\ \A k \in 1 .. N : k \in sub[i] <=> up[k] # NONE /\ (up[k] = i \/ up[k] \in sub[i])

\* What is below a node comes after it.
LEMMA BelowIsLater ==
  ASSUME NEW N \in Nat, NEW up, Preorder(up, N), NEW sub, Subtrees(up, sub, N),
         NEW i \in 1 .. N, NEW k \in sub[i]
  PROVE  i < k
  <1> DEFINE S == {m \in 0 .. N : m \in sub[i] => i < m}
  <1>1. ASSUME NEW m \in 0 .. N, 0 .. m - 1 \subseteq S PROVE m \in S
    <2>1. SUFFICES ASSUME m \in sub[i] PROVE i < m
      OBVIOUS
    <2>2. m \in 1 .. N
      BY <2>1 DEF Subtrees
    <2>3. up[m] \in 0 .. m - 1 /\ (up[m] = i \/ up[m] \in sub[i])
      BY <2>1, <2>2 DEF Subtrees, Preorder
    <2>4. up[m] \in S
      BY <1>1, <2>3
    <2> QED BY <2>2, <2>3, <2>4
  <1> HIDE DEF S
  <1>2. 0 .. N \subseteq S
    BY <1>1, CourseOfValues
  <1>3. k \in 0 .. N
    BY DEF Subtrees
  <1> QED BY <1>2, <1>3 DEF S

\* It is a child of the node or below one.
BelowAChild(up, sub, N, i, k) ==
  \E c \in 1 .. N : up[c] = i /\ (k = c \/ k \in sub[c])

\* What is below a node is a child of it or below one of its children.
LEMMA BelowIsBelowAChild ==
  ASSUME NEW N \in Nat, NEW up, Preorder(up, N), NEW sub, Subtrees(up, sub, N),
         NEW i \in 1 .. N, NEW k \in 1 .. N
  PROVE  k \in sub[i] <=> BelowAChild(up, sub, N, i, k)
  <1> DEFINE S == {m \in 0 .. N : m # 0 => (m \in sub[i] <=> BelowAChild(up, sub, N, i, m))}
  <1>1. ASSUME NEW m \in 0 .. N, 0 .. m - 1 \subseteq S PROVE m \in S
    <2>1. SUFFICES ASSUME m # 0 PROVE m \in sub[i] <=> BelowAChild(up, sub, N, i, m)
      OBVIOUS
    <2>2. m \in 1 .. N /\ up[m] \in 0 .. m - 1
      BY <2>1 DEF Preorder
    <2>3. m \in sub[i] <=> up[m] # NONE /\ (up[m] = i \/ up[m] \in sub[i])
      BY <2>2 DEF Subtrees
    <2>4. up[m] \in 1 .. N => (up[m] \in sub[i] <=> BelowAChild(up, sub, N, i, up[m]))
      <3>1. up[m] \in S
        BY <1>1, <2>2
      <3> QED BY <3>1
    <2>5. ASSUME m \in sub[i] PROVE BelowAChild(up, sub, N, i, m)
      <3>1. CASE up[m] = i
        BY <2>2, <3>1 DEF BelowAChild
      <3>2. CASE up[m] \in sub[i]
        <4>1. up[m] \in 1 .. N
          BY <3>2 DEF Subtrees
        <4>2. PICK c \in 1 .. N : up[c] = i /\ (up[m] = c \/ up[m] \in sub[c])
          BY <2>4, <3>2, <4>1 DEF BelowAChild
        <4>3. m \in sub[c]
          BY <2>2, <4>1, <4>2 DEF Subtrees, NONE
        <4> QED BY <4>2, <4>3 DEF BelowAChild
      <3> QED BY <2>3, <2>5, <3>1, <3>2
    <2>6. ASSUME BelowAChild(up, sub, N, i, m) PROVE m \in sub[i]
      <3>1. PICK c \in 1 .. N : up[c] = i /\ (m = c \/ m \in sub[c])
        BY <2>6 DEF BelowAChild
      <3>2. CASE m = c
        BY <2>3, <3>1, <3>2 DEF NONE
      <3>3. CASE m \in sub[c]
        <4>1. up[m] # NONE /\ (up[m] = c \/ up[m] \in sub[c])
          BY <2>2, <3>3 DEF Subtrees
        <4>2. up[m] \in 1 .. N
          BY <2>2, <4>1 DEF NONE
        <4>3. up[m] \in sub[i]
          BY <2>4, <3>1, <4>1, <4>2 DEF BelowAChild
        <4> QED BY <2>3, <4>1, <4>3
      <3> QED BY <3>1, <3>2, <3>3
    <2> QED BY <2>5, <2>6
  <1> HIDE DEF S
  <1>2. 0 .. N \subseteq S
    BY <1>1, CourseOfValues
  <1>3. k \in 0 .. N /\ k # 0
    OBVIOUS
  <1> QED BY <1>2, <1>3 DEF S

\* All that is below a child comes before the children that follow it.
LEMMA BelowIsBefore ==
  ASSUME NEW N \in Nat, NEW up, Preorder(up, N), NEW sub, Subtrees(up, sub, N),
         NEW i \in 1 .. N, NEW c \in 1 .. N, NEW e \in 1 .. N, up[c] = i, up[e] = i, c < e,
         NEW k, k = c \/ k \in sub[c]
  PROVE  k < e
  <1> DEFINE S == {m \in 0 .. N : m = c \/ m \in sub[c] => m < e}
  <1>0. i < c /\ i < e
    BY DEF Preorder
  <1>1. ASSUME NEW m \in 0 .. N, 0 .. m - 1 \subseteq S PROVE m \in S
    <2>1. SUFFICES ASSUME m \in sub[c] PROVE m < e
      OBVIOUS
    <2>2. m \in 1 .. N
      BY <2>1 DEF Subtrees
    <2>3. /\ up[m] \in 0 .. m - 1 /\ (up[m] = c \/ up[m] \in sub[c])
          /\ \A j \in up[m] + 1 .. m - 1 : up[j] >= up[m]
      BY <2>1, <2>2 DEF Subtrees, Preorder
    <2>4. up[m] \in S
      BY <1>1, <2>3
    <2>5. up[m] < e
      BY <2>3, <2>4
    <2>6. c <= up[m]
      <3>1. CASE up[m] \in sub[c]
        <4>1. up[m] \in Nat
          BY <2>3
        <4>2. c < up[m]
          BY <3>1, BelowIsLater
        <4> QED BY <4>1, <4>2
      <3> QED BY <2>3, <3>1
    <2>7. m # e
      BY <1>0, <2>3, <2>6
    <2>8. ~ (e < m)
      <3>1. SUFFICES ASSUME e < m PROVE FALSE
        OBVIOUS
      <3>2. e \in up[m] + 1 .. m - 1
        BY <2>2, <2>3, <2>5, <3>1
      <3>3. i >= up[m]
        BY <2>3, <3>2
      <3> QED BY <1>0, <2>3, <2>6, <3>3
    <2> QED BY <2>2, <2>7, <2>8
  <1> HIDE DEF S
  <1>2. 0 .. N \subseteq S
    BY <1>1, CourseOfValues
  <1>3. k \in 0 .. N
    BY DEF Subtrees
  <1> QED BY <1>2, <1>3 DEF S

\* The first of a set of nodes, if it has any.
First(S, r) == IF S = {} THEN r = NONE ELSE r \in S /\ \A k \in S : r <= k

\* There is only one.
LEMMA FirstIsOne ==
  ASSUME NEW S, S \subseteq Nat, NEW r, First(S, r), NEW q, First(S, q)
  PROVE  r = q
  <1>1. CASE S = {}
    BY <1>1 DEF First
  <1>2. CASE S # {}
    <2>1. r \in Nat /\ q \in Nat /\ r <= q /\ q <= r
      BY <1>2 DEF First
    <2> QED BY <2>1
  <1> QED BY <1>1, <1>2

\* This is what is taken of the places where a list meets a condition.
LEMMA LeastIs ==
  ASSUME NEW N \in Nat, NEW S, S \subseteq 1 .. N
  PROVE  First(S, IF S # {} THEN Min(S) ELSE 0)
  <1>1. CASE S = {}
    BY <1>1 DEF First, NONE
  <1>2. CASE S # {}
    <2>1. S \subseteq Nat
      OBVIOUS
    <2>2. PICK m \in S : \A n \in S : m <= n
      BY <1>2, <2>1, Least
    <2>3. Min(S) \in S /\ \A n \in S : Min(S) <= n
      BY <2>2 DEF Min
    <2> QED BY <1>2, <2>3 DEF First
  <1> QED BY <1>1, <1>2

-------------------------------------------------------------------------------
\* A value that follows from those after it, and a function of such values.
HasDescent(N, V, Value(_, _)) ==
  \E g \in [1 .. N -> V] : g = [k \in 1 .. N |-> Value(k, g)]
Descends(N, V, Value(_, _)) ==
  /\ \A k \in 1 .. N : \A g \in [1 .. N -> V] : Value(k, g) \in V
  /\ \A k \in 1 .. N : \A g, h \in [1 .. N -> V] :
        (\A j \in k + 1 .. N : g[j] = h[j]) => Value(k, g) = Value(k, h)

\* There is such a function.
LEMMA DownwardRecursion ==
  ASSUME NEW N \in Nat, NEW V, NEW v \in V, NEW Value(_, _), Descends(N, V, Value)
  PROVE  HasDescent(N, V, Value)
  <1> DEFINE D == 1 .. N
             G == [D -> V]
             level == [k \in D |-> N - k]
             step == [p \in D \X G |-> Value(p[1], p[2])]
  <1>1. \A k \in D : \A g \in G : step[<<k, g>>] = Value(k, g)
    OBVIOUS
  <1>2. \A k \in D : level[k] = N - k /\ level[k] \in 0 .. N
    OBVIOUS
  <1>3. Leveled(level, D, N)
    BY <1>2 DEF Leveled
  <1> HIDE DEF step, level
  <1>0. /\ \A k \in D : \A g \in G : Value(k, g) \in V
        /\ \A k \in D : \A g, h \in G :
             (\A j \in k + 1 .. N : g[j] = h[j]) => Value(k, g) = Value(k, h)
    BY DEF Descends
  <1>4. StaysWithin(step, D, V)
    BY <1>0, <1>1 DEF StaysWithin
  <1>5. ASSUME NEW k \in D, NEW g \in G, NEW h \in G, Alike(g, h, level, D, k)
        PROVE  step[<<k, g>>] = step[<<k, h>>]
    <2>1. ASSUME NEW j \in k + 1 .. N PROVE g[j] = h[j]
      <3>1. j \in D /\ N - j < N - k
        OBVIOUS
      <3> QED BY <1>2, <1>5, <3>1 DEF Alike
    <2>2. Value(k, g) = Value(k, h)
      BY <1>0, <2>1
    <2> QED BY <1>1, <2>2
  <1>6. LooksDown(step, level, D, V)
    BY <1>5 DEF LooksDown
  <1> HIDE DEF D
  <1>7. PICK g \in [D -> V] : Obeys(g, step, D)
    BY <1>3, <1>4, <1>6, LevelRecursion
  <1>8. ASSUME NEW k \in D PROVE g[k] = Value(k, g)
    BY <1>1, <1>7 DEF Obeys
  <1>9. g = [k \in D |-> Value(k, g)]
    BY <1>7, <1>8
  <1> QED BY <1>7, <1>9 DEF HasDescent, D

\* One step of a search looks through the children of a node in their order,
\* and below each before the next.
Hits(nodes, children, tag, g) ==
  [k \in DOMAIN children |-> LET c == children[k]
                             IN IF nodes[c].tag = tag THEN c ELSE g[c]]
Hit(hits) ==
  LET first == SelectInSeq(hits, LAMBDA h : h # NONE)
  IN IF first = 0 THEN NONE ELSE hits[first]
IsChildren(C, up, N, n) == Ascends(C) /\ Members(C) = {k \in 1 .. N : up[k] = n}

\* The children of a node come after it.
InPlace(C, up, N, n) ==
  /\ \A x \in 1 .. Len(C) : C[x] \in n + 1 .. N /\ up[C[x]] = n
  /\ \A x, y \in 1 .. Len(C) : x < y => C[x] < C[y]
  /\ \A c \in 1 .. N : up[c] = n => \E x \in 1 .. Len(C) : C[x] = c

\* The list of the children is in its place.
LEMMA ChildrenLater ==
  ASSUME NEW N \in Nat, NEW up, Preorder(up, N), NEW n \in 1 .. N, NEW C, IsChildren(C, up, N, n)
  PROVE  IsList(C) /\ DOMAIN C = 1 .. Len(C) /\ InPlace(C, up, N, n)
  <1>1. IsList(C) /\ \A x, y \in 1 .. Len(C) : x < y => C[x] < C[y]
    BY DEF IsChildren, Ascends
  <1>2. ASSUME NEW x \in 1 .. Len(C) PROVE C[x] \in n + 1 .. N /\ up[C[x]] = n
    <2>1. C[x] \in Members(C)
      BY DEF Members
    <2>2. C[x] \in 1 .. N /\ up[C[x]] = n
      BY <2>1 DEF IsChildren
    <2>3. n \in 0 .. C[x] - 1
      BY <2>2 DEF Preorder
    <2> QED BY <2>2, <2>3
  <1>3. ASSUME NEW c \in 1 .. N, up[c] = n PROVE \E x \in 1 .. Len(C) : C[x] = c
    <2>1. c \in Members(C)
      BY <1>3 DEF IsChildren
    <2> QED BY <2>1 DEF Members
  <1> QED BY <1>1, <1>2, <1>3, ListDomain DEF InPlace

\* If that finds the first below every child, it does below the node.
LEMMA SearchStep ==
  ASSUME NEW N \in Nat, NEW up, Preorder(up, N), NEW sub, Subtrees(up, sub, N),
         NEW n \in 1 .. N, NEW C, IsChildren(C, up, N, n), NEW T, T \subseteq 1 .. N,
         NEW g, \A c \in n + 1 .. N : First(sub[c] \cap T, g[c]),
         NEW hits, IsList(hits), Len(hits) = Len(C),
         \A x \in 1 .. Len(C) : hits[x] = IF C[x] \in T THEN C[x] ELSE g[C[x]]
  PROVE  First(sub[n] \cap T, Hit(hits))
  <1> DEFINE I == {x \in 1 .. Len(hits) : hits[x] # NONE}
             first == IF I # {} THEN Min(I) ELSE 0
             Of(x) == {k \in T : k = C[x] \/ k \in sub[C[x]]}
  <1>0. Hit(hits) = IF first = 0 THEN NONE ELSE hits[first]
    BY DEF Hit, SelectInSeq
  <1>1. First(I, first) /\ I \subseteq 1 .. Len(hits) /\ Len(hits) \in Nat
    <2>1. I \subseteq 1 .. Len(hits) /\ Len(hits) \in Nat
      BY DEF IsList
    <2> HIDE DEF I
    <2> QED BY <2>1, LeastIs
  <1>2. /\ \A x \in 1 .. Len(C) : C[x] \in n + 1 .. N /\ up[C[x]] = n
        /\ \A x, y \in 1 .. Len(C) : x < y => C[x] < C[y]
        /\ \A c \in 1 .. N : up[c] = n => \E x \in 1 .. Len(C) : C[x] = c
    <2>1. InPlace(C, up, N, n)
      BY ChildrenLater
    <2> QED BY <2>1 DEF InPlace
  <1>3. ASSUME NEW x \in 1 .. Len(C) PROVE First(Of(x), hits[x])
    <2>1. C[x] \in 1 .. N /\ C[x] \in n + 1 .. N
      BY <1>2
    <2>2. \A k \in sub[C[x]] : C[x] < k
      BY <2>1, BelowIsLater
    <2>3. CASE C[x] \in T
      <3>1. hits[x] = C[x] /\ C[x] \in Of(x)
        BY <2>3
      <3>2. \A k \in Of(x) : C[x] <= k
        BY <2>1, <2>2
      <3> QED BY <3>1, <3>2 DEF First
    <2>4. CASE C[x] \notin T
      <3>1. Of(x) = sub[C[x]] \cap T
        BY <2>4
      <3> QED BY <2>1, <2>4, <3>1
    <2> QED BY <2>3, <2>4
  <1>4. ASSUME NEW k \in sub[n] \cap T PROVE \E x \in 1 .. Len(C) : k \in Of(x)
    <2>1. k \in 1 .. N
      OBVIOUS
    <2>2. PICK c \in 1 .. N : up[c] = n /\ (k = c \/ k \in sub[c])
      BY <2>1, BelowIsBelowAChild DEF BelowAChild
    <2> QED BY <1>2, <2>2
  <1>5. ASSUME NEW x \in 1 .. Len(C), NEW k \in Of(x) PROVE k \in sub[n] \cap T
    <2>0. k \in T /\ k \in 1 .. N /\ (k = C[x] \/ k \in sub[C[x]])
      BY <1>5
    <2>1. C[x] \in 1 .. N /\ up[C[x]] = n
      BY <1>2
    <2> QED BY <2>0, <2>1, BelowIsBelowAChild DEF BelowAChild
  <1>6. ASSUME NEW x \in 1 .. Len(C), NEW y \in 1 .. Len(C), x < y, NEW k \in Of(x), NEW m \in Of(y)
        PROVE  k < m
    <2>1. /\ C[x] \in 1 .. N /\ C[y] \in 1 .. N /\ up[C[x]] = n /\ up[C[y]] = n /\ C[x] < C[y]
          /\ (k = C[x] \/ k \in sub[C[x]]) /\ (m = C[y] \/ m \in sub[C[y]])
          /\ k \in Nat /\ m \in Nat
      BY <1>2, <1>6
    <2>2. k < C[y]
      BY <2>1, BelowIsBefore
    <2>3. m = C[y] \/ C[y] < m
      BY <2>1, BelowIsLater
    <2> QED BY <2>1, <2>2, <2>3
  <1>7. \A x \in 1 .. Len(C) : Of(x) # {} => hits[x] \in Of(x) /\ hits[x] # NONE
    <2>1. NONE \notin T
      BY DEF NONE
    <2> QED BY <1>3, <2>1 DEF First
  <1>8. \A x \in 1 .. Len(C) : hits[x] # NONE => Of(x) # {}
    BY <1>3 DEF First
  <1>9. CASE I = {}
    <2>1. Hit(hits) = NONE
      BY <1>0, <1>9
    <2>2. \A x \in 1 .. Len(C) : Of(x) = {}
      BY <1>7, <1>9
    <2> HIDE DEF Of
    <2>3. sub[n] \cap T = {}
      BY <1>4, <2>2
    <2> QED BY <2>1, <2>3 DEF First
  <1>10. CASE I # {}
    <2>1. first \in I /\ \A x \in I : first <= x
      BY <1>1, <1>10 DEF First
    <2>2. first \in 1 .. Len(C) /\ hits[first] # NONE /\ first # 0
      BY <2>1, <1>1
    <2> HIDE DEF first
    <2>3. Hit(hits) = hits[first] /\ hits[first] \in Of(first) /\ \A k \in Of(first) : hits[first] <= k
      BY <1>0, <1>3, <1>8, <2>2 DEF First
    <2>4. hits[first] \in sub[n] \cap T
      BY <1>5, <2>2, <2>3
    <2>5. ASSUME NEW k \in sub[n] \cap T PROVE hits[first] <= k
      <3>1. PICK y \in 1 .. Len(C) : k \in Of(y)
        BY <1>4
      <3>2. y \in I
        BY <1>7, <3>1
      <3>3. first <= y
        BY <2>1, <3>2
      <3>4. CASE first = y
        BY <2>3, <3>1, <3>4
      <3>5. CASE first < y
        <4>1. hits[first] < k
          BY <1>6, <2>2, <2>3, <3>1, <3>5
        <4>2. hits[first] \in 1 .. N /\ k \in 1 .. N
          <5>1. \A m \in sub[n] \cap T : m \in 1 .. N
            OBVIOUS
          <5> QED BY <2>4, <5>1
        <4> QED BY <4>1, <4>2
      <3>6. first = y \/ first < y
        BY <1>1, <2>2, <3>3
      <3> QED BY <3>4, <3>5, <3>6
    <2> QED BY <2>3, <2>4, <2>5 DEF First
  <1> QED BY <1>9, <1>10

\* The parents of the nodes.
Ups(nodes) == [k \in 1 .. Len(nodes) |-> nodes[k].parent]

\* They are the list of the children.
LEMMA ChildrenOf ==
  ASSUME NEW d, Linkage(d.nodes, d.lastChild), Chained(d.nodes, d.lastChild),
         NEW n \in 1 .. Len(d.nodes)
  PROVE  IsChildren(Children(d, n), Ups(d.nodes), Len(d.nodes), n)
  <1> DEFINE N == Len(d.nodes)
             S == {k \in 1 .. N : d.nodes[k].parent = n}
  <1>1. N \in Nat /\ S \cap (1 .. N) = S
    BY DEF Linkage, IsList
  <1>2. Children(d, n) = InOrder(S, N)
    BY ChildrenAre
  <1>3. \A k \in 1 .. N : Ups(d.nodes)[k] = d.nodes[k].parent
    BY DEF Ups
  <1>4. S = {k \in 1 .. N : Ups(d.nodes)[k] = n}
    BY <1>3
  <1> HIDE DEF S, N
  <1>5. Ascends(InOrder(S, N)) /\ Members(InOrder(S, N)) = S
    BY <1>1, InOrderLists
  <1> QED BY <1>2, <1>4, <1>5 DEF IsChildren, N

\* What a search looks at: a value for each child.
LooksAt(h, C, T, g) ==
  /\ IsList(h) /\ Len(h) = Len(C)
  /\ \A x \in 1 .. Len(C) : h[x] = IF C[x] \in T THEN C[x] ELSE g[C[x]]

\* The values that one step of a search for a tag collects.
LEMMA HitsAre ==
  ASSUME NEW nodes, NEW C, IsList(C), \A x \in 1 .. Len(C) : C[x] \in 1 .. Len(nodes), NEW tag, NEW g
  PROVE  LooksAt(Hits(nodes, C, tag, g), C, {k \in 1 .. Len(nodes) : nodes[k].tag = tag}, g)
  <1> DEFINE h == Hits(nodes, C, tag, g)
  <1>1. DOMAIN C = 1 .. Len(C) /\ Len(C) \in Nat
    BY ListDomain DEF IsList
  <1>2. h = [x \in 1 .. Len(C) |-> IF nodes[C[x]].tag = tag THEN C[x] ELSE g[C[x]]]
    BY <1>1 DEF Hits
  <1>3. \A x \in 1 .. Len(C) : h[x] = IF nodes[C[x]].tag = tag THEN C[x] ELSE g[C[x]]
    BY <1>2
  <1>4. Len(h) = Len(C) /\ DOMAIN h = 1 .. Len(C)
    BY <1>1, <1>2
  <1>5. h = [x \in 1 .. Len(h) |-> h[x]]
    BY <1>2, <1>4
  <1> HIDE DEF h
  <1> QED BY <1>1, <1>3, <1>4, <1>5 DEF IsList, LooksAt, h

\* A hit is one of the values, or none.
LEMMA HitIs ==
  ASSUME NEW h, IsList(h), NEW V, NONE \in V, \A x \in 1 .. Len(h) : h[x] \in V
  PROVE  Hit(h) \in V
  <1> DEFINE I == {x \in 1 .. Len(h) : h[x] # NONE}
             first == IF I # {} THEN Min(I) ELSE 0
  <1>1. Hit(h) = IF first = 0 THEN NONE ELSE h[first]
    BY DEF Hit, SelectInSeq
  <1>2. I \subseteq 1 .. Len(h) /\ Len(h) \in Nat
    BY DEF IsList
  <1> HIDE DEF I
  <1>3. First(I, first)
    BY <1>2, LeastIs
  <1> HIDE DEF first
  <1>4. first = 0 \/ first \in 1 .. Len(h)
    BY <1>2, <1>3 DEF First, NONE
  <1> QED BY <1>1, <1>4

\* The search for a tag finds the first node below that has it.
LEMMA DescendantIs ==
  ASSUME NEW d, Linkage(d.nodes, d.lastChild), Chained(d.nodes, d.lastChild),
         Preorder(Ups(d.nodes), Len(d.nodes)), NEW sub, Subtrees(Ups(d.nodes), sub, Len(d.nodes)),
         NEW i \in 1 .. Len(d.nodes), NEW tag
  PROVE  First(sub[i] \cap {k \in 1 .. Len(d.nodes) : d.nodes[k].tag = tag}, Descendant(d, i, tag))
  <1> DEFINE N == Len(d.nodes)
             up == Ups(d.nodes)
             T == {k \in 1 .. N : d.nodes[k].tag = tag}
             V == 0 .. N
             C(n) == Children(d, n)
             Next1(n, g) == Hit(Hits(d.nodes, C(n), tag, g))
             Solves(g) == g = [n \in 1 .. N |-> Next1(n, g)]
             rec == CHOOSE g : Solves(g)
  <1>1. N \in Nat /\ Preorder(up, N) /\ Subtrees(up, sub, N) /\ T \subseteq 1 .. N
    BY DEF Linkage, IsList
  <1>2. Descendant(d, i, tag) = rec[i]
    BY DEF Descendant, Hit, Hits
  <1>3. ASSUME NEW n \in 1 .. N
        PROVE  IsChildren(C(n), up, N, n) /\ IsList(C(n)) /\ InPlace(C(n), up, N, n)
    <2>1. IsChildren(C(n), up, N, n)
      BY ChildrenOf
    <2> HIDE DEF N, up, C
    <2> QED BY <1>1, <2>1, ChildrenLater
  <1>4. ASSUME NEW n \in 1 .. N, NEW x \in 1 .. Len(C(n))
        PROVE  C(n)[x] \in n + 1 .. N /\ C(n)[x] \in 1 .. N
    <2> HIDE DEF N, up, C
    <2>1. C(n)[x] \in n + 1 .. N
      BY <1>3 DEF InPlace
    <2> QED BY <1>1, <2>1
  <1>5. ASSUME NEW n \in 1 .. N, NEW g
        PROVE  LooksAt(Hits(d.nodes, C(n), tag, g), C(n), T, g)
    <2>1. \A x \in 1 .. Len(C(n)) : C(n)[x] \in 1 .. N
      BY <1>4
    <2> HIDE DEF C
    <2> QED BY <1>3, <2>1, HitsAre
  <1> HIDE DEF N, up, T, C
  <1>6. ASSUME NEW n \in 1 .. N, NEW g \in [1 .. N -> V] PROVE Next1(n, g) \in V
    <2> DEFINE h == Hits(d.nodes, C(n), tag, g)
    <2>0. LooksAt(h, C(n), T, g)
      BY <1>5
    <2> HIDE DEF h
    <2>1. ASSUME NEW x \in 1 .. Len(h) PROVE h[x] \in V
      <3>1. x \in 1 .. Len(C(n)) /\ h[x] = IF C(n)[x] \in T THEN C(n)[x] ELSE g[C(n)[x]]
        BY <2>0 DEF LooksAt
      <3>2. C(n)[x] \in 1 .. N
        BY <1>4, <3>1
      <3>3. C(n)[x] \in V /\ g[C(n)[x]] \in V
        BY <1>1, <3>2
      <3> QED BY <3>1, <3>3
    <2>4. IsList(h)
      BY <2>0 DEF LooksAt
    <2>2. NONE \in V
      BY <1>1 DEF NONE
    <2> HIDE DEF h, V
    <2>3. Hit(h) \in V
      BY <2>1, <2>2, <2>4, HitIs
    <2> QED BY <2>3 DEF h
  <1>7. ASSUME NEW n \in 1 .. N, NEW g \in [1 .. N -> V], NEW h \in [1 .. N -> V],
               \A j \in n + 1 .. N : g[j] = h[j]
        PROVE  Next1(n, g) = Next1(n, h)
    <2> DEFINE a == Hits(d.nodes, C(n), tag, g)
               b == Hits(d.nodes, C(n), tag, h)
    <2>0. LooksAt(a, C(n), T, g) /\ LooksAt(b, C(n), T, h)
      BY <1>5
    <2> HIDE DEF a, b
    <2>1. /\ IsList(a) /\ IsList(b) /\ Len(a) = Len(b)
          /\ \A x \in 1 .. Len(a) : a[x] = b[x]
      BY <1>4, <1>7, <2>0 DEF LooksAt
    <2>2. a = b
      BY <2>1, ListsEqual
    <2> QED BY <2>2 DEF a, b
  <1>8. 0 \in V
    BY <1>1
  <1> HIDE DEF Next1, V
  <1>9. HasDescent(N, V, Next1)
    <2>1. Descends(N, V, Next1)
      BY <1>6, <1>7 DEF Descends
    <2> QED BY <1>1, <1>8, <2>1, DownwardRecursion
  <1>10. rec = [n \in 1 .. N |-> Next1(n, rec)]
    BY <1>9 DEF HasDescent
  <1> HIDE DEF rec
  <1> DEFINE S == {m \in 0 .. N : m # 0 => First(sub[N + 1 - m] \cap T, rec[N + 1 - m])}
  <1>11. ASSUME NEW m \in 0 .. N, 0 .. m - 1 \subseteq S PROVE m \in S
    <2>1. SUFFICES ASSUME m # 0 PROVE First(sub[N + 1 - m] \cap T, rec[N + 1 - m])
      OBVIOUS
    <2> DEFINE n == N + 1 - m
               h == Hits(d.nodes, C(n), tag, rec)
    <2>2. n \in 1 .. N /\ m = N + 1 - n
      BY <1>1, <2>1
    <2>3. ASSUME NEW c \in n + 1 .. N PROVE First(sub[c] \cap T, rec[c])
      <3>1. N + 1 - c \in 0 .. m - 1 /\ N + 1 - c # 0 /\ N + 1 - (N + 1 - c) = c
        BY <1>1, <2>2
      <3>2. N + 1 - c \in S
        BY <1>11, <3>1
      <3> QED BY <3>1, <3>2
    <2>4. rec[n] = Hit(h)
      BY <1>10, <2>2 DEF Next1
    <2> HIDE DEF S, n
    <2>5. LooksAt(h, C(n), T, rec)
      BY <1>5, <2>2
    <2> HIDE DEF h
    <2>6. IsChildren(C(n), up, N, n)
      BY <1>3, <2>2
    <2>7. First(sub[n] \cap T, Hit(h))
      BY <1>1, <2>2, <2>3, <2>5, <2>6, SearchStep DEF LooksAt
    <2> QED BY <2>4, <2>7 DEF n
  <1> HIDE DEF S
  <1>12. 0 .. N \subseteq S
    BY <1>1, <1>11, CourseOfValues
  <1>13. N + 1 - i \in 0 .. N /\ N + 1 - i # 0 /\ N + 1 - (N + 1 - i) = i
    BY <1>1 DEF N
  <1>14. First(sub[i] \cap T, rec[i])
    BY <1>12, <1>13 DEF S
  <1> QED BY <1>2, <1>14 DEF T, N

\* The search for several tags looks at all children before what is below them.
Here(nodes, children, tags) == FirstIn(children, LAMBDA c : nodes[c].tag \in tags)
Belows(children, g) == [k \in DOMAIN children |-> g[children[k]]]

\* A hit is none if there is none.
LEMMA HitIsNone ==
  ASSUME NEW h, IsList(h)
  PROVE  Hit(h) = NONE <=> \A x \in 1 .. Len(h) : h[x] = NONE
  <1> DEFINE I == {x \in 1 .. Len(h) : h[x] # NONE}
             first == IF I # {} THEN Min(I) ELSE 0
  <1>1. Hit(h) = IF first = 0 THEN NONE ELSE h[first]
    BY DEF Hit, SelectInSeq
  <1>2. I \subseteq 1 .. Len(h) /\ Len(h) \in Nat
    BY DEF IsList
  <1>3. First(I, first)
    <2> HIDE DEF I
    <2> QED BY <1>2, LeastIs
  <1> HIDE DEF first
  <1>4. CASE I = {}
    BY <1>1, <1>3, <1>4 DEF First, NONE
  <1>5. CASE I # {}
    BY <1>1, <1>3, <1>5 DEF First
  <1> QED BY <1>4, <1>5

\* What is found among the children is one of them that has such a tag.
LEMMA HereIs ==
  ASSUME NEW nodes, NEW C, IsList(C), \A x \in 1 .. Len(C) : C[x] \in 1 .. Len(nodes), NEW tags
  PROVE  /\ Here(nodes, C, tags) \in 0 .. Len(nodes) \/ Here(nodes, C, tags) = NONE
         /\ Here(nodes, C, tags) = NONE <=> \A x \in 1 .. Len(C) : nodes[C[x]].tag \notin tags
  <1> DEFINE I == {x \in 1 .. Len(C) : nodes[C[x]].tag \in tags}
             first == IF I # {} THEN Min(I) ELSE 0
             r == Here(nodes, C, tags)
  <1>1. r = IF first = 0 THEN NONE ELSE C[first]
    BY DEF Here, FirstIn, SelectInSeq
  <1>2. I \subseteq 1 .. Len(C) /\ Len(C) \in Nat
    BY DEF IsList
  <1>3. First(I, first)
    <2> HIDE DEF I
    <2> QED BY <1>2, LeastIs
  <1> HIDE DEF first, r
  <1>4. CASE I = {}
    BY <1>1, <1>3, <1>4 DEF First, NONE, r
  <1>5. CASE I # {}
    <2>1. first \in I
      BY <1>3, <1>5 DEF First
    <2>2. r = C[first] /\ C[first] \in 1 .. Len(nodes)
      BY <1>1, <1>2, <2>1
    <2>3. r # NONE /\ r \in 0 .. Len(nodes)
      <3>1. \A m : m \in 1 .. Len(nodes) => m # 0 /\ m \in 0 .. Len(nodes)
        OBVIOUS
      <3> QED BY <2>2, <3>1 DEF NONE
    <2> QED BY <2>1, <2>3 DEF r
  <1> QED BY <1>4, <1>5

\* The search for several tags finds a node if one below has such a tag.
LEMMA DescendantAnyIs ==
  ASSUME NEW d, Linkage(d.nodes, d.lastChild), Chained(d.nodes, d.lastChild),
         Preorder(Ups(d.nodes), Len(d.nodes)), NEW sub, Subtrees(Ups(d.nodes), sub, Len(d.nodes)),
         NEW i \in 1 .. Len(d.nodes), NEW tags
  PROVE  DescendantAny(d, i, tags) = NONE <=>
           sub[i] \cap {k \in 1 .. Len(d.nodes) : d.nodes[k].tag \in tags} = {}
  <1> DEFINE N == Len(d.nodes)
             up == Ups(d.nodes)
             T == {k \in 1 .. N : d.nodes[k].tag \in tags}
             V == 0 .. N
             C(n) == Children(d, n)
             H(n) == Here(d.nodes, C(n), tags)
             Next1(n, g) == IF H(n) # NONE THEN H(n) ELSE Hit(Belows(C(n), g))
             Solves(g) == g = [n \in 1 .. N |-> Next1(n, g)]
             rec == CHOOSE g : Solves(g)
  <1>1. N \in Nat /\ Preorder(up, N) /\ Subtrees(up, sub, N) /\ T \subseteq 1 .. N
    BY DEF Linkage, IsList
  <1>2. DescendantAny(d, i, tags) = rec[i]
    BY DEF DescendantAny, Hit, Belows, Here
  <1>3. ASSUME NEW n \in 1 .. N
        PROVE  IsList(C(n)) /\ DOMAIN C(n) = 1 .. Len(C(n)) /\ InPlace(C(n), up, N, n)
    <2>1. IsChildren(C(n), up, N, n)
      BY ChildrenOf
    <2> HIDE DEF N, up, C
    <2> QED BY <1>1, <2>1, ChildrenLater
  <1>4. ASSUME NEW n \in 1 .. N, NEW x \in 1 .. Len(C(n))
        PROVE  C(n)[x] \in n + 1 .. N /\ C(n)[x] \in 1 .. N
    <2> HIDE DEF N, up, C
    <2>1. C(n)[x] \in n + 1 .. N
      BY <1>3 DEF InPlace
    <2> QED BY <1>1, <2>1
  <1>5. ASSUME NEW n \in 1 .. N
        PROVE  H(n) \in V /\ (H(n) = NONE <=> \A x \in 1 .. Len(C(n)) : C(n)[x] \notin T)
    <2>0. \A x \in 1 .. Len(C(n)) : C(n)[x] \in 1 .. N
      BY <1>4
    <2>1. /\ H(n) \in 0 .. N \/ H(n) = NONE
          /\ H(n) = NONE <=> \A x \in 1 .. Len(C(n)) : d.nodes[C(n)[x]].tag \notin tags
      <3> HIDE DEF C
      <3> QED BY <1>3, <2>0, HereIs
    <2>2. \A x \in 1 .. Len(C(n)) : C(n)[x] \in T <=> d.nodes[C(n)[x]].tag \in tags
      BY <2>0
    <2>3. 0 \in 0 .. N
      BY <1>1
    <2> HIDE DEF H, C, T
    <2> QED BY <2>1, <2>2, <2>3 DEF NONE
  <1> HIDE DEF N, up, T, C, H
  <1>6. ASSUME NEW n \in 1 .. N, NEW g
        PROVE  LooksAt(Belows(C(n), g), C(n), {}, g)
    <2> DEFINE h == Belows(C(n), g)
               c == C(n)
    <2>1. IsList(c) /\ DOMAIN c = 1 .. Len(c) /\ Len(c) \in Nat
      BY <1>3 DEF IsList
    <2> HIDE DEF c
    <2>2. h = [x \in 1 .. Len(c) |-> g[c[x]]]
      BY <2>1 DEF Belows, c
    <2>3. Len(h) = Len(c) /\ \A x \in 1 .. Len(c) : h[x] = g[c[x]]
      BY <2>1, <2>2
    <2>4. h = [x \in 1 .. Len(h) |-> h[x]]
      BY <2>2, <2>3
    <2> HIDE DEF h
    <2> QED BY <2>1, <2>3, <2>4 DEF LooksAt, IsList, h, c
  <1>7. ASSUME NEW n \in 1 .. N, NEW g \in [1 .. N -> V] PROVE Next1(n, g) \in V
    <2> DEFINE h == Belows(C(n), g)
    <2>0. LooksAt(h, C(n), {}, g)
      BY <1>6
    <2> HIDE DEF h
    <2>1. ASSUME NEW x \in 1 .. Len(h) PROVE h[x] \in V
      <3>1. x \in 1 .. Len(C(n)) /\ h[x] = g[C(n)[x]]
        BY <2>0 DEF LooksAt
      <3>2. C(n)[x] \in 1 .. N
        BY <1>4, <3>1
      <3> QED BY <3>1, <3>2
    <2>2. NONE \in V
      BY <1>1 DEF NONE
    <2>4. IsList(h)
      BY <2>0 DEF LooksAt
    <2> HIDE DEF V
    <2>3. Hit(h) \in V
      BY <2>1, <2>2, <2>4, HitIs
    <2> QED BY <1>5, <2>3 DEF h
  <1>8. ASSUME NEW n \in 1 .. N, NEW g \in [1 .. N -> V], NEW h \in [1 .. N -> V],
               \A j \in n + 1 .. N : g[j] = h[j]
        PROVE  Next1(n, g) = Next1(n, h)
    <2> DEFINE a == Belows(C(n), g)
               b == Belows(C(n), h)
    <2>0. LooksAt(a, C(n), {}, g) /\ LooksAt(b, C(n), {}, h)
      BY <1>6
    <2> HIDE DEF a, b
    <2>1. /\ IsList(a) /\ IsList(b) /\ Len(a) = Len(b)
          /\ \A x \in 1 .. Len(a) : a[x] = b[x]
      BY <1>4, <1>8, <2>0 DEF LooksAt
    <2>2. a = b
      BY <2>1, ListsEqual
    <2> QED BY <2>2 DEF a, b
  <1>9. 0 \in V
    BY <1>1
  <1> HIDE DEF Next1, V
  <1>10. HasDescent(N, V, Next1)
    <2>1. Descends(N, V, Next1)
      BY <1>7, <1>8 DEF Descends
    <2> QED BY <1>1, <1>9, <2>1, DownwardRecursion
  <1>11. rec = [n \in 1 .. N |-> Next1(n, rec)]
    BY <1>10 DEF HasDescent
  <1> HIDE DEF rec
  <1> DEFINE None(n) == rec[n] = NONE <=> sub[n] \cap T = {}
             S == {m \in 0 .. N : m # 0 => None(N + 1 - m)}
  <1>12. ASSUME NEW m \in 0 .. N, 0 .. m - 1 \subseteq S PROVE m \in S
    <2>1. SUFFICES ASSUME m # 0 PROVE None(N + 1 - m)
      OBVIOUS
    <2> DEFINE n == N + 1 - m
               h == Belows(C(n), rec)
               c == C(n)
    <2>2. n \in 1 .. N /\ m = N + 1 - n
      BY <1>1, <2>1
    <2>3. ASSUME NEW k \in n + 1 .. N PROVE rec[k] = NONE <=> sub[k] \cap T = {}
      <3>1. N + 1 - k \in 0 .. m - 1 /\ N + 1 - k # 0 /\ N + 1 - (N + 1 - k) = k
        BY <1>1, <2>2
      <3>2. N + 1 - k \in S
        BY <1>12, <3>1
      <3> QED BY <3>1, <3>2
    <2> HIDE DEF S, n
    <2>4. rec[n] = IF H(n) # NONE THEN H(n) ELSE Hit(h)
      BY <1>11, <2>2 DEF Next1
    <2>5. LooksAt(h, c, {}, rec)
      BY <1>6, <2>2
    <2>6. InPlace(c, up, N, n)
      BY <1>3, <2>2
    <2>7. H(n) = NONE <=> \A x \in 1 .. Len(c) : c[x] \notin T
      BY <1>5, <2>2
    <2> HIDE DEF h, c
    <2>8. Hit(h) = NONE <=> \A x \in 1 .. Len(c) : rec[c[x]] = NONE
      <3>1. IsList(h) /\ Len(h) = Len(c) /\ \A x \in 1 .. Len(c) : h[x] = rec[c[x]]
        BY <2>5 DEF LooksAt
      <3> QED BY <3>1, HitIsNone
    <2>9. \A x \in 1 .. Len(c) : rec[c[x]] = NONE <=> sub[c[x]] \cap T = {}
      BY <2>3, <2>6 DEF InPlace
    <2>10. sub[n] \cap T = {} <=> \A x \in 1 .. Len(c) : c[x] \notin T /\ sub[c[x]] \cap T = {}
      <3>1. ASSUME NEW k \in sub[n] \cap T
            PROVE  \E x \in 1 .. Len(c) : c[x] \in T \/ sub[c[x]] \cap T # {}
        <4>0. k \in 1 .. N /\ k \in sub[n] /\ k \in T
          BY <1>1
        <4>1. PICK e \in 1 .. N : up[e] = n /\ (k = e \/ k \in sub[e])
          BY <1>1, <2>2, <4>0, BelowIsBelowAChild DEF BelowAChild
        <4>2. PICK x \in 1 .. Len(c) : c[x] = e
          BY <2>6, <4>1 DEF InPlace
        <4> QED BY <4>0, <4>1, <4>2
      <3>2. ASSUME NEW x \in 1 .. Len(c), NEW k \in T, k = c[x] \/ k \in sub[c[x]]
            PROVE  k \in sub[n]
        <4>1. c[x] \in n + 1 .. N /\ up[c[x]] = n
          BY <2>6 DEF InPlace
        <4>2. c[x] \in 1 .. N /\ k \in 1 .. N
          BY <1>1, <2>2, <4>1
        <4> QED BY <1>1, <2>2, <3>2, <4>1, <4>2, BelowIsBelowAChild DEF BelowAChild
      <3> QED BY <3>1, <3>2
    <2>11. None(n)
      BY <2>4, <2>7, <2>8, <2>9, <2>10
    <2> QED BY <2>11 DEF n
  <1> HIDE DEF S
  <1>13. 0 .. N \subseteq S
    BY <1>1, <1>12, CourseOfValues
  <1>14. N + 1 - i \in 0 .. N /\ N + 1 - i # 0 /\ N + 1 - (N + 1 - i) = i
    BY <1>1 DEF N
  <1>15. None(i)
    BY <1>13, <1>14 DEF S
  <1> QED BY <1>2, <1>15 DEF T, N

-------------------------------------------------------------------------------
\* Whether an element of a document is below another, as the property says it.
BelowOf(list, n) ==
  LET Under[m \in DOMAIN list] ==
        list[m].parent # NONE /\ (list[m].parent = n \/ Under[list[m].parent])
  IN Under
IsBelow(list, n, m) == list[m].parent # NONE /\ (list[m].parent = n \/ BelowOf(list, n)[list[m].parent])

\* It is, if its parent is that or below that.
LEMMA BelowFollows ==
  ASSUME NEW list, IsDocument(list), NEW n, NEW m \in 1 .. Len(list)
  PROVE  BelowOf(list, n)[m] = IsBelow(list, n, m)
  <1> DEFINE N == Len(list)
             parent == [k \in 1 .. N |-> list[k].parent]
             V == BOOLEAN
             step == [p \in (1 .. N) \X V |-> parent[p[1]] # NONE /\ (parent[p[1]] = n \/ p[2])]
             Solves(f) == f = [k \in DOMAIN list |->
                                 list[k].parent # NONE /\ (list[k].parent = n \/ f[list[k].parent])]
             rec == CHOOSE f : Solves(f)
  <1>1. N \in Nat /\ DOMAIN list = 1 .. N /\ \A k \in 1 .. N : parent[k] \in 0 .. k - 1
    BY ListDomain DEF IsDocument, IsList
  <1>2. BelowOf(list, n) = rec
    BY DEF BelowOf
  <1>3. \A k \in 1 .. N : parent[k] = list[k].parent
    OBVIOUS
  <1>4. \A k \in 1 .. N : \A v \in V :
          step[<<k, v>>] = (parent[k] # NONE /\ (parent[k] = n \/ v))
    OBVIOUS
  <1> HIDE DEF N, parent, step
  <1>5. StaysIn(V, step, N)
    BY <1>4 DEF StaysIn
  <1>6. Earlier(parent, N)
    BY <1>1 DEF Earlier
  <1>7. PICK g \in [0 .. N -> V] : Follows(g, FALSE, parent, step, N)
    BY <1>1, <1>5, <1>6, TreeRecursion
  <1> DEFINE f == [k \in 1 .. N |-> g[k]]
  <1>8. ASSUME NEW k \in 1 .. N
        PROVE  g[k] = (list[k].parent # NONE /\ (list[k].parent = n \/ f[list[k].parent]))
    <2>1. parent[k] \in 0 .. N /\ g[parent[k]] \in V
      BY <1>1
    <2>2. g[k] = (parent[k] # NONE /\ (parent[k] = n \/ g[parent[k]]))
      BY <1>4, <1>7, <2>1 DEF Follows
    <2>3. parent[k] # NONE => f[parent[k]] = g[parent[k]]
      BY <1>1, <2>1 DEF NONE
    <2> HIDE DEF f, V
    <2> QED BY <1>3, <2>2, <2>3
  <1>9. f = [k \in 1 .. N |-> list[k].parent # NONE /\ (list[k].parent = n \/ f[list[k].parent])]
    <2>1. \A k \in 1 .. N : f[k] = g[k]
      OBVIOUS
    <2>2. f = [k \in 1 .. N |-> f[k]]
      OBVIOUS
    <2> HIDE DEF f
    <2> QED BY <1>8, <2>1, <2>2
  <1> HIDE DEF f
  <1>10. Solves(f)
    BY <1>1, <1>9
  <1>11. Solves(rec)
    <2> HIDE DEF Solves
    <2> QED BY <1>10
  <1> HIDE DEF rec
  <1>12. rec[m] = (list[m].parent # NONE /\ (list[m].parent = n \/ rec[list[m].parent]))
    BY <1>1, <1>11 DEF N
  <1> QED BY <1>2, <1>12 DEF IsBelow

\* The nodes are in the order of the document, and below each other as the
\* elements are.
KeptBelow(list) ==
  LET K == KeptOf(list)
  IN [i \in 1 .. Len(K) |-> {k \in 1 .. Len(K) : BelowOf(list, K[i])[K[k]]}]

\* The order of the document is that of the nodes, and what is below a node is
\* what is below its element.
LEMMA NodesBelow ==
  ASSUME ContentInv
  PROVE  /\ Preorder(Ups(dom.nodes), Len(dom.nodes))
         /\ Subtrees(Ups(dom.nodes), KeptBelow(document), Len(dom.nodes))
  <1> DEFINE K == KeptOf(document)
             N == Len(K)
             up == Ups(dom.nodes)
             P(k) == document[K[k]].parent
             sub == KeptBelow(document)
  <1>1. /\ IsDocument(document) /\ Len(dom.nodes) = N /\ N \in Nat
        /\ \A k \in 1 .. N : K[k] \in 1 .. Len(document)
        /\ \A k, j \in 1 .. N : K[k] = K[j] => k = j
        /\ \A k, j \in 1 .. N : k < j => K[k] < K[j]
        /\ Len(document) \in Nat
    <2>1. IsDocument(document) /\ Len(dom.nodes) = N
      BY ContentFacts
    <2>2. Ascends(K) /\ IsList(K)
      BY <2>1, KeptIs
    <2> QED BY <2>1, <2>2, KeptIs DEF Ascends, IsList, IsDocument
  <1>2. ASSUME NEW k \in 1 .. N
        PROVE  /\ up[k] \in 0 .. k - 1 /\ P(k) \in 0 .. K[k] - 1
               /\ IF P(k) = NONE THEN up[k] = NONE ELSE up[k] \in 1 .. N /\ K[up[k]] = P(k)
    <2>1. up[k] = dom.nodes[k].parent
      BY <1>1 DEF Ups
    <2>2. Represents(dom.nodes, dom.skipped, document) /\ Sound(dom)
      BY DEF ContentInv, DocumentInv, TreeInv
    <2>3. up[k] \in 0 .. k - 1
      BY <1>1, <2>1, <2>2 DEF Sound, Linkage
    <2>4. P(k) \in 0 .. K[k] - 1
      BY <1>1 DEF IsDocument
    <2>5. IF P(k) = NONE THEN up[k] = NONE ELSE up[k] \in 1 .. N /\ K[up[k]] = P(k)
      BY <2>1, <2>2 DEF Represents
    <2> QED BY <2>3, <2>4, <2>5
  <1>3. \A m \in 1 .. Len(document) :
          \A j \in document[m].parent + 1 .. m - 1 : document[j].parent >= document[m].parent
    BY DEF ContentInv, Contents, Nested
  <1>4. \A i, k \in 1 .. N : k \in sub[i] <=> BelowOf(document, K[i])[K[k]]
    BY DEF KeptBelow
  <1>5. \A i \in 1 .. N : sub[i] \subseteq 1 .. N
    BY DEF KeptBelow
  <1> HIDE DEF K, N, up, P, sub
  <1>6. ASSUME NEW k \in 1 .. N, NEW j \in up[k] + 1 .. k - 1 PROVE up[j] >= up[k]
    <2>1. /\ j \in 1 .. N /\ j < k /\ up[k] \in Nat /\ up[k] < j
      BY <1>1, <1>2
    <2>2. CASE P(k) = NONE
      <3>1. up[k] = 0 /\ up[j] \in Nat
        BY <1>2, <2>1, <2>2 DEF NONE
      <3> QED BY <3>1
    <2>3. CASE P(k) # NONE
      <3>1. up[k] \in 1 .. N /\ K[up[k]] = P(k) /\ P(k) \in Nat /\ P(k) > 0
        BY <1>1, <1>2, <2>3 DEF NONE
      <3>2. K[j] < K[k] /\ K[up[k]] < K[j] /\ K[k] \in Nat /\ K[j] \in Nat
        BY <1>1, <2>1, <3>1
      <3>3. K[k] \in 1 .. Len(document) /\ K[j] \in P(k) + 1 .. K[k] - 1
        BY <1>1, <3>1, <3>2
      <3>4. P(j) >= P(k)
        BY <1>3, <3>3 DEF P
      <3>5. P(j) # NONE
        BY <1>2, <2>1, <3>1, <3>4 DEF NONE
      <3>6. up[j] \in 1 .. N /\ K[up[j]] = P(j)
        BY <1>2, <2>1, <3>5
      <3>7. ~ (up[j] < up[k])
        <4>1. SUFFICES ASSUME up[j] < up[k] PROVE FALSE
          OBVIOUS
        <4>2. K[up[j]] < K[up[k]]
          BY <1>1, <3>1, <3>6, <4>1
        <4>3. P(j) \in Nat
          BY <1>1, <3>6
        <4> QED BY <3>1, <3>4, <3>6, <4>2, <4>3
      <3> QED BY <1>1, <3>1, <3>6, <3>7
    <2> QED BY <2>2, <2>3
  <1>7. ASSUME NEW i \in 1 .. N, NEW k \in 1 .. N
        PROVE  k \in sub[i] <=> up[k] # NONE /\ (up[k] = i \/ up[k] \in sub[i])
    <2>1. K[k] \in 1 .. Len(document) /\ K[i] \in 1 .. Len(document)
      BY <1>1
    <2>2. BelowOf(document, K[i])[K[k]] = IsBelow(document, K[i], K[k])
      BY <1>1, <2>1, BelowFollows
    <2>3. k \in sub[i] <=> (P(k) # NONE /\ (P(k) = K[i] \/ BelowOf(document, K[i])[P(k)]))
      BY <1>4, <2>2 DEF IsBelow, P
    <2>4. CASE P(k) = NONE
      BY <1>2, <2>3, <2>4
    <2>5. CASE P(k) # NONE
      <3>1. up[k] \in 1 .. N /\ K[up[k]] = P(k) /\ up[k] # NONE
        BY <1>1, <1>2, <2>5 DEF NONE
      <3>2. P(k) = K[i] <=> up[k] = i
        BY <1>1, <3>1
      <3>3. up[k] \in sub[i] <=> BelowOf(document, K[i])[P(k)]
        BY <1>4, <3>1
      <3> QED BY <2>3, <2>5, <3>1, <3>2, <3>3
    <2> QED BY <2>4, <2>5
  <1>8. Preorder(up, N)
    BY <1>2, <1>6 DEF Preorder
  <1>9. Subtrees(up, sub, N)
    BY <1>5, <1>7 DEF Subtrees
  <1> QED BY <1>1, <1>8, <1>9 DEF up, sub

\* The first element below n that is kept and has one of these tags.
FirstBelowOf(list, K, n, tags) ==
  FirstIn([k \in DOMAIN K |-> k], LAMBDA k : BelowOf(list, n)[K[k]] /\ list[K[k]].tag \in tags)

\* It is the least of their places.
LEMMA FirstBelowIs ==
  ASSUME NEW list, NEW K, IsList(K), NEW n, NEW tags
  PROVE  First({k \in 1 .. Len(K) : BelowOf(list, n)[K[k]] /\ list[K[k]].tag \in tags},
               FirstBelowOf(list, K, n, tags))
  <1> DEFINE N == Len(K)
             seq == [k \in DOMAIN K |-> k]
             Found(k) == BelowOf(list, n)[K[k]] /\ list[K[k]].tag \in tags
             I == {x \in 1 .. Len(seq) : Found(seq[x])}
             first == IF I # {} THEN Min(I) ELSE 0
             r == FirstBelowOf(list, K, n, tags)
             S == {k \in 1 .. N : Found(k)}
  <1>1. N \in Nat /\ DOMAIN K = 1 .. N
    BY ListDomain DEF IsList
  <1>2. r = IF first = 0 THEN NONE ELSE seq[first]
    BY DEF FirstBelowOf, FirstIn, SelectInSeq
  <1>3. Len(seq) = N /\ \A x \in 1 .. N : seq[x] = x
    BY <1>1
  <1>4. I = S
    <2> HIDE DEF Found, seq
    <2> QED BY <1>3
  <1>5. S \subseteq 1 .. N
    OBVIOUS
  <1> HIDE DEF Found, seq, r, I, S, N
  <1>6. First(S, first)
    BY <1>1, <1>4, <1>5, LeastIs
  <1> HIDE DEF first
  <1>7. First(S, r)
    <2>1. CASE S = {}
      <3>1. first = 0
        BY <1>6, <2>1 DEF First, NONE
      <3> QED BY <1>2, <2>1, <3>1 DEF First
    <2>2. CASE S # {}
      <3>1. first \in S /\ \A k \in S : first <= k
        BY <1>6, <2>2 DEF First
      <3>2. first \in 1 .. N /\ first # 0
        BY <1>1, <1>5, <3>1
      <3>3. r = first
        BY <1>2, <1>3, <3>2
      <3> QED BY <2>2, <3>1, <3>3 DEF First
    <2> QED BY <2>1, <2>2
  <1> QED BY <1>7 DEF r, S, Found, N

\* The name and the attributes of a node read back as they were written.
AsWritten(i, n) ==
  LET keys == document[n].attributes IN
  /\ Name(dom, i) = <<<<"name", document[n].tag>>>>
  /\ Len(AttrsRaw(dom, i)) = Len(Listed(keys))
  /\ \A k \in 1 .. Len(Listed(keys)) :
       /\ AttrName(dom, AttrsRaw(dom, i)[k]) = <<<<"name", keys[Listed(keys)[k]]>>>>
       /\ StrAt(dom, AttrsRaw(dom, i)[k].value) = <<ValueOf(n, Listed(keys)[k])>>

\* They do: their spans in the arena have never moved.
LEMMA NamesReadBack ==
  ASSUME ContentInv, NEW i \in 1 .. Len(dom.nodes), NEW n, n = KeptOf(document)[i],
         n \in 1 .. Len(document)
  PROVE  AsWritten(i, n)
  <1> DEFINE node == dom.nodes[i]
             keys == document[n].attributes
             L == Listed(keys)
             raw == AttrsRaw(dom, i)
  <1>1. /\ node.tag = document[n].tag
        /\ NameRead(dom.arena, document[n].tag, node.name)
        /\ AttributesRead(dom.arena, dom.attrs, node, keys, n)
    BY DEF ContentInv, Contents, Holds
  <1>2. IsList(dom.attrs) /\ IsList(keys)
    <2>1. keys \in Seq(STRING)
      BY ContentFacts DEF Listing
    <2> QED BY <2>1, ContentFacts, SeqIsList
  <1>3. IsList(L) /\ Len(L) \in Nat
    BY <1>2, ListedIs
  <1>4. ASSUME NEW span, NEW text, Reads(dom.arena, span, text) PROVE StrAt(dom, span) = text
    BY <1>4 DEF StrAt, Slice, Reads
  <1>5. Name(dom, i) = <<<<"name", document[n].tag>>>>
    <2>1. CASE document[n].tag \in Vocabulary
      BY <1>1, <2>1 DEF Name
    <2>2. CASE document[n].tag \notin Vocabulary
      <3>1. Reads(dom.arena, node.name, <<<<"name", document[n].tag>>>>)
        BY <1>1, <2>2 DEF NameRead
      <3>2. StrAt(dom, node.name) = <<<<"name", document[n].tag>>>>
        BY <1>4, <3>1
      <3> QED BY <1>1, <2>2, <3>2 DEF Name
    <2> QED BY <2>1, <2>2
  <1> HIDE DEF L, keys
  <1>6. /\ node.attrStart \in Nat /\ node.attrLen = Len(L)
        /\ node.attrStart + node.attrLen <= Len(dom.attrs)
        /\ \A k \in 1 .. Len(L) :
             AttributeRead(dom.arena, dom.attrs[node.attrStart + k], keys[L[k]], n, L[k])
    BY <1>1 DEF AttributesRead, L
  <1>7. raw = SubSeq(dom.attrs, node.attrStart + 1, node.attrStart + node.attrLen)
    BY <1>6 DEF AttrsRaw, Slice
  <1> HIDE DEF raw, node
  <1>8. Len(raw) = Len(L) /\ \A k \in 1 .. Len(L) : raw[k] = dom.attrs[node.attrStart + k]
    <2> DEFINE a == node.attrStart + 1
               b == node.attrStart + node.attrLen
    <2>10. Len(dom.attrs) \in Nat
      BY <1>2 DEF IsList
    <2>11. /\ node.attrStart \in Nat /\ node.attrLen = Len(L)
           /\ node.attrStart + node.attrLen <= Len(dom.attrs)
      BY <1>6
    <2>1. a \in 1 .. Len(dom.attrs) + 1 /\ b \in 0 .. Len(dom.attrs) /\ Len(dom.attrs) \in Nat
      BY <1>3, <2>10, <2>11
    <2>2. (a <= b => b - a + 1 = Len(L)) /\ (~ (a <= b) => Len(L) = 0)
      BY <1>3, <2>11
    <2>3. \A k \in 1 .. Len(L) : a + k - 1 = node.attrStart + k
      BY <1>3, <2>11
    <2> HIDE DEF a, b
    <2>4. /\ Len(SubSeq(dom.attrs, a, b)) = IF a <= b THEN b - a + 1 ELSE 0
          /\ \A k \in 1 .. Len(SubSeq(dom.attrs, a, b)) :
               SubSeq(dom.attrs, a, b)[k] = dom.attrs[a + k - 1]
      BY <1>2, <2>1, ListRun
    <2>5. raw = SubSeq(dom.attrs, a, b)
      BY <1>7 DEF a, b
    <2>6. Len(raw) = Len(L)
      BY <2>2, <2>4, <2>5
    <2> QED BY <2>3, <2>4, <2>5, <2>6
  <1>9. ASSUME NEW k \in 1 .. Len(L)
        PROVE  /\ AttrName(dom, raw[k]) = <<<<"name", keys[L[k]]>>>>
               /\ StrAt(dom, raw[k].value) = <<ValueOf(n, L[k])>>
    <2> DEFINE a == raw[k]
               key == keys[L[k]]
    <2>1. AttributeRead(dom.arena, a, key, n, L[k])
      BY <1>6, <1>8
    <2> HIDE DEF a, key
    <2>2. a.key = key /\ StrAt(dom, a.value) = <<ValueOf(n, L[k])>>
      BY <1>4, <2>1 DEF AttributeRead
    <2>3. CASE key \in Vocabulary
      BY <2>2, <2>3 DEF AttrName, a, key
    <2>4. CASE key \notin Vocabulary
      <3>1. Reads(dom.arena, a.name, <<<<"name", key>>>>)
        BY <2>1, <2>4 DEF AttributeRead, NameRead
      <3>2. StrAt(dom, a.name) = <<<<"name", key>>>>
        BY <1>4, <3>1
      <3> QED BY <2>2, <2>4, <3>2 DEF AttrName, a, key
    <2> QED BY <2>3, <2>4
  <1> QED BY <1>5, <1>8, <1>9 DEF AsWritten, raw, L, keys

\* A search below a node finds the first such element, or none if there is none.
LEMMA SearchIsFirst ==
  ASSUME ContentInv, NEW i \in 1 .. Len(dom.nodes), NEW K, K = KeptOf(document), NEW n, n = K[i]
  PROVE  /\ \A tag : Descendant(dom, i, tag) = FirstBelowOf(document, K, n, {tag})
         /\ \A tags : DescendantAny(dom, i, tags) = NONE <=> FirstBelowOf(document, K, n, tags) = NONE
  <1> DEFINE N == Len(dom.nodes)
             up == Ups(dom.nodes)
             sub == KeptBelow(document)
             Of(tags) == {k \in 1 .. Len(K) : BelowOf(document, n)[K[k]] /\ document[K[k]].tag \in tags}
  <1>1. /\ Linkage(dom.nodes, dom.lastChild) /\ Chained(dom.nodes, dom.lastChild)
        /\ IsList(K) /\ Len(K) = N /\ N \in Nat
    <2>1. IsDocument(document) /\ Len(dom.nodes) = Len(K)
      BY ContentFacts
    <2>2. IsList(K)
      BY <2>1, KeptIs
    <2> QED BY <2>1, <2>2 DEF ContentInv, DocumentInv, TreeInv, Sound, IsList
  <1>2. Preorder(up, N) /\ Subtrees(up, sub, N)
    BY NodesBelow
  <1>3. \A k \in 1 .. N : dom.nodes[k].tag = document[K[k]].tag
    BY DEF ContentInv, Contents, Holds
  <1>4. \A k \in 1 .. N : k \in sub[i] <=> BelowOf(document, n)[K[k]]
    BY <1>1 DEF KeptBelow
  <1>5. sub[i] \subseteq 1 .. N
    BY <1>2 DEF Subtrees
  <1> HIDE DEF sub
  <1>6. ASSUME NEW tags PROVE sub[i] \cap {k \in 1 .. N : dom.nodes[k].tag \in tags} = Of(tags)
    BY <1>1, <1>3, <1>4, <1>5
  <1>7. ASSUME NEW tags PROVE First(Of(tags), FirstBelowOf(document, K, n, tags))
    BY <1>1, FirstBelowIs
  <1>8. ASSUME NEW tag
        PROVE  Descendant(dom, i, tag) = FirstBelowOf(document, K, n, {tag})
    <2> DEFINE T == {k \in 1 .. N : dom.nodes[k].tag = tag}
    <2>1. First(sub[i] \cap T, Descendant(dom, i, tag))
      <3> HIDE DEF Of
      <3> QED BY <1>1, <1>2, DescendantIs
    <2>2. T = {k \in 1 .. N : dom.nodes[k].tag \in {tag}}
      OBVIOUS
    <2>3. sub[i] \cap T = Of({tag})
      BY <1>6, <2>2
    <2>4. Of({tag}) \subseteq Nat
      OBVIOUS
    <2> HIDE DEF T, Of
    <2> QED BY <1>7, <2>1, <2>3, <2>4, FirstIsOne
  <1>9. ASSUME NEW tags
        PROVE  DescendantAny(dom, i, tags) = NONE <=> FirstBelowOf(document, K, n, tags) = NONE
    <2> DEFINE T == {k \in 1 .. N : dom.nodes[k].tag \in tags}
    <2>1. DescendantAny(dom, i, tags) = NONE <=> sub[i] \cap T = {}
      <3> HIDE DEF Of
      <3> QED BY <1>1, <1>2, DescendantAnyIs
    <2>2. NONE \notin Of(tags)
      BY DEF NONE
    <2>3. sub[i] \cap T = Of(tags)
      BY <1>6
    <2> HIDE DEF T, Of
    <2>4. FirstBelowOf(document, K, n, tags) = NONE <=> Of(tags) = {}
      BY <1>7, <2>2 DEF First
    <2> QED BY <2>1, <2>3, <2>4
  <1> QED BY <1>8, <1>9

\* Whatever the document, what was written reads back, and a search finds the
\* first element there is (Element::name, attrs_raw, descendant).
THEOREM NavigationIsTrue == Spec => []NavigationReadsBack
  <1>1. ASSUME ContentInv PROVE NavigationReadsBack
    <2>1. ASSUME NEW i \in DOMAIN dom.nodes
          PROVE  LET element == document[Kept[i]]
                     listed == InOrder({n \in DOMAIN element.attributes : element.attributes[n] # "xmlns"},
                                       Len(element.attributes))
                 IN /\ Name(dom, i) = <<<<"name", document[Kept[i]].tag>>>>
                    /\ Len(AttrsRaw(dom, i)) = Len(listed)
                    /\ \A k \in DOMAIN listed :
                         LET a == AttrsRaw(dom, i)[k] IN
                         /\ AttrName(dom, a) = <<<<"name", element.attributes[listed[k]]>>>>
                         /\ StrAt(dom, a.value) = <<ValueOf(Kept[i], listed[k])>>
                    /\ \A tag \in {e.tag : e \in Elements} :
                         Descendant(dom, i, tag) = FirstBelowOf(document, Kept, Kept[i], {tag})
                    /\ \A tags \in SUBSET {e.tag : e \in Elements} :
                         (DescendantAny(dom, i, tags) = NONE)
                           <=> (FirstBelowOf(document, Kept, Kept[i], tags) = NONE)
      <3> DEFINE n == Kept[i]
                 keys == document[n].attributes
                 listed == InOrder({m \in DOMAIN keys : keys[m] # "xmlns"}, Len(keys))
      <3>1. IsList(dom.nodes)
        BY <1>1, ContentFacts DEF Sound, Linkage
      <3>2. i \in 1 .. Len(dom.nodes)
        BY <2>1, <3>1, ListDomain
      <3>3. n \in 1 .. Len(document) /\ Kept = KeptOf(document)
        BY <1>1, <3>2, KeptAgrees
      <3>4. DOMAIN keys = 1 .. Len(keys) /\ IsList(keys)
        <4>1. keys \in Seq(STRING)
          BY <1>1, <3>3, ContentFacts DEF Listing
        <4> QED BY <4>1, SeqIsList, ListDomain
      <3>5. listed = Listed(keys) /\ DOMAIN listed = 1 .. Len(Listed(keys))
        <4>1. listed = Listed(keys)
          BY <3>4 DEF Listed
        <4>2. IsList(Listed(keys))
          BY <3>4, ListedIs
        <4> QED BY <4>1, <4>2, ListDomain
      <3>6. AsWritten(i, n)
        BY <1>1, <3>2, <3>3, NamesReadBack
      <3>7. /\ \A tag : Descendant(dom, i, tag) = FirstBelowOf(document, Kept, n, {tag})
            /\ \A tags : DescendantAny(dom, i, tags) = NONE
                           <=> FirstBelowOf(document, Kept, n, tags) = NONE
        BY <1>1, <3>2, <3>3, SearchIsFirst
      <3>8. /\ Name(dom, i) = <<<<"name", document[n].tag>>>>
            /\ Len(AttrsRaw(dom, i)) = Len(listed)
            /\ \A k \in DOMAIN listed :
                 /\ AttrName(dom, AttrsRaw(dom, i)[k]) = <<<<"name", keys[listed[k]]>>>>
                 /\ StrAt(dom, AttrsRaw(dom, i)[k].value) = <<ValueOf(n, listed[k])>>
        <4> HIDE DEF listed
        <4> QED BY <3>5, <3>6 DEF AsWritten
      <3> QED BY <3>7, <3>8
    <2> QED BY <2>1 DEF NavigationReadsBack, FirstBelowOf, BelowOf
  <1> QED BY <1>1, ContentInit, ContentStep, PTL DEF Spec
===============================================================================
