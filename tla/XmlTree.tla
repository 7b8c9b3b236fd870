-------------------------------- MODULE XmlTree --------------------------------
(***************************************************************************)
(* The element tree of xtce-model (xml.rs): `Dom::run` reads the events of *)
(* an XML reader and fills flat vectors of nodes and attributes, linked by *)
(* index, with every name, value and text in one shared arena.  Whole      *)
(* sections are skipped while they are read.                               *)
(*                                                                         *)
(* The reader, quick-xml, is external: it is the variables `document`, the *)
(* elements it has met, and `inside`, those it is in.  It checks that end  *)
(* tags match, and the code leaves it to the reader whether a document may *)
(* stop before they have all come.  Nodes are numbered from 1; a string in *)
(* the arena is a sequence of pieces, each named by what it was written    *)
(* for.  Entities are expanded by what they stand for: one more piece.     *)
(***************************************************************************)
EXTENDS Naturals, FiniteSets, SequencesExt, Ordering

CONSTANTS
  Elements,     \* start tags: [tag, attributes], a sequence of attribute keys
  Vocabulary,   \* tags and keys with a symbol of their own
  Sections,     \* tags of the sections nothing reads
  MaxElements, MaxTexts

ASSUME ElementsAssumption == \A e \in Elements : e.attributes \in Seq(STRING)

VARIABLES
  dom,          \* the tree so far
  open,         \* ancestors of the element being filled
  skipping,     \* depth below a skipped section, 0 outside
  scratch,      \* character data since the last tag
  outcome,      \* "reading", "ok" or an error
  document, inside
vars == <<dom, open, skipping, scratch, outcome, document, inside>>
reader == <<document, inside>>

NONE == 0
EmptySpan == [start |-> 0, len |-> 0]

\* push_text, get(..).unwrap_or_default() and str_at.
Span(d, text) == [start |-> Len(d.arena), len |-> Len(text)]
PushText(d, text) == [d EXCEPT !.arena = @ \o text]
Slice(list, start, len) ==
  IF start + len <= Len(list) THEN SubSeq(list, start + 1, start + len) ELSE <<>>
StrAt(d, span) == Slice(d.arena, span.start, span.len)

\* A name that has a symbol is not kept in the arena.
NameSpan(d, name) == IF name \in Vocabulary THEN EmptySpan ELSE Span(d, <<<<"name", name>>>>)
PushName(d, name) ==
  IF name \in Vocabulary THEN d ELSE PushText(d, <<<<"name", name>>>>)

\* Mutant: the last child is not brought up to date.
LinkedStale(d, index, parent) ==
  LET previous == d.lastChild[parent]
  IN [d EXCEPT
        !.nodes = IF previous = NONE
                  THEN [@ EXCEPT ![parent].firstChild = index]
                  ELSE [@ EXCEPT ![previous].nextSibling = index],
        !.lastChild[parent] = IF previous = NONE THEN index ELSE @]

\* push_node: the new node is appended to its parent's children in one step,
\* for the last of them is at hand.
Linked(d, index, parent) ==
  LET previous == d.lastChild[parent]
  IN [d EXCEPT
        !.nodes = IF previous = NONE
                  THEN [@ EXCEPT ![parent].firstChild = index]
                  ELSE [@ EXCEPT ![previous].nextSibling = index],
        !.lastChild[parent] = index]
PushNode(d, tag, parent) ==
  LET index == Len(d.nodes) + 1
      node  == [tag |-> tag, name |-> NameSpan(d, tag), parent |-> parent,
                firstChild |-> NONE, nextSibling |-> NONE,
                attrStart |-> Len(d.attrs), attrLen |-> 0,
                text |-> EmptySpan, hasText |-> FALSE]
      pushed == [PushName(d, tag) EXCEPT !.nodes = Append(@, node),
                                         !.lastChild = Append(@, NONE)]
  IN IF parent = NONE THEN pushed ELSE Linked(pushed, index, parent)

\* push_attributes: the declarations of namespaces are not kept.
ValueOf(element, n) == <<"value", element, n>>
PushAttribute(d, element, key, n) ==
  IF key = "xmlns" THEN d
  ELSE LET named == PushName(d, key)
           value == <<ValueOf(element, n)>>
       IN [PushText(named, value) EXCEPT
             !.attrs = Append(@, [key |-> key, name |-> NameSpan(d, key),
                                  value |-> Span(named, value)])]
Filled(d, element, keys) ==
  LET Upto[n \in 0 .. Len(keys)] ==
        IF n = 0 THEN d ELSE PushAttribute(Upto[n - 1], element, keys[n], n)
  IN Upto[Len(keys)]

\* Mutant: the length counts the declarations too.
PushAttributesAll(d, element, keys) ==
  LET filled == Filled(d, element, keys)
  IN [d EXCEPT
        !.arena = filled.arena,
        !.attrs = filled.attrs,
        !.nodes[Len(d.nodes)] = [@ EXCEPT !.attrStart = Len(d.attrs), !.attrLen = Len(keys)]]

PushAttributes(d, element, keys) ==
  LET filled == Filled(d, element, keys)
  IN [d EXCEPT
        !.arena = filled.arena,
        !.attrs = filled.attrs,
        !.nodes[Len(d.nodes)] = [@ EXCEPT !.attrStart = Len(d.attrs),
                                          !.attrLen   = Len(filled.attrs) - Len(d.attrs)]]

\* open_element, for a tag that is not a skipped section; the namespace of the
\* document is the one bound on its root.
Attributed(keys) == "bad" \notin ToSet(keys)
OpenElement(d, e, parent) ==
  LET number == Len(document) + 1
      filled == PushAttributes(PushNode(d, e.tag, parent), number, e.attributes)
  IN IF d.nodes = <<>> THEN [filled EXCEPT !.xmlns = "xmlns" \in ToSet(e.attributes)]
     ELSE filled

-------------------------------------------------------------------------------
\* What the reader has seen of the document: a list of elements, each with its
\* parent in the list, the pieces of its character data, and whether any of
\* this is to be kept.
Enclosing == IF inside = <<>> THEN NONE ELSE Last(inside)
Met(e) ==
  Append(document,
         [tag |-> e.tag, attributes |-> e.attributes, parent |-> Enclosing, texts |-> <<>>,
          closed |-> FALSE,
          kept |-> e.tag \notin Sections
                     /\ (Enclosing # NONE => document[Enclosing].kept)])
Closed(list, n) == [list EXCEPT ![n].closed = TRUE]

Init ==
  /\ dom = [nodes |-> <<>>, lastChild |-> <<>>, attrs |-> <<>>, arena |-> <<>>,
            skipped |-> <<>>, xmlns |-> FALSE]
  /\ open = <<>>
  /\ skipping = 0
  /\ scratch = <<>>
  /\ outcome = "reading"
  /\ document = <<>>
  /\ inside = <<>>

\* One document element, whatever it holds.
MayOpen == /\ outcome = "reading"
           /\ inside = <<>> => document = <<>>
           /\ Len(document) < MaxElements

Parent == IF open = <<>> THEN NONE ELSE Last(open)

\* Mutant: elements below a skipped section are not counted.
StartSkippedUncounted(e) ==
  /\ MayOpen
  /\ skipping > 0
  /\ document' = Met(e)
  /\ inside' = Append(inside, Len(document) + 1)
  /\ UNCHANGED <<dom, open, skipping, scratch, outcome>>

\* Event::Start.
StartSkipped(e) ==
  /\ MayOpen
  /\ skipping > 0
  /\ skipping' = skipping + 1
  /\ document' = Met(e)
  /\ inside' = Append(inside, Len(document) + 1)
  /\ UNCHANGED <<dom, open, scratch, outcome>>
StartSection(e) ==
  /\ MayOpen
  /\ skipping = 0
  /\ e.tag \in Sections
  /\ dom' = [dom EXCEPT !.skipped = Append(@, e.tag)]
  /\ skipping' = 1
  /\ scratch' = <<>>
  /\ document' = Met(e)
  /\ inside' = Append(inside, Len(document) + 1)
  /\ UNCHANGED <<open, outcome>>
StartElement(e) ==
  /\ MayOpen
  /\ skipping = 0
  /\ e.tag \notin Sections
  /\ Attributed(e.attributes)
  /\ dom' = OpenElement(dom, e, Parent)
  /\ open' = Append(open, Len(dom.nodes) + 1)
  /\ scratch' = <<>>
  /\ document' = Met(e)
  /\ inside' = Append(inside, Len(document) + 1)
  /\ UNCHANGED <<skipping, outcome>>

\* Event::Empty: nothing is opened and the character data is kept.
EmptyElement(e) ==
  /\ MayOpen
  /\ \/ skipping > 0 /\ UNCHANGED dom
     \/ /\ skipping = 0
        /\ e.tag \in Sections
        /\ dom' = [dom EXCEPT !.skipped = Append(@, e.tag)]
     \/ /\ skipping = 0
        /\ e.tag \notin Sections
        /\ Attributed(e.attributes)
        /\ dom' = OpenElement(dom, e, Parent)
  /\ document' = Closed(Met(e), Len(document) + 1)
  /\ UNCHANGED <<open, skipping, scratch, outcome, inside>>

\* Event::End.
Blank(text) == \A i \in DOMAIN text : text[i][4] = "blank"
EndSkipped ==
  /\ outcome = "reading" /\ inside # <<>>
  /\ skipping > 0
  /\ skipping' = skipping - 1
  /\ UNCHANGED <<dom, open, scratch>>

\* Mutant: the end of an element leaves its character data behind.
EndElementKeeping ==
  /\ outcome = "reading" /\ inside # <<>>
  /\ skipping = 0
  /\ dom' = IF open = <<>> \/ Blank(scratch) THEN dom
            ELSE [PushText(dom, scratch) EXCEPT
                    !.nodes[Last(open)] =
                      [@ EXCEPT !.text = Span(dom, scratch), !.hasText = TRUE]]
  /\ open' = IF open = <<>> THEN open ELSE Front(open)
  /\ UNCHANGED <<skipping, scratch>>

EndElement ==
  /\ outcome = "reading" /\ inside # <<>>
  /\ skipping = 0
  /\ dom' = IF open = <<>> \/ Blank(scratch) THEN dom
            ELSE [PushText(dom, scratch) EXCEPT
                    !.nodes[Last(open)] =
                      [@ EXCEPT !.text = Span(dom, scratch), !.hasText = TRUE]]
  /\ open' = IF open = <<>> THEN open ELSE Front(open)
  /\ scratch' = <<>>
  /\ UNCHANGED skipping
End ==
  /\ EndSkipped \/ EndElement
  /\ document' = Closed(document, Last(inside))
  /\ inside' = Front(inside)
  /\ UNCHANGED outcome

\* Event::Text, Event::CData and Event::GeneralRef.  Between two tags the
\* reader may deliver several of them, a blank one only by CDATA or reference.
Texts == FoldLeft(LAMBDA n, e : n + Len(e.texts), 0, document)
Characters(kind) ==
  /\ outcome = "reading"
  /\ Texts < MaxTexts
  /\ inside # <<>>
  /\ LET n == Len(document[Last(inside)].texts) + 1
         piece == <<"text", Last(inside), n, kind>>
     IN /\ document' = [document EXCEPT ![Last(inside)].texts = Append(@, piece)]
        /\ scratch' = IF skipping > 0 \/ open = <<>> THEN scratch ELSE Append(scratch, piece)
  /\ UNCHANGED <<dom, open, skipping, outcome, inside>>

\* Event::Eof: the code does not look at `open`.
Eof ==
  /\ outcome = "reading"
  /\ outcome' = IF dom.nodes = <<>> THEN "EmptyDocument" ELSE "ok"
  /\ UNCHANGED <<dom, open, skipping, scratch, reader>>

\* A document the reader refuses, an attribute it refuses, text that does not
\* decode: the tree is dropped.
BadAttribute(e) ==
  /\ MayOpen
  /\ skipping = 0
  /\ e.tag \notin Sections
  /\ ~ Attributed(e.attributes)
  /\ outcome' = "error"
  /\ UNCHANGED <<dom, open, skipping, scratch, reader>>
BadInput ==
  /\ outcome = "reading"
  /\ outcome' = "error"
  /\ UNCHANGED <<dom, open, skipping, scratch, reader>>

Next ==
  \/ \E e \in Elements : \/ StartSkipped(e)
                         \/ StartSection(e)
                         \/ StartElement(e)
                         \/ EmptyElement(e)
                         \/ BadAttribute(e)
  \/ End
  \/ \E kind \in {"word", "blank"} : Characters(kind)
  \/ Eof
  \/ BadInput

Spec == Init /\ [][Next]_vars

-------------------------------------------------------------------------------
(***************************************************************************)
(* Navigation, on which the loader rests.                                  *)
(***************************************************************************)
\* Children: the iterator follows the siblings.
Children(d, i) ==
  LET From[n \in 0 .. Len(d.nodes)] ==
        IF n = NONE THEN <<>> ELSE <<n>> \o From[d.nodes[n].nextSibling]
  IN From[d.nodes[i].firstChild]
FirstIn(seq, Found(_)) ==
  LET n == SelectInSeq(seq, Found) IN IF n = 0 THEN NONE ELSE seq[n]

\* Element::descendant and descendant_any: depth first; the second looks
\* through all children before it descends into one.
Descendant(d, i, tag) ==
  LET Below[n \in 1 .. Len(d.nodes)] ==
        LET Hit[k \in DOMAIN Children(d, n)] ==
              LET c == Children(d, n)[k]
              IN IF d.nodes[c].tag = tag THEN c ELSE Below[c]
            first == SelectInSeq(Hit, LAMBDA h : h # NONE)
        IN IF first = 0 THEN NONE ELSE Hit[first]
  IN Below[i]
DescendantAny(d, i, tags) ==
  LET Below[n \in 1 .. Len(d.nodes)] ==
        LET here == FirstIn(Children(d, n), LAMBDA c : d.nodes[c].tag \in tags)
            Hit[k \in DOMAIN Children(d, n)] == Below[Children(d, n)[k]]
            first == SelectInSeq(Hit, LAMBDA h : h # NONE)
        IN IF here # NONE THEN here
           ELSE IF first = 0 THEN NONE ELSE Hit[first]
  IN Below[i]

\* Element::name, attrs_raw, attr_name, attr and text; trimmed, a text loses
\* the blank pieces at its ends.
Name(d, i) ==
  IF d.nodes[i].tag \in Vocabulary THEN <<<<"name", d.nodes[i].tag>>>>
  ELSE StrAt(d, d.nodes[i].name)
AttrsRaw(d, i) == Slice(d.attrs, d.nodes[i].attrStart, d.nodes[i].attrLen)
AttrName(d, a) ==
  IF a.key \in Vocabulary THEN <<<<"name", a.key>>>> ELSE StrAt(d, a.name)
Trimmed(text) ==
  LET solid(piece) == piece[4] # "blank"
      first == SelectInSeq(text, solid)
  IN IF first = 0 THEN <<>> ELSE SubSeq(text, first, SelectLastInSeq(text, solid))
Text(d, i) ==
  IF d.nodes[i].hasText THEN {Trimmed(StrAt(d, d.nodes[i].text))} ELSE {}

-------------------------------------------------------------------------------
\* The elements to keep, in the order of the document, the place of one in
\* that order, and the sections that are skipped from there.
Kept == InOrder({n \in DOMAIN document : document[n].kept}, Len(document))
NodeFor(n) == IF n = NONE THEN NONE ELSE CHOOSE i \in DOMAIN Kept : Kept[i] = n
IsSkippedSection(e) ==
  e.tag \in Sections /\ (e.parent # NONE => document[e.parent].kept)
SkippedSections ==
  InOrder({n \in DOMAIN document : IsSkippedSection(document[n])}, Len(document))

\* The arena is the document without its skipped sections: a node for every
\* element outside them, in order, whose parent and children are those of the
\* element, although a node is linked before its siblings are read; the
\* sections skipped are listed, each once and in order.
ArenaIsDocument ==
  LET keep     == Kept
      sections == SkippedSections
  IN
  /\ Len(dom.nodes) = Len(keep)
  /\ \A i \in DOMAIN keep :
       /\ dom.nodes[i].parent = NodeFor(document[keep[i]].parent)
       /\ Children(dom, i) =
            InOrder({k \in DOMAIN keep : document[keep[k]].parent = keep[i]}, Len(keep))
  /\ dom.skipped = [i \in DOMAIN sections |-> document[sections[i]].tag]

\* Reading and navigating both end in the right place.  The code's two counts
\* of nesting agree with the reader's, so a skipped section is left exactly
\* where it ends, and every open element is in the tree.  Every link of a node
\* is to one that stands where the link says: a parent before it, a child or
\* sibling behind it, so that following links never comes back.
Later(n) == {NONE} \cup n + 1 .. Len(dom.nodes)
LinksGoForward ==
  /\ Len(open) + skipping = Len(inside)
  /\ \A i \in DOMAIN open : open[i] \in DOMAIN dom.nodes
  /\ \A n \in DOMAIN dom.nodes :
       /\ dom.nodes[n].parent \in 0 .. n - 1
       /\ dom.nodes[n].firstChild \in Later(n)
       /\ dom.nodes[n].nextSibling \in Later(n)

\* No element has the text of another, or of a skipped section: what it has is
\* a run of its own.  One that encloses no element has all of that, unless it
\* is blank.
Runs(text) == {SubSeq(text, a, b) : a \in 1 .. Len(text) + 1, b \in 0 .. Len(text)}
TextIsOwn ==
  \A i \in DOMAIN dom.nodes :
    LET element == document[Kept[i]] IN
    /\ Text(dom, i) \subseteq Runs(element.texts)
    /\ element.closed /\ (\A e \in ToSet(document) : e.parent # Kept[i]) =>
         Text(dom, i) = {t \in {Trimmed(element.texts)} : t # <<>>}

\* Names and attributes read back as written, from spans of the shared
\* arena, and a search below an element finds the first such element of the
\* document, or none if there is none.
NavigationReadsBack ==
  \A i \in DOMAIN dom.nodes :
    LET element == document[Kept[i]]
        listed  == InOrder({n \in DOMAIN element.attributes : element.attributes[n] # "xmlns"},
                           Len(element.attributes))
        Named(n) == <<<<"name", document[n].tag>>>>
        Under[n \in DOMAIN document] ==
          document[n].parent # NONE
            /\ (document[n].parent = Kept[i] \/ Under[document[n].parent])
        FirstBelow(tags) ==
          FirstIn([k \in DOMAIN Kept |-> k],
                  LAMBDA k : Under[Kept[k]] /\ document[Kept[k]].tag \in tags)
    IN /\ Name(dom, i) = Named(Kept[i])
       /\ Len(AttrsRaw(dom, i)) = Len(listed)
       /\ \A k \in DOMAIN listed :
            LET a == AttrsRaw(dom, i)[k] IN
            /\ AttrName(dom, a) = <<<<"name", element.attributes[listed[k]]>>>>
            /\ StrAt(dom, a.value) = <<ValueOf(Kept[i], listed[k])>>
       /\ \A tag \in {e.tag : e \in Elements} :
            Descendant(dom, i, tag) = FirstBelow({tag})
       /\ \A tags \in SUBSET {e.tag : e \in Elements} :
            (DescendantAny(dom, i, tags) = NONE) <=> (FirstBelow(tags) = NONE)
===============================================================================
