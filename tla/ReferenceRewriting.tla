------------------------- MODULE ReferenceRewriting -------------------------
(***************************************************************************)
(* Finding the rendering references of a document and writing their        *)
(* embedded replacements back over the same places: attributes, srcset     *)
(* candidates, and the urls in style attributes, SVG presentation          *)
(* attributes and style elements.                                          *)
(*                                                                         *)
(* A document is a sequence of places with text.  The text of a style is a *)
(* sequence of CSS tokens, that of a srcset a sequence of characters, and  *)
(* that of a plain attribute its value; a position is an index, a range    *)
(* the pair of its first and last index.  A value is a sequence too, so    *)
(* that values of every place compare.                                     *)
(***************************************************************************)
EXTENDS Integers, SequencesExt

CONSTANTS
    Tokens, MaxTokens,        \* of a style
    Characters, MaxCharacters, \* of a srcset
    Values,                   \* of plain attributes
    Maximum                   \* the limit on the references of a document

VARIABLES
    places,      \* the document: its places in tree order
    discovered,  \* the references found, or the error
    rewritten    \* the document after the rewrite

rewriteVars == <<places, discovered, rewritten>>

Token(type, value) == [type |-> type, value |-> value]
Span(i, j) == [first |-> i, last |-> j]
\* A reference a rewrite must leave alone.
IsLocal(value) == value = <<>> \/ value[1] = "#"

-----------------------------------------------------------------------------
(* CSS.  The scanner's state: for each open block whether its quoted        *)
(* strings are urls, whether an @import has just been seen, the url(        *)
(* function being read (0 when none is), and the references so far.         *)

Scanning == [blocks |-> <<FALSE>>, import |-> FALSE, url |-> 0, depth |-> 0, first |-> FALSE,
             value |-> <<>>, found |-> FALSE, refs |-> <<>>, count |-> 0, exceeded |-> FALSE]

CountsOneMore(scan, value, range, maximum) ==
    IF IsLocal(value) THEN [scan EXCEPT !.refs = Append(@, [value |-> value, range |-> range])]
    ELSE IF scan.count > maximum THEN [scan EXCEPT !.exceeded = TRUE]
    ELSE [scan EXCEPT !.refs = Append(@, [value |-> value, range |-> range]), !.count = @ + 1]

add_css_reference(scan, value, range, maximum) ==
    IF IsLocal(value) THEN [scan EXCEPT !.refs = Append(@, [value |-> value, range |-> range])]
    ELSE IF scan.count >= maximum THEN [scan EXCEPT !.exceeded = TRUE]
    ELSE [scan EXCEPT !.refs = Append(@, [value |-> value, range |-> range]), !.count = @ + 1]

CloseUrl(scan, i, maximum) ==
    LET ended == [scan EXCEPT !.url = 0, !.import = FALSE]
    IN IF scan.found THEN add_css_reference(ended, scan.value, Span(scan.url, i), maximum) ELSE ended

\* Inside url( ... ): the first token may be the value, the rest is skipped.
InsideUrl(scan, token, i, maximum) ==
    CASE token.type = "close" /\ scan.depth = 0 -> CloseUrl(scan, i, maximum)
      [] token.type = "close" -> [scan EXCEPT !.depth = @ - 1]
      [] token.type = "space" -> scan
      [] OTHER ->
           LET taken == scan.first /\ token.type \in {"string", "unquotedUrl"}
           IN [scan EXCEPT !.first = FALSE, !.found = taken \/ @,
                           !.value = IF taken THEN token.value ELSE @,
                           !.depth = IF token.type \in {"url", "imageSet", "function", "open"}
                                     THEN @ + 1 ELSE @]

collect_css_component(scan, token, i, maximum) ==
    LET strings == Last(scan.blocks)
        opens(urls) == [scan EXCEPT !.blocks = Append(@, urls), !.import = FALSE]
    IN CASE scan.exceeded -> scan
         [] scan.url # 0 -> InsideUrl(scan, token, i, maximum)
         [] token.type = "import" -> [scan EXCEPT !.import = TRUE]
         [] token.type = "space" -> scan
         [] \/ token.type = "unquotedUrl"
            \/ token.type = "string" /\ (scan.import \/ strings) ->
              [add_css_reference(scan, token.value, Span(i, i), maximum) EXCEPT !.import = FALSE]
         [] token.type = "url" -> [scan EXCEPT !.url = i, !.depth = 0, !.first = TRUE, !.found = FALSE]
         [] token.type = "imageSet" -> opens(TRUE)
         [] token.type = "function" -> opens(FALSE)
         [] token.type = "open" -> opens(strings)
         [] token.type = "close" /\ Len(scan.blocks) > 1 ->
              [scan EXCEPT !.blocks = Front(@), !.import = FALSE]
         [] OTHER -> [scan EXCEPT !.import = FALSE]

\* The end of the text closes what is still open.
css_references_bounded(css, maximum) ==
    LET read[i \in 0..Len(css)] ==
          IF i = 0 THEN Scanning ELSE collect_css_component(read[i - 1], css[i], i, maximum)
        last == read[Len(css)]
    IN IF last.url # 0 /\ ~last.exceeded THEN CloseUrl(last, Len(css), maximum) ELSE last

-----------------------------------------------------------------------------
(* srcset: skip blanks and commas, take the url up to a blank less its      *)
(* trailing commas, skip to the next comma outside parentheses.             *)

FirstFrom(s, i, Test(_)) ==
    LET hits == {j \in i..Len(s) : Test(s[j])} IN IF hits = {} THEN Len(s) + 1 ELSE Min(hits)

UrlEnd(s, start, stop) ==
    LET solid == {j \in start..(stop - 1) : s[j] # ","} IN IF solid = {} THEN start - 1 ELSE Max(solid)

Depth(s, from, to) ==
    LET deep[j \in (from - 1)..to] ==
          IF j < from THEN 0
          ELSE CASE s[j] = "(" -> deep[j - 1] + 1
                 [] s[j] = ")" /\ deep[j - 1] > 0 -> deep[j - 1] - 1
                 [] OTHER -> deep[j - 1]
    IN deep[to]

AfterDescriptors(s, from) ==
    LET commas == {j \in from..Len(s) : s[j] = "," /\ Depth(s, from, j) = 0}
    IN IF commas = {} THEN Len(s) + 1 ELSE Min(commas) + 1

RECURSIVE SrcsetFrom(_, _)
SrcsetFrom(s, position) ==
    LET start == FirstFrom(s, position, LAMBDA c : c \notin {" ", ","})
        stop == FirstFrom(s, start, LAMBDA c : c = " ")
        end == UrlEnd(s, start, stop)
        own == IF end < start THEN <<>>
               ELSE <<[value |-> SubSeq(s, start, end), range |-> Span(start, end)]>>
    IN IF start > Len(s) THEN <<>> ELSE own \o SrcsetFrom(s, AfterDescriptors(s, stop))

srcset_references_bounded(s, maximum) ==
    LET refs == SrcsetFrom(s, 1)
    IN [refs |-> refs, count |-> Len(refs), exceeded |-> Len(refs) > maximum]

-----------------------------------------------------------------------------
(* Documents.                                                              *)

\* What an attribute of an element renders, when it renders something.
direct_resource_role(kind) ==
    CASE kind = "img" -> "Image" [] kind = "iframe" -> "Frame" [] kind = "stylesheet" -> "Stylesheet"
      [] kind = "use" -> "Svg" [] kind \in {"preload", "anchor"} -> "none"

add_reference(value, fragmentIsLocal, maximum) ==
    LET skipped == value = <<>> \/ (fragmentIsLocal /\ value[1] = "#")
        count == IF skipped THEN 0 ELSE 1
    IN [refs |-> IF skipped THEN <<>> ELSE <<[value |-> value, range |-> Span(1, Len(value))]>>,
        count |-> count, exceeded |-> count > maximum]

\* The references of a style of the document that are not local to it.
add_css_references(css, maximum) ==
    LET found == css_references_bounded(css, maximum)
    IN [refs |-> SelectSeq(found.refs, LAMBDA r : ~IsLocal(r.value)),
        count |-> found.count, exceeded |-> found.exceeded]

\* A stylesheet on its own: an embedded one, or one a verifier decodes.
discover_css_resources_bounded(css, maximum) ==
    LET found == css_references_bounded(css, maximum)
    IN [found EXCEPT !.refs = SelectSeq(@, LAMBDA r : ~IsLocal(r.value))]

InPlace(place, maximum) ==
    CASE place.kind = "css" -> add_css_references(place.text, maximum)
      [] place.kind = "sheet" -> discover_css_resources_bounded(place.text, maximum)
      [] place.kind = "srcset" -> srcset_references_bounded(place.text, maximum)
      [] OTHER -> IF direct_resource_role(place.kind) = "none"
                  THEN [refs |-> <<>>, count |-> 0, exceeded |-> FALSE]
                  ELSE add_reference(place.text, place.kind = "use", maximum)

RECURSIVE FromPlace(_, _, _)
FromPlace(document, p, maximum) ==
    IF p > Len(document) THEN [ok |-> TRUE, refs |-> <<>>]
    ELSE LET own == InPlace(document[p], maximum)
             rest == FromPlace(document, p + 1, maximum - own.count)
         IN IF own.exceeded \/ ~rest.ok THEN [ok |-> FALSE, refs |-> <<>>]
            ELSE [ok |-> TRUE,
                  refs |-> [i \in DOMAIN own.refs |-> [place |-> p, value |-> own.refs[i].value,
                                                       range |-> own.refs[i].range]] \o rest.refs]

discover_document_resources_bounded(document, maximum) == FromPlace(document, 1, maximum)

-----------------------------------------------------------------------------
(* The rewrite.                                                            *)

ShiftedRanges(text, changes) ==
    FoldLeft(LAMBDA s, c : SubSeq(s, 1, c.range.first - 1) \o c.text \o SubSeq(s, c.range.last + 1, Len(s)),
             text, changes)

\* Ranges refer to the original text, in ascending order.
rewrite_ranges(text, changes) ==
    LET after(i) == IF i = 0 THEN 0 ELSE changes[i].range.last
        piece(i) == SubSeq(text, after(i - 1) + 1, changes[i].range.first - 1) \o changes[i].text
    IN FlattenSeq([i \in DOMAIN changes |-> piece(i)])
       \o SubSeq(text, after(Len(changes)) + 1, Len(text))

CssUrl(value) == <<Token("url", <<>>), Token("string", value), Token("close", <<>>)>>

\* The replacement of the n-th reference: a data url, whose text has a comma.
Replacement(n) == <<"d", ",", ToString(n)>>

RewritePlace(place, p, refs) ==
    LET own == {n \in DOMAIN refs : refs[n].place = p}
        order == SetToSortSeq(own, <)
        change(n) == [range |-> refs[n].range,
                      text |-> IF place.kind \in {"css", "sheet"} THEN CssUrl(Replacement(n)) ELSE Replacement(n)]
    IN [place EXCEPT !.text = rewrite_ranges(@, [i \in DOMAIN order |-> change(order[i])])]

rewrite(document, refs) ==
    [p \in DOMAIN document |-> RewritePlace(document[p], p, refs)]

-----------------------------------------------------------------------------
Place(kind, text) == [kind |-> kind, text |-> text]

\* A stylesheet, or a style or a srcset between two plain attributes.
RewritingInit ==
    /\ \/ \E css \in BoundedSeq(Tokens, MaxTokens) : places = <<Place("sheet", css)>>
       \/ \E value \in Values, after \in {"img", "use", "preload"},
             middle \in {Place("css", t) : t \in BoundedSeq(Tokens, MaxTokens)}
                        \cup {Place("srcset", s) : s \in BoundedSeq(Characters, MaxCharacters)} :
            places = <<Place("stylesheet", <<"s">>), middle, Place(after, value)>>
    /\ discovered = <<>>
    /\ rewritten = <<>>

Discover ==
    /\ discovered = <<>>
    /\ discovered' = <<discover_document_resources_bounded(places, Maximum)>>
    /\ UNCHANGED <<places, rewritten>>

Rewrite ==
    /\ discovered # <<>>
    /\ rewritten = <<>>
    /\ discovered[1].ok
    /\ rewritten' = rewrite(places, discovered[1].refs)
    /\ UNCHANGED <<places, discovered>>

RewritingNext == Discover \/ Rewrite

RewritingSpec == RewritingInit /\ [][RewritingNext]_rewriteVars

-----------------------------------------------------------------------------
Everything(document) == discover_document_resources_bounded(document, 1000)

(* The verifier finds in the rewritten document exactly the replacements, one
   for each reference, in the same places and order, whatever lies around them:
   imports, image sets, nested and unclosed functions, fragments, descriptors
   (DocumentResources::rewrite against discover_document_resources). *)
RewriteRoundTrips ==
    rewritten # <<>> =>
        LET before == discovered[1].refs
            again == Everything(rewritten).refs
        IN /\ Len(again) = Len(before)
           /\ \A n \in DOMAIN before :
                again[n].value = Replacement(n) /\ again[n].place = before[n].place

(* The limit counts references over all places together: discovery fails
   exactly when the document has more references than allowed
   (DiscoveryContext::remaining, add_css_reference). *)
LimitIsExact ==
    discovered # <<>> => (discovered[1].ok <=> Len(Everything(places).refs) <= Maximum)
=============================================================================
