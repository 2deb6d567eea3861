-------------------------- MODULE ArtifactEncoding --------------------------
(***************************************************************************)
(* From a rendered page to a verified HTML artifact: the collector's       *)
(* serialisation with its repair record, the safe-static transform, the    *)
(* encoder, the static verifier, the sandboxed variant, and the program    *)
(* that restores a repaired tree when the artifact is opened.              *)
(*                                                                         *)
(* A document is its head and its body, each a sequence of elements in     *)
(* document order.  An element has a kind, the place it hangs from (the    *)
(* head, the body, or the element just "before" it), the marker the        *)
(* collector gave it, and a payload: the document of a frame, the data of  *)
(* an embedded resource, the text of an owned program or record.  What     *)
(* writing HTML and reading it back does to a tree is Parse: an element    *)
(* that may not stand in a head ends the head; a block inside a paragraph  *)
(* ends the paragraph, leaves a stray one behind, and an open formatting   *)
(* element is opened again inside it, attributes included.                 *)
(***************************************************************************)
EXTENDS Integers, SequencesExt

CONSTANTS
    HeadKinds, BodyKinds,         \* what a page's head and body may hold
    FrameBodies,                  \* bodies of the documents in frames
    MaxHead, MaxBody,             \* elements of a page's head and body
    MAXIMUM_INLINE_FRAME_DEPTH,
    Resources                     \* what a page's resource references resolved to

VARIABLES
    stage,     \* where the capture is
    page,      \* the tree the browser showed
    document,  \* the tree (or the bytes, as the tree they spell) now
    manifest   \* the artifact manifest

encodingVars == <<stage, page, document, manifest>>

NoMarker == -1
Element(kind, in, of) == [kind |-> kind, in |-> in, marker |-> NoMarker, of |-> of]
\* Elements that end a head when they are read inside one.
Flow == {"flow", "p", "b", "div", "handler", "image", "frame", "svgScript"}
\* The collector's and the encoder's own elements.
ReservedIds == {"manifest", "repairData", "repairScript", "state"}

Nodes(d) == d.head \o d.body
Having(d, kinds) == SelectSeq(Nodes(d), LAMBDA n : n.kind \in kinds)
Without(d, Drops(_)) ==
    LET keeps(n) == ~Drops(n)
    IN [d EXCEPT !.head = SelectSeq(@, keeps), !.body = SelectSeq(@, keeps)]
OnNodes(d, Op(_)) ==
    [d EXCEPT !.head = [i \in DOMAIN @ |-> Op(@[i])], !.body = [i \in DOMAIN @ |-> Op(@[i])]]
AppendToHead(d, node) == [d EXCEPT !.head = Append(@, node)]

-----------------------------------------------------------------------------
(* Reading HTML back.                                                      *)

Reread(s, i) ==
    LET n == s[i]
        block == n.kind = "div" /\ n.in = "before"
        before == s[i - 1]
        stray == Element("p", "body", <<>>)
        unnested == [n EXCEPT !.in = "body"]
    IN IF block /\ before.kind = "p" THEN <<unnested, stray>>
       ELSE IF block /\ before.kind = "b" THEN <<unnested, before, stray>>
       ELSE IF n.in = "head" THEN <<unnested>> ELSE <<n>>

Parse(d) ==
    LET ends == {i \in DOMAIN d.head : d.head[i].kind \in Flow}
        kept == IF ends = {} THEN Len(d.head) ELSE Min(ends) - 1
        rest == SubSeq(d.head, kept + 1, Len(d.head)) \o d.body
    IN [d EXCEPT !.head = SubSeq(@, 1, kept),
                 !.body = FlattenSeq([i \in DOMAIN rest |-> Reread(rest, i)])]

-----------------------------------------------------------------------------
(* The collector, in every document.                                       *)

removeReservedMetadata(d) == Without(d, LAMBDA n : n.kind \in ReservedIds)

assignRepairMarkers(d) ==
    [d EXCEPT !.root = 0,
              !.head = [i \in DOMAIN @ |-> [@[i] EXCEPT !.marker = i]],
              !.body = [i \in DOMAIN @ |-> [@[i] EXCEPT !.marker = Len(d.head) + i]]]

RepairsOnlyStrict(d) == d.strict

\* A page that refuses detached parsing is taken to need repair.
requiresStructuralRepair(d) == d.strict \/ Parse(d) # d

\* The repair tree: which element hung from where.
RepairTree(d) ==
    LET place(n) == [marker |-> n.marker, in |-> n.in]
    IN [head |-> [i \in DOMAIN d.head |-> place(d.head[i])],
        body |-> [i \in DOMAIN d.body |-> place(d.body[i])]]

appendRepairData(d) == AppendToHead(d, Element("repairData", "head", <<RepairTree(d)>>))

serializeDocumentWithRepair(d) ==
    IF requiresStructuralRepair(d) THEN appendRepairData(assignRepairMarkers(d)) ELSE d

RECURSIVE collectDocument(_)
collectDocument(d) ==
    LET inline(n) == IF n.kind = "frame" THEN [n EXCEPT !.of = <<collectDocument(n.of[1])>>] ELSE n
    IN serializeDocumentWithRepair(OnNodes(removeReservedMetadata(d), inline))

-----------------------------------------------------------------------------
(* The safe-static transform.                                              *)

ensure_render_freeze_styles(d) ==
    IF \E i \in DOMAIN d.head : d.head[i].kind = "freeze" THEN d
    ELSE AppendToHead(d, Element("freeze", "head", <<>>))

\* What both sides call active: executable scripts, base URLs, refreshes, links
\* that fetch.
SafeStaticPolicy(n) ==
    n.kind \in {"script", "svgScript", "repairScript", "state", "base", "refresh", "trigger"}

KeepsBases(n) == SafeStaticPolicy(n) /\ n.kind # "base"

should_remove_element(n) == SafeStaticPolicy(n) \/ n.kind \in {"policy", "ownPolicy"}

sanitize_attributes(n) == IF n.kind = "handler" THEN [n EXCEPT !.kind = "flow"] ELSE n

sanitize_safe_static(d) == OnNodes(Without(d, should_remove_element), sanitize_attributes)

validate_repair_tree(tree) ==
    LET places == tree.head \o tree.body
    IN \A i, j \in DOMAIN places : places[i].marker = places[j].marker => i = j

apply_structural_repair(d) ==
    LET data == Having(d, {"repairData"})
        ready == Without(d, LAMBDA n : n.kind = "repairScript")
    IN CASE data = <<>> -> [ok |-> TRUE, repair |-> FALSE, doc |-> d]
         [] Len(data) = 1 /\ validate_repair_tree(data[1].of[1]) ->
              [ok |-> TRUE, repair |-> TRUE,
               doc |-> AppendToHead(ready, Element("repairScript", "head", <<>>))]
         [] OTHER -> [ok |-> FALSE, repair |-> FALSE, doc |-> d]

\* Frames first, each parsed, transformed and written back; then the document.
RECURSIVE transform_document_tree(_, _)
transform_document_tree(d, depth) ==
    LET parsed == Parse(d)
        child(n) == transform_document_tree(n.of[1], depth + 1)
        inline(n) == IF n.kind = "frame" THEN [n EXCEPT !.of = <<child(n).doc>>] ELSE n
        frames == ToSet(Having(parsed, {"frame"}))
        own == apply_structural_repair(
                 sanitize_safe_static(ensure_render_freeze_styles(OnNodes(parsed, inline))))
    IN IF depth > MAXIMUM_INLINE_FRAME_DEPTH \/ \E n \in frames : ~child(n).ok
       THEN [ok |-> FALSE, repair |-> FALSE, doc |-> d]
       ELSE [own EXCEPT !.repair = @ \/ \E n \in frames : child(n).repair]

-----------------------------------------------------------------------------
(* The encoder.                                                            *)

remove_existing_artifact_metadata(d) ==
    Without(d, LAMBDA n : n.kind \in {"manifest", "policy", "ownPolicy"})

\* The digests of the programs the policy lets run.
content_security_policy(m, restore) ==
    (IF restore THEN {"state"} ELSE {}) \cup (IF m.repair THEN {"repairScript"} ELSE {})

apply_state_restoration(d) ==
    AppendToHead(Without(d, LAMBDA n : n.kind = "state"), Element("state", "head", <<>>))

PrependPolicy(d, policy) == [d EXCEPT !.head = <<policy>> \o @]

encode_html_to(d, m) ==
    LET policy == Element("ownPolicy", "head", <<content_security_policy(m, TRUE)>>)
        scrolled == [remove_existing_artifact_metadata(d) EXCEPT !.scroll = m.scroll]
    IN apply_state_restoration(
         AppendToHead(PrependPolicy(scrolled, policy), Element("manifest", "head", <<m>>)))

-----------------------------------------------------------------------------
(* The static verifier.                                                    *)

\* Every document of the artifact, read back.
RECURSIVE Documents(_)
Documents(d) ==
    LET parsed == Parse(d)
        frames == Having(parsed, {"frame"})
    IN <<parsed>> \o FlattenSeq([i \in DOMAIN frames |-> Documents(frames[i].of[1])])

\* The resources a reference embeds: itself and what is nested in it.
RECURSIVE References(_)
References(r) == <<r>> \o FlattenSeq([i \in DOMAIN r.inner |-> References(r.inner[i])])

ResourcesOf(documents) ==
    LET own(d) == LET images == Having(d, {"image"})
                  IN FlattenSeq([i \in DOMAIN images |-> References(images[i].of[1])])
    IN FlattenSeq([i \in DOMAIN documents |-> own(documents[i])])

Count(s, Test(_)) == Len(SelectSeq(s, Test))

inspect_document(d) ==
    LET found == Having(d, {"manifest"})
    IN Len(found) = 1 /\ found[1] \in ToSet(d.head)

validate_resource_records(m) ==
    /\ m.discovered = Len(m.records)
    /\ m.embedded = Count(m.records, LAMBDA r : r.outcome = "embedded")
    /\ m.failed = Count(m.records, LAMBDA r : r.outcome = "failed")

validate_manifest(m) == validate_resource_records(m) /\ m.frames > 0

validate_csp(d, m, restore) ==
    LET policies == Having(d, {"ownPolicy"})
    IN /\ Len(policies) = 1
       /\ d.head[1] = policies[1]
       /\ policies[1].of[1] = content_security_policy(m, restore)

validate_active_content(d) ==
    \A n \in ToSet(Nodes(d)) :
        n.kind # "handler" /\ (SafeStaticPolicy(n) => n.kind \in {"repairScript", "state"})

validate_structural_repair(d, m) ==
    LET data == Having(d, {"repairData"})
        scripts == Having(d, {"repairScript"})
        nodes == Nodes(d)
    IN IF data = <<>> /\ scripts = <<>> THEN \A n \in ToSet(nodes) : n.marker = NoMarker
       ELSE /\ Len(data) = 1 /\ Len(scripts) = 1 /\ m.repair
            /\ data[1] \in ToSet(d.head) /\ scripts[1] \in ToSet(d.head)
            /\ validate_repair_tree(data[1].of[1])
            /\ \A i, j \in DOMAIN nodes :
                 (i # j /\ nodes[i].marker # NoMarker) => nodes[i].marker # nodes[j].marker
            /\ d.root = 0

validate_state_restoration(d, expected) ==
    LET scripts == Having(d, {"state"})
    IN /\ Len(scripts) = IF expected THEN 1 ELSE 0
       /\ ToSet(scripts) \subseteq ToSet(d.head)

is_empty_resource_fallback(data) == data = "empty"

\* Embedded bytes have a record each; what is left over are the fallbacks.
validate_embedded_resources(found, m) ==
    LET embedded(data) == Count(m.records, LAMBDA r : r.outcome = "embedded" /\ r.data = data)
        observed(data) == Count(found, LAMBDA r : r.data = data)
        all == {r.data : r \in ToSet(found) \cup ToSet(m.records)}
        left == {data \in all : observed(data) > embedded(data)}
    IN /\ \A data \in all : observed(data) >= embedded(data)
       /\ \A data \in left : is_empty_resource_fallback(data)
       /\ m.failed = Len(found) - m.embedded

validate_artifact_documents(d, m, restore) ==
    LET documents == Documents(d)
        found == ResourcesOf(documents)
        repaired == {i \in DOMAIN documents : Having(documents[i], {"repairData"}) # <<>>}
    IN /\ \A i \in DOMAIN documents :
            /\ validate_structural_repair(documents[i], m)
            /\ validate_state_restoration(documents[i], i = 1 /\ restore)
            /\ validate_active_content(documents[i])
       /\ documents[1].scroll = m.scroll
       /\ Len(documents) = m.frames
       /\ m.repair <=> repaired # {}
       /\ Len(found) = m.discovered
       /\ validate_embedded_resources(found, m)

verify_html(d, restore) ==
    LET parsed == Parse(d)
        m == Having(parsed, {"manifest"})[1].of[1]
    IN /\ inspect_document(parsed)
       /\ validate_manifest(m)
       /\ restore \/ ~m.repair
       /\ validate_csp(parsed, m, restore)
       /\ validate_artifact_documents(d, m, restore)

\* The variant for viewers that run no program at all.
encode_sandboxed_html(d) ==
    LET kept == Without(Parse(d), LAMBDA n : n.kind = "state")
        m == Having(kept, {"manifest"})[1].of[1]
        policy(n) == IF n.kind = "ownPolicy"
                     THEN [n EXCEPT !.of = <<content_security_policy(m, FALSE)>>] ELSE n
    IN OnNodes(kept, policy)

-----------------------------------------------------------------------------
(* Opening the artifact: the owned repair program rebuilds the tree.       *)

RESTORATION_SCRIPT(d) ==
    LET parsed == Parse(d)
        tree == Having(parsed, {"repairData"})[1].of[1]
        marked(marker) == SelectSeq(Nodes(parsed), LAMBDA n : n.marker = marker)
        build(places) ==
          FlattenSeq([i \in DOMAIN places |->
            LET found == marked(places[i].marker)
            IN IF found = <<>> THEN <<>>
               ELSE <<[found[1] EXCEPT !.in = places[i].in, !.marker = NoMarker]>>])
        owned == SelectSeq(parsed.head, LAMBDA n : n.kind \in ReservedIds \cup {"ownPolicy"})
    IN [parsed EXCEPT !.head = build(tree.head) \o owned, !.body = build(tree.body), !.root = NoMarker]

Open(d) ==
    LET parsed == Parse(d)
    IN IF Having(parsed, {"repairData"}) = <<>> THEN parsed ELSE RESTORATION_SCRIPT(d)

-----------------------------------------------------------------------------
(* The pages, and the steps of a capture.                                  *)

Spelled(kind, in) ==
    CASE kind = "misnested" -> <<Element("p", in, <<>>), Element("div", "before", <<>>)>>
      [] kind = "formatted" -> <<Element("p", in, <<>>), Element("b", "before", <<>>),
                                 Element("div", "before", <<>>)>>
      [] OTHER -> <<Element(kind, in, <<>>)>>

Tree(head, body, strict) ==
    [head |-> FlattenSeq([i \in DOMAIN head |-> Spelled(head[i], "head")]),
     body |-> FlattenSeq([i \in DOMAIN body |-> Spelled(body[i], "body")]),
     root |-> NoMarker, scroll |-> 0, strict |-> strict]

\* A page with its frames and resource references filled in.
Filled(d, framed, resource) ==
    OnNodes(d, LAMBDA n : CASE n.kind = "frame" -> [n EXCEPT !.of = <<framed>>]
                            [] n.kind = "image" -> [n EXCEPT !.of = <<resource>>]
                            [] OTHER -> n)

Pages ==
    {Filled(Tree(head, body, strict),
            Filled(Tree(frameHead, frameBody, FALSE), Tree(<<>>, <<>>, FALSE), resource), resource) :
        head \in BoundedSeq(HeadKinds, MaxHead), body \in BoundedSeq(BodyKinds, MaxBody),
        frameHead \in BoundedSeq(HeadKinds, 1), frameBody \in FrameBodies,
        strict \in BOOLEAN, resource \in Resources}

EncodingInit ==
    /\ page \in Pages
    /\ document = page
    /\ stage = "observed"
    /\ manifest = <<>>

Collect ==
    /\ stage = "observed"
    /\ document' = collectDocument(document)
    /\ stage' = "collected"
    /\ UNCHANGED <<page, manifest>>

Transform ==
    /\ stage = "collected"
    /\ LET result == transform_document_tree(document, 0)
           records == ResourcesOf(Documents(document))
       IN IF result.ok
          THEN /\ document' = result.doc
               /\ stage' = "transformed"
               /\ \E scroll \in {0, 1} :
                    manifest' = [repair |-> result.repair, frames |-> Len(Documents(document)),
                                 scroll |-> scroll, records |-> records, discovered |-> Len(records),
                                 embedded |-> Count(records, LAMBDA r : r.outcome = "embedded"),
                                 failed |-> Count(records, LAMBDA r : r.outcome = "failed")]
          ELSE stage' = "failed" /\ UNCHANGED <<document, manifest>>
    /\ UNCHANGED page

Encode ==
    /\ stage = "transformed"
    /\ document' = encode_html_to(document, manifest)
    /\ stage' = "encoded"
    /\ UNCHANGED <<page, manifest>>

Verify ==
    /\ stage = "encoded"
    /\ stage' = IF verify_html(document, TRUE) THEN "verified" ELSE "rejected"
    /\ UNCHANGED <<page, document, manifest>>

Sandbox ==
    /\ stage = "verified"
    /\ ~manifest.repair
    /\ document' = encode_sandboxed_html(document)
    /\ stage' = IF verify_html(document', FALSE) THEN "sandboxed" ELSE "rejected"
    /\ UNCHANGED <<page, manifest>>

EncodingNext == Collect \/ Transform \/ Encode \/ Verify \/ Sandbox

EncodingSpec == EncodingInit /\ [][EncodingNext]_encodingVars

-----------------------------------------------------------------------------
(* What the encoder owes the verifier and the reader.                      *)

(* Whatever tree the browser showed, with active elements anywhere, frames,
   failed resources, an earlier artifact's own elements, or a tree that HTML
   cannot spell: once the transform succeeds, the static verifier accepts what
   the encoder wrote, and accepts its sandboxed form too
   (encode_verified_artifact, encode_sandboxed_html). *)
EncodedVerifies == stage # "rejected"

(* A repaired artifact opens as the tree that was captured: after the owned
   program ran, the body holds the elements the browser showed, in their order
   and under their parents, but for those the sanitiser removes
   (RESTORATION_SCRIPT, serializeDocumentWithRepair). *)
ReopensAsCaptured ==
    LET safe == sanitize_safe_static(removeReservedMetadata(page))
        shape(s) == [i \in DOMAIN s |-> [kind |-> s[i].kind, in |-> s[i].in]]
    IN stage = "verified" => shape(Open(document).body) = shape(safe.body)
=============================================================================
