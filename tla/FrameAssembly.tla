--------------------------- MODULE FrameAssembly ---------------------------
(***************************************************************************)
(* How a captured page is put together from its frames.  A frame is either *)
(* inline (same process, snapshotted by its parent's collector) or         *)
(* attached (a browser target with a session of its own).  The pipeline    *)
(* numbers the attached frames, observes every session deepest first,      *)
(* drops the frames whose owner element the collector pruned (selector,    *)
(* selection or hidden-element removal), renders children before parents   *)
(* and numbers the inline frames while it renders; the verifier of the     *)
(* artifact then checks the numbering.                                     *)
(*                                                                         *)
(* Frame 1 is the top document; siblings are in document order.            *)
(***************************************************************************)
EXTENDS Integers, FiniteSets, Sequences, SequencesExt

CONSTANTS
    Frames,        \* 1..n
    frame_limit,   \* limits.frames
    depth_limit    \* limits.frame_depth

VARIABLES
    owner,         \* the frame whose document holds the element of a frame
    attached,      \* the frames that are targets of their own
    pruned,        \* the frames whose element is not in the parent's clone
    descriptors,   \* Vec<FrameDescriptor>
    assembly,      \* the phase of the capture
    todo,          \* descriptors still to observe or to render, in order
    frames,        \* budget.frames(), later the manifest's frame count
    next_frame_id,
    rendered       \* session -> frame elements of its serialized document

assemblyVars == <<owner, attached, pruned, descriptors, assembly, todo,
                  frames, next_frame_id, rendered>>

OwnDocument(f) == f = 1 \/ f \in attached

\* The session that snapshots frame f: its own, or that of its owner.
SessionOf(f) ==
    LET session[g \in DOMAIN owner \cup {1}] == IF OwnDocument(g) THEN g ELSE session[owner[g]]
    IN  session[f]

Siblings(f) == {g \in DOMAIN owner : owner[g] = owner[f] /\ g < f}

\* Positions of owner elements, from the document of the parent session down
\* to the element of f, before and after the collector pruned its clones.
OwnerPath(f, gone) ==
    LET path[g \in DOMAIN owner] ==
            LET index == <<Cardinality(Siblings(g) \ gone)>>
            IN  IF OwnDocument(owner[g]) THEN index ELSE path[owner[g]] \o index
    IN  path[f]

\* The element of f is still in the snapshot of the session that owns it.
Retained(f) ==
    LET kept[g \in DOMAIN owner] ==
            g \notin pruned /\ (OwnDocument(owner[g]) \/ kept[owner[g]])
    IN  kept[f]

Unmapped(s) ==
    {[original_path |-> OwnerPath(f, {}), retained_path |-> OwnerPath(f, {})] :
        f \in {g \in DOMAIN owner : SessionOf(owner[g]) = s /\ Retained(g)}}

\* frameOwnerMappings: the owner elements left in the snapshot of a session.
FrameOwners(s) ==
    {[original_path |-> OwnerPath(f, {}), retained_path |-> OwnerPath(f, pruned)] :
        f \in {g \in DOMAIN owner : SessionOf(owner[g]) = s /\ Retained(g)}}

InlineFrames(s) == {f \in DOMAIN owner : f \notin attached /\ SessionOf(f) = s}

DepthOf(f) ==
    LET depth[g \in DOMAIN owner \cup {1}] == IF g = 1 THEN 0 ELSE depth[owner[g]] + 1 IN depth[f]

\* The element found by following a path of indexes in the pruned documents.
ElementAt(s, path) ==
    {f \in DOMAIN owner : /\ SessionOf(owner[f]) = s
                          /\ Retained(f)
                          /\ OwnerPath(f, pruned) = path}

Before(p, q) ==
    \/ Len(p) < Len(q) /\ p = SubSeq(q, 1, Len(p))
    \/ \E i \in DOMAIN p \cap DOMAIN q :
          p[i] < q[i] /\ \A j \in 1..(i - 1) : p[j] = q[j]

DeepestFirst(d, e) ==
    d.depth > e.depth \/ (d.depth = e.depth /\ d.frame_id < e.frame_id)

ShallowestFirst(d, e) ==
    d.depth < e.depth \/ (d.depth = e.depth /\ d.frame_id < e.frame_id)

CollectionOrder(ds) == SetToSortSeq(Range(ds), DeepestFirst)

Described == {d.frame : d \in Range(descriptors)}

DescriptorOf(f) == CHOOSE d \in Range(descriptors) : d.frame = f

AssemblyInit ==
    /\ owner \in UNION {{o \in [2..n -> Frames] : \A f \in 2..n : o[f] < f} : n \in Frames}
    /\ attached \in SUBSET DOMAIN owner
    /\ pruned \in SUBSET DOMAIN owner
    /\ descriptors = <<[frame |-> 1, frame_id |-> 1, depth |-> 0, owner_path |-> <<>>]>>
    /\ assembly = IF Cardinality(attached) > frame_limit - 1 THEN "limit" ELSE "describe"
    /\ todo = <<>>
    /\ frames = 0
    /\ next_frame_id = 0
    /\ rendered = <<>>

Input == UNCHANGED <<owner, attached, pruned>>

\* One round of the loop: the attached frames whose parent session is known,
\* by parent identifier and owner path, get the next identifiers.
describe_frames ==
    LET ready == {f \in attached \ Described : SessionOf(owner[f]) \in Described}
        Parent(f) == DescriptorOf(SessionOf(owner[f]))
        Order(f, g) ==
            \/ Parent(f).frame_id < Parent(g).frame_id
            \/ Parent(f) = Parent(g) /\ Before(OwnerPath(f, {}), OwnerPath(g, {}))
        sorted == SetToSortSeq(ready, Order)
        Descriptor(i) ==
            LET f == sorted[i]
            IN  [frame |-> f, frame_id |-> Len(descriptors) + i,
                 depth |-> Parent(f).depth + Len(OwnerPath(f, {})),
                 owner_path |-> OwnerPath(f, {})]
        found == [i \in DOMAIN sorted |-> Descriptor(i)]
    IN  /\ assembly = "describe"
        /\ descriptors' = descriptors \o found
        /\ CASE \E i \in DOMAIN found : found[i].depth > depth_limit ->
                    assembly' = "limit" /\ todo' = todo
             [] ready = {} ->
                    assembly' = "observe" /\ todo' = CollectionOrder(descriptors)
             [] OTHER -> UNCHANGED <<assembly, todo>>
        /\ Input /\ UNCHANGED <<frames, next_frame_id, rendered>>

\* CaptureBudget: the limit admits so many frames more.
add_frames(count) == frames + count <= frame_limit

\* The collector snapshots a session with its inline frames, including those
\* whose element it prunes afterwards; the budget counts them all.
observe_frame ==
    LET s == Head(todo).frame
        observed == Cardinality(InlineFrames(s)) + 1
        refused == \/ ~add_frames(observed)
                   \/ \E f \in InlineFrames(s) : DepthOf(f) > depth_limit
    IN  /\ assembly = "observe" /\ todo # <<>>
        /\ IF refused
             THEN assembly' = "limit" /\ UNCHANGED <<todo, frames>>
             ELSE /\ frames' = frames + observed
                  /\ todo' = Tail(todo)
                  /\ UNCHANGED assembly
        /\ Input /\ UNCHANGED <<descriptors, next_frame_id, rendered>>

FirstFreeIgnoringTop(retained) == Len(retained)

\* The inline frames are numbered after the retained descriptors.
FirstInlineFrameId(retained) == Len(retained) + 1

\* A descriptor stays when its parent stays and the parent's observation still
\* maps its owner element; identifier and depth are kept, the path is remapped.
retain_observed_frame_descriptors ==
    LET Keep(kept, d) ==
            LET s == SessionOf(owner[d.frame])
                found == {m \in FrameOwners(s) : m.original_path = d.owner_path}
            IN  IF found # {} /\ \E e \in Range(kept) : e.frame = s
                  THEN Append(kept, [d EXCEPT !.owner_path =
                                       (CHOOSE m \in found : TRUE).retained_path])
                  ELSE kept
        candidates == SetToSortSeq(Range(Tail(descriptors)), ShallowestFirst)
        retained == FoldLeft(Keep, <<descriptors[1]>>, candidates)
    IN  /\ assembly = "observe" /\ todo = <<>>
        /\ descriptors' = retained
        /\ todo' = CollectionOrder(retained)
        /\ next_frame_id' = FirstInlineFrameId(retained)
        /\ assembly' = "render"
        /\ Input /\ UNCHANGED <<frames, rendered>>

\* The rendered document of child d, and the identifier it gives its element.
embed_captured_frame_at_path(s, d) ==
    rendered[d.frame] \cup
        {[element |-> f, frame_id |-> d.frame_id, document |-> d.frame] : f \in ElementAt(s, d.owner_path)}

\* The inline frames left in a document, in its order, take the next numbers.
replace_inline_frame(inline) ==
    {[element |-> inline[i], frame_id |-> next_frame_id + i - 1, document |-> inline[i]] : i \in DOMAIN inline}

\* embed_child_frames puts the rendered children into their owner elements;
\* render_frame_document numbers the inline frames that are left.
render_frame ==
    LET s == Head(todo).frame
        children == {d \in Range(descriptors) : d.frame # 1 /\ SessionOf(owner[d.frame]) = s}
        inline == SetToSeq({f \in InlineFrames(s) : Retained(f)})
        missing == \/ \E d \in children : d.frame \notin DOMAIN rendered
                   \/ \E d \in children : ElementAt(s, d.owner_path) = {}
        embedded == UNION {embed_captured_frame_at_path(s, d) : d \in children}
    IN  /\ assembly = "render" /\ todo # <<>>
        /\ IF missing
             THEN assembly' = "missing" /\ UNCHANGED <<todo, next_frame_id, rendered>>
             ELSE /\ rendered' = (s :> (embedded \cup replace_inline_frame(inline))) @@ rendered
                  /\ next_frame_id' = next_frame_id + Len(inline)
                  /\ todo' = Tail(todo)
                  /\ assembly' = IF Len(todo) = 1 THEN "captured" ELSE assembly
        /\ Input /\ UNCHANGED <<descriptors, frames>>

\* validate_artifact_documents: as many frames as the manifest says, numbered
\* 2 to that count without a gap or a duplicate.
collect_frames(elements, manifest_frames) ==
    /\ Cardinality(elements) + 1 = manifest_frames
    /\ {e.frame_id : e \in elements} = 2..manifest_frames

AssemblyNext ==
    \/ describe_frames
    \/ observe_frame
    \/ retain_observed_frame_descriptors
    \/ render_frame

AssemblySpec == AssemblyInit /\ [][AssemblyNext]_assemblyVars

\* The count of frames stays within its limit, and no number exceeds it.
AssemblyTypeOK ==
    /\ assembly \in {"describe", "observe", "render", "captured", "limit", "missing"}
    /\ frames \in 0..frame_limit
    /\ \A d \in Range(descriptors) : d.frame_id \in 1..Cardinality(Frames)
    /\ DOMAIN rendered \subseteq Frames

\* A frame is rendered before the document that embeds it, whatever mixture of
\* inline and attached frames the page is and whatever was pruned, and its
\* content lands in its own owner element: the positions that the collector
\* remaps after pruning lead back to the element the browser named
\* (embed_child_frames, frameOwnerMappings).
FramesInPlace ==
    /\ assembly # "missing"
    /\ \A s \in DOMAIN rendered : \A e \in rendered[s] : e.element = e.document

\* The artifact of a page of which nothing was pruned passes the verifier's
\* frame checks: the count the budget kept while observing and the numbers
\* given while describing and while rendering agree (next_frame_id,
\* validate_artifact_documents).
WholePageVerifies ==
    assembly = "captured" /\ pruned = {} => collect_frames(rendered[1], frames)

\* The same for a capture narrowed by a selector, a selection or the removal of
\* hidden elements.  The code does not keep this: pruned frames stay in the
\* count, and the numbers of the frames that are left are not closed up.
NarrowedPageVerifies ==
    assembly = "captured" => collect_frames(rendered[1], frames)
=============================================================================
