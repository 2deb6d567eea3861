--------------------------- MODULE FrameGeometry ----------------------------
(***************************************************************************)
(* Where a piece of a frame is on the screen, and where a frame hangs in   *)
(* the documents of its parent (chromium/src/page/visual_fallback.rs,      *)
(* page/frame_owner.rs, capture_visual_fallback in page.rs).               *)
(*                                                                         *)
(* Sessions are nested: session 0 is the one that holds the fallback, and  *)
(* session Depth is the page.  Lengths are integers and one axis stands    *)
(* for both.  A frame element is placed at left in its parent document,    *)
(* inside a border, and scaled.                                            *)
(***************************************************************************)
EXTENDS Integers, FiniteSets, Sequences

CONSTANTS Depth,                   \* how many sessions enclose the fallback
          Positions, Widths,       \* of the fallback in its document
          Lefts, Borders, Scales,  \* of the frame elements
          Viewports, DocumentWidth, \* of the documents
          VIEWPORT_EPSILON, MAXIMUM_SCREENSHOT_PIXELS,
          TreeFrames               \* frames of the parent session, as numbers

Sessions == 0..Depth

VARIABLES rect,      \* the rectangle as position and width, in document coordinates
          visible,   \* the same in the viewport it was last scrolled into
          session, geometryStep,
          scrolled,  \* the scroll position of each session's document
          attached,  \* the frames still attached
          placement, \* what frame_owner_placement measured
          layout,    \* the page: elements, viewports, the fallback
          ownerPath  \* the frame tree, one frame, and the path computed for it

geometryVars == <<rect, visible, session, geometryStep, scrolled, attached, placement, layout, ownerPath>>

Larger(a, b) == IF a > b THEN a ELSE b
Smaller(a, b) == IF a < b THEN a ELSE b
ScrollRange(s) == 0..Larger(0, DocumentWidth - layout.viewport[s])

-----------------------------------------------------------------------------
(* The frame tree: parent 0 is the root document; frames are numbered in   *)
(* document order, so siblings are numbered as querySelectorAll lists them.*)

Trees == {parent \in [TreeFrames -> TreeFrames \cup {0}] : \A f \in TreeFrames : parent[f] < f}

DepthIn(parent) ==
    LET depth[f \in TreeFrames \cup {0}] == IF f = 0 THEN 0 ELSE depth[parent[f]] + 1 IN depth

\* The walk of frame_depth_in_tree: the depth of a frame below the root.
frame_depth_in_tree(parent, f) == DepthIn(parent)[f]

owner_index(parent, f) == Cardinality({g \in TreeFrames : parent[g] = parent[f] /\ g < f})

\* The function run in the isolated world: from the owner element upwards.
PathFrom(parent) ==
    LET path[f \in TreeFrames \cup {0}] ==
            IF f = 0 THEN <<>> ELSE Append(path[parent[f]], owner_index(parent, f))
    IN path

FollowPath(parent, path) ==
    LET child(d, i) == CHOOSE g \in TreeFrames : parent[g] = d /\ owner_index(parent, g) = i
        at[n \in 0..Len(path)] == IF n = 0 THEN 0 ELSE child(at[n - 1], path[n])
    IN at[Len(path)]

\* The owner element of a child session is one of the parent's frames: the
\* path has one index per level between the root document and that element.
frame_owner_path(parent, owner) ==
    LET path == PathFrom(parent)[owner]
        path_depth == frame_depth_in_tree(parent, parent[owner]) + 1
    IN IF Len(path) = path_depth THEN path ELSE <<-1>>

-----------------------------------------------------------------------------
Layouts == [position : Positions, width : Widths, left : [1..Depth -> Lefts],
            border : [1..Depth -> Borders], scale : [1..Depth -> Scales],
            viewport : [Sessions -> Viewports]]

\* Either a fallback is to be captured or a path to be found.
GeometryInit ==
    /\ \/ /\ geometryStep = "scroll" /\ layout \in Layouts
          /\ ownerPath = [tree |-> [f \in TreeFrames |-> 0], owner |-> 1, path |-> <<-2>>]
       \/ /\ geometryStep = "path"
          /\ layout = CHOOSE l \in Layouts : TRUE
          /\ ownerPath \in [tree : Trees, owner : TreeFrames, path : {<<-2>>}]
    /\ rect = [x |-> layout.position, width |-> layout.width]
    /\ visible = rect /\ session = 0
    /\ scrolled = [s \in Sessions |-> 0] /\ attached = 1..Depth
    /\ placement = [x |-> 0, scale |-> 1, scroll |-> 0]

geometryRest == <<attached, layout, ownerPath>>

\* The page's own script may have scrolled a document before.
ScrollTarget(s) ==
    LET centred == rect.x - Larger(0, (layout.viewport[s] - rect.width) \div 2)
    IN Smaller(Larger(0, centred), Larger(0, DocumentWidth - layout.viewport[s]))

\* scroll_document_rect in an isolated world of the session's root frame.
scroll_document_rect ==
    /\ geometryStep = "scroll"
    /\ scrolled' = [scrolled EXCEPT ![session] = ScrollTarget(session)]
    /\ visible' = [rect EXCEPT !.x = @ - ScrollTarget(session)]
    /\ geometryStep' =
           IF \/ visible'.x < -VIEWPORT_EPSILON
              \/ visible'.x + visible'.width > layout.viewport[session] + VIEWPORT_EPSILON
           THEN "refused"
           ELSE IF session = Depth THEN "clip" ELSE "owner"
    /\ UNCHANGED <<rect, session, placement, geometryRest>>

DetachGeometryFrame(f) ==
    /\ f \in attached /\ geometryStep \in {"scroll", "owner"}
    /\ attached' = attached \ {f}
    /\ UNCHANGED <<rect, visible, session, geometryStep, scrolled, placement, layout, ownerPath>>

\* The element of the frame is scrolled into view, wherever the browser puts
\* it, and measured in its parent's viewport.
frame_owner_placement ==
    /\ geometryStep = "owner"
    /\ IF session + 1 \notin attached
       THEN geometryStep' = "refused" /\ UNCHANGED <<scrolled, placement>>
       ELSE \E scroll \in ScrollRange(session + 1) :
                LET f == session + 1
                IN /\ scrolled' = [scrolled EXCEPT ![f] = scroll]
                   /\ placement' = [x |-> layout.left[f] - scroll + layout.border[f] * layout.scale[f],
                                    scale |-> layout.scale[f], scroll |-> scroll]
                   /\ geometryStep' = "place"
    /\ UNCHANGED <<rect, visible, session, geometryRest>>

PlaceUnscrolled ==
    /\ geometryStep = "place"
    /\ rect' = [x |-> placement.x + visible.x * placement.scale,
                width |-> visible.width * placement.scale]
    /\ session' = session + 1 /\ geometryStep' = "scroll"
    /\ UNCHANGED <<visible, scrolled, placement, geometryRest>>

\* The rectangle in the coordinates of the parent document.
PlaceRect ==
    /\ geometryStep = "place"
    /\ rect' = [x |-> placement.x + visible.x * placement.scale + placement.scroll,
                width |-> visible.width * placement.scale]
    /\ session' = session + 1 /\ geometryStep' = "scroll"
    /\ UNCHANGED <<visible, scrolled, placement, geometryRest>>

\* capture_visual_fallback: the clip is limited before the screenshot is taken.
CaptureClip ==
    /\ geometryStep = "clip"
    /\ geometryStep' = IF visible.width * visible.width > MAXIMUM_SCREENSHOT_PIXELS
                       THEN "refused" ELSE "captured"
    /\ UNCHANGED <<rect, visible, session, scrolled, placement, geometryRest>>

FindOwnerPath ==
    /\ geometryStep = "path" /\ ownerPath.path = <<-2>>
    /\ ownerPath' = [ownerPath EXCEPT !.path = frame_owner_path(ownerPath.tree, ownerPath.owner)]
    /\ UNCHANGED <<rect, visible, session, geometryStep, scrolled, attached, placement, layout>>

GeometryNext ==
    \/ scroll_document_rect \/ frame_owner_placement \/ PlaceRect \/ CaptureClip \/ FindOwnerPath
    \/ \E f \in 1..Depth : DetachGeometryFrame(f)

GeometrySpec == GeometryInit /\ [][GeometryNext]_geometryVars

-----------------------------------------------------------------------------
\* Where the fallback is on the screen, from the layout and the scroll
\* positions the page has in the end.
OnScreen ==
    LET at[s \in Sessions] ==
            IF s = 0 THEN layout.position - scrolled[0]
            ELSE layout.left[s] - scrolled[s] + (layout.border[s] + at[s - 1]) * layout.scale[s]
    IN at[Depth]

\* The clip of the screenshot is where the fallback is, wholly inside the
\* viewport: scrolling an outer document after an inner one was measured, and
\* scaling on every level, are both accounted for.
ClipIsOnScreen ==
    geometryStep = "captured" =>
        /\ visible.x = OnScreen
        /\ visible.x >= -VIEWPORT_EPSILON
        /\ visible.x + visible.width <= layout.viewport[Depth] + VIEWPORT_EPSILON

\* The path of a frame leads from the root document of the parent session to
\* the very element that owns it.
PathLeadsToOwner ==
    ownerPath.path # <<-2>> =>
        ownerPath.path # <<-1>> /\ FollowPath(ownerPath.tree, ownerPath.path) = ownerPath.owner
=============================================================================
