------------------------------- MODULE Layout -------------------------------
(***************************************************************************)
(* Where a frame puts the instruments on a canvas, and which of them a     *)
(* right click reaches.  The dashboards of the current page are drawn in   *)
(* the order of the configuration, each along its edge of the canvas, in   *)
(* as many rows or columns as it needs, or in a row at the own ship;       *)
(* dashboards of one edge are stacked by an offset that is passed on.      *)
(*                                                                         *)
(* A click goes by the places of the last frame that drew an instrument.   *)
(***************************************************************************)
EXTENDS Integers, Sequences

CONSTANTS
    Configs,      \* sequences of dashboards, the configurations considered
    PageNumbers,
    CanvasSizes,  \* the sizes of the canvas, pairs of a width and a height
    Scales,       \* content scale factors
    Ships,        \* where the own ship may be, in pixels
    NoShip,       \* its position is not known
    NoPicture,    \* in place of a size: the bitmap of the instrument is not valid
    Nobody        \* a click that reaches no instrument

Edges == {"top", "bottom", "left", "right"}

(* A dashboard: where it goes, and the sizes of its instruments.           *)
DashboardRecords ==
    [anchor : Edges \cup {"own_ship"}, page : PageNumbers,
     offset_x : Nat, offset_y : Nat, spacing_h : Nat, spacing_v : Nat,
     sizes : Seq((Nat \X Nat) \cup {NoPicture})]

ASSUME DashboardsAssumption ==
    /\ Configs \subseteq Seq(DashboardRecords)
    /\ CanvasSizes \subseteq Nat \X Nat
    /\ Scales \subseteq Nat \ {0}
    /\ Ships \subseteq Int \X Int
    /\ NoShip \notin Ships
    /\ NoPicture \notin Nat \X Nat
    /\ Nobody \notin Nat \X Nat

VARIABLES
    dashboards,  \* m_dashboards
    enabled,     \* the dashboards with m_enabled
    scale,       \* GetContentScaleFactor, ToPhys
    canvas,      \* the size of the viewport
    page,        \* the current page of the canvas
    ship,        \* where the own ship is on the canvas
    places,      \* m_x, m_y, m_width, m_height of each instrument
    drawn,       \* the instruments the last frame placed
    fresh        \* nothing changed since then

layout_vars ==
    <<dashboards, enabled, scale, canvas, page, ship, places, drawn, fresh>>

All == DOMAIN dashboards
Instruments == UNION {{<<d, i>> : i \in DOMAIN dashboards[d].sizes} : d \in All}

Rect(x, y, w, h) == [x |-> x, y |-> y, w |-> w, h |-> h]
Unplaced == Rect(0, 0, 0, 0)

LayoutInit ==
    /\ dashboards \in Configs
    /\ enabled = All
    /\ scale \in Scales
    /\ canvas \in CanvasSizes
    /\ page \in PageNumbers
    /\ ship \in Ships \cup {NoShip}
    /\ places = [di \in Instruments |-> Unplaced]
    /\ drawn = {}
    /\ fresh = FALSE

-----------------------------------------------------------------------------
(* One dashboard along an edge.                                            *)

ToPhys(x) == x * scale
Larger(a, b) == IF a > b THEN a ELSE b

AlongRows(dashboard) == dashboard.anchor \in {"top", "bottom"}
Width(size) == size[1] * scale
Height(size) == size[2] * scale

(* Where the drawing of a dashboard begins; "offset" is what the           *)
(* dashboards before it took of the edge.                                  *)
StartOfRows(dashboard, offset) ==
    [x |-> ToPhys(dashboard.offset_x), y |-> 0,
     start |-> IF dashboard.anchor = "top" THEN ToPhys(offset)
               ELSE canvas[2] - ToPhys(offset),
     row_offset |-> ToPhys(dashboard.offset_y), row_size |-> 0]
StartOfColumns(dashboard, offset) ==
    [x |-> 0, y |-> ToPhys(dashboard.offset_y),
     start |-> IF dashboard.anchor = "left"
               THEN ToPhys(dashboard.offset_x + offset)
               ELSE canvas[1] - ToPhys(dashboard.offset_x) - ToPhys(offset),
     row_offset |-> 0, row_size |-> 0]

(* An instrument that does not fit begins a new row.                       *)
NextRow(dashboard, at, size) ==
    IF at.x + Width(size) + ToPhys(dashboard.offset_x) > canvas[1]
    THEN [at EXCEPT !.x = ToPhys(dashboard.offset_x), !.row_size = 0,
                    !.row_offset = @ + at.row_size + ToPhys(dashboard.spacing_v)]
    ELSE at
(* Or a new column: on the left the start moves, on the right the offset   *)
(* grows.                                                                  *)
NextColumn(dashboard, at, size) ==
    LET step == at.row_size + ToPhys(dashboard.spacing_h)
        top == [at EXCEPT !.y = ToPhys(dashboard.offset_y), !.row_size = 0]
    IN  IF at.y + Height(size) + ToPhys(dashboard.offset_y) <= canvas[2] THEN at
        ELSE IF dashboard.anchor = "left" THEN [top EXCEPT !.start = @ + step]
        ELSE [top EXCEPT !.row_offset = @ + step]
Fitted(dashboard, at, size) ==
    IF AlongRows(dashboard) THEN NextRow(dashboard, at, size)
    ELSE NextColumn(dashboard, at, size)

RectAt(dashboard, at, size) ==
    LET w == Width(size)
        h == Height(size)
        x == at.start - at.row_offset - (IF dashboard.anchor = "right" THEN w ELSE 0)
        y == IF dashboard.anchor = "top" THEN at.start + at.row_offset
             ELSE at.start - at.row_offset - h
    IN  IF AlongRows(dashboard) THEN Rect(at.x, y, w, h) ELSE Rect(x, at.y, w, h)

(* Mutant: a column is as wide as its last instrument.                     *)
WidthOfLast(column, w) == w
WidthOf(column, w) == Larger(column.row_size, w)
Past(dashboard, at, size) ==
    IF AlongRows(dashboard)
    THEN [at EXCEPT !.row_size = Larger(@, Height(size)),
                    !.x = @ + Width(size) + dashboard.spacing_h]
    ELSE [at EXCEPT !.row_size = WidthOf(at, Width(size)),
                    !.y = @ + Height(size) + ToPhys(dashboard.spacing_v)]

(* The instruments one after the other; one without a picture takes no     *)
(* place.                                                                  *)
AlongEdge(dashboard, offset) ==
    LET at[i \in 0 .. Len(dashboard.sizes)] ==
            IF i = 0
            THEN IF AlongRows(dashboard) THEN StartOfRows(dashboard, offset)
                 ELSE StartOfColumns(dashboard, offset)
            ELSE LET size == dashboard.sizes[i]
                 IN  IF size = NoPicture THEN at[i - 1]
                     ELSE Past(dashboard, Fitted(dashboard, at[i - 1], size), size)
    IN  at
RectAlongEdge(dashboard, offset, i) ==
    LET size == dashboard.sizes[i]
    IN  RectAt(dashboard,
               Fitted(dashboard, AlongEdge(dashboard, offset)[i - 1], size), size)
(* What the next dashboard of the edge learns.                             *)
Extent(dashboard, offset) ==
    LET at == AlongEdge(dashboard, offset)[Len(dashboard.sizes)]
    IN  at.row_offset + at.row_size

-----------------------------------------------------------------------------
(* A dashboard in a row centred on the own ship, if that is on the canvas. *)

ShipOnCanvas ==
    /\ ship # NoShip
    /\ 0 <= ship[1] /\ ship[1] < canvas[1]
    /\ 0 <= ship[2] /\ ship[2] < canvas[2]

RowWidth(dashboard) ==
    LET width[i \in 0 .. Len(dashboard.sizes)] ==
            IF i = 0 THEN 0
            ELSE IF dashboard.sizes[i] = NoPicture THEN width[i - 1]
            ELSE Width(dashboard.sizes[i])
                    + (IF width[i - 1] > 0
                       THEN width[i - 1] + ToPhys(dashboard.spacing_h) ELSE 0)
    IN  width[Len(dashboard.sizes)]
AtShip(dashboard) ==
    LET x[i \in 0 .. Len(dashboard.sizes)] ==
            IF i = 0 THEN ship[1] - RowWidth(dashboard) \div 2
            ELSE IF dashboard.sizes[i] = NoPicture THEN x[i - 1]
            ELSE x[i - 1] + Width(dashboard.sizes[i]) + ToPhys(dashboard.spacing_h)
    IN  x
RectAtShip(dashboard, i) ==
    LET size == dashboard.sizes[i]
    IN  Rect(AtShip(dashboard)[i - 1], ship[2] - Height(size) \div 2,
             Width(size), Height(size))

-----------------------------------------------------------------------------
(* A frame.                                                                *)

(* Dashboard::Draw returns at once for the others.                         *)
OnPage(d) == d \in enabled /\ dashboards[d].page = page
Drawn(d) == OnPage(d) /\ (dashboards[d].anchor = "own_ship" => ShipOnCanvas)

(* Mutant: the offset of the edge is not passed on.                        *)
PassedNothing(offsets, anchor, extent) == offsets
(* The entry of the edge is read and set to zero before the dashboard is   *)
(* drawn, so what it took is all the next one learns.                      *)
PassedOn(offsets, anchor, extent) == [offsets EXCEPT ![anchor] = extent]

(* DashboardSK::Draw clears the offsets and draws one after the other.     *)
Offsets ==
    LET offsets[d \in 0 .. Len(dashboards)] ==
            IF d = 0 THEN [edge \in Edges |-> 0]
            ELSE LET dashboard == dashboards[d]
                     anchor == dashboard.anchor
                 IN  IF ~OnPage(d) \/ anchor = "own_ship" THEN offsets[d - 1]
                     ELSE PassedOn(offsets[d - 1], anchor,
                                   Extent(dashboard, offsets[d - 1][anchor]))
    IN  offsets

RectIn(offsets, di) ==
    LET dashboard == dashboards[di[1]]
    IN  IF dashboard.anchor = "own_ship" THEN RectAtShip(dashboard, di[2])
        ELSE RectAlongEdge(dashboard, offsets[di[1] - 1][dashboard.anchor], di[2])

DrawFrame ==
    LET offsets == Offsets
    IN  /\ drawn' = {di \in Instruments :
                        Drawn(di[1]) /\ dashboards[di[1]].sizes[di[2]] # NoPicture}
        /\ places' = [di \in Instruments |->
                            IF di \in drawn' THEN RectIn(offsets, di)
                            ELSE places[di]]
        /\ fresh' = TRUE
        /\ UNCHANGED <<dashboards, enabled, scale, canvas, page, ship>>

-----------------------------------------------------------------------------
(* What changes between frames.                                            *)

TurnTo(p) ==
    /\ page' = p
    /\ UNCHANGED <<dashboards, enabled, scale, canvas, ship>>
Resize(size) ==
    /\ canvas' = size
    /\ UNCHANGED <<dashboards, enabled, scale, page, ship>>
MoveShip(position) ==
    /\ ship' = position
    /\ UNCHANGED <<dashboards, enabled, scale, canvas, page>>
Enable(d) ==
    /\ enabled' = IF d \in enabled THEN enabled \ {d} ELSE enabled \cup {d}
    /\ UNCHANGED <<dashboards, scale, canvas, page, ship>>

LayoutNext ==
    \/ DrawFrame
    \/ /\ \/ \E p \in PageNumbers : TurnTo(p)
          \/ \E size \in CanvasSizes : Resize(size)
          \/ \E position \in Ships \cup {NoShip} : MoveShip(position)
          \/ \E d \in All : Enable(d)
       /\ fresh' = FALSE
       /\ UNCHANGED <<places, drawn>>

LayoutSpec == LayoutInit /\ [][LayoutNext]_layout_vars

-----------------------------------------------------------------------------
(* A right click.                                                          *)

(* Instrument::IsClicked: the right and the lower edge belong to it.       *)
IsClicked(rect, point) ==
    /\ rect.x <= point[1] /\ point[1] <= rect.x + rect.w
    /\ rect.y <= point[2] /\ point[2] <= rect.y + rect.h

(* Mutant: dashboards of other pages are clicked as well.                  *)
ListensOnAnyPage(d) == d \in enabled
Listens(d) == d \in enabled /\ dashboards[d].page = page

(* The first instrument of the first dashboard that has the point.         *)
Clickable(point) ==
    {di \in Instruments : Listens(di[1]) /\ IsClicked(places[di], point)}
ProcessMouseEvent(point) ==
    IF Clickable(point) = {} THEN Nobody
    ELSE CHOOSE di \in Clickable(point) :
            \A ej \in Clickable(point) :
                di[1] < ej[1] \/ (di[1] = ej[1] /\ di[2] <= ej[2])

-----------------------------------------------------------------------------
(* Properties.                                                             *)

Apart(r, s) ==
    \/ r.x + r.w <= s.x \/ s.x + s.w <= r.x
    \/ r.y + r.h <= s.y \/ s.y + s.h <= r.y

(* Instruments of one dashboard never overlap, however they wrap.          *)
InstrumentsApart ==
    fresh => \A di, ej \in drawn :
                di[1] = ej[1] /\ di # ej => Apart(places[di], places[ej])

OnEdge(d) == {e \in All : OnPage(e) /\ dashboards[e].anchor = dashboards[d].anchor}
OneColumn(d) ==
    \A di \in drawn : di[1] = d => places[di].x = ToPhys(dashboards[d].offset_x)

(* Nor do those of the first two dashboards of an edge, whatever each      *)
(* draws.  The third overlaps the second, as it does not learn what the    *)
(* first took; and on the left the second overlaps all but the last column *)
(* of the first, on either side it does if the first is further from the   *)
(* edge.                                                                   *)
TwoDashboardsApart ==
    fresh =>
        \A di, ej \in drawn :
            LET d == di[1]
                e == ej[1]
                edge == dashboards[d].anchor
            IN  /\ edge \in Edges
                /\ d < e /\ {f \in OnEdge(d) : f <= e} = {d, e}
                /\ edge = "left" => OneColumn(d)
                /\ edge \in {"left", "right"} =>
                    dashboards[d].offset_x <= dashboards[e].offset_x
                => Apart(places[di], places[ej])

(* A click reaches an instrument only where the last frame drew it.  Left  *)
(* out are what is drawn at the own ship when it has left the canvas, and  *)
(* bitmaps that are not valid: they stay where they were last.             *)
Points == {<<x, y>> : x \in 0 .. canvas[1], y \in 0 .. canvas[2]}
ClickHitsPicture ==
    fresh =>
        \A point \in Points :
            LET hit == ProcessMouseEvent(point)
            IN  \/ hit = Nobody
                \/ hit \in drawn
                \/ dashboards[hit[1]].anchor = "own_ship" /\ ~ShipOnCanvas
                \/ dashboards[hit[1]].sizes[hit[2]] = NoPicture

(* "Cumulative offsets from the edges. Increased as each dashboard is      *)
(* drawn": dashboards of one edge do not overlap.  The code refutes this.  *)
DashboardsApart ==
    fresh =>
        \A di, ej \in drawn :
            /\ dashboards[di[1]].anchor \in Edges
            /\ dashboards[di[1]].anchor = dashboards[ej[1]].anchor
            /\ di # ej
            => Apart(places[di], places[ej])
=============================================================================
