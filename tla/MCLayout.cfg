\* Two dashboards on one edge of the canvas.
SPECIFICATION LayoutSpec
CONSTANTS
    Configs <- Pairs
    PageNumbers = {1, 2}
    CanvasSizes <- TwoCanvases
    Scales = {1, 2}
    Ships <- OneShip
    NoShip = NoShip
    NoPicture = NoPicture
    Nobody = Nobody
INVARIANTS
    InstrumentsApart
    TwoDashboardsApart
    ClickHitsPicture
