------------------------------ MODULE MCLayout ------------------------------
(***************************************************************************)
(* Small instances of Layout.                                              *)
(***************************************************************************)
EXTENDS Layout

(* A flat and a tall instrument, two that need two rows or columns, and    *)
(* one that has no picture.                                                *)
SizeLists ==
    {<<<<2, 1>>>>, <<<<3, 1>>, <<1, 2>>, <<2, 2>>>>, <<NoPicture, <<1, 1>>>>}

Dashboard(anchor, p, offset, spacing, sizes) ==
    [anchor |-> anchor, page |-> p, offset_x |-> offset, offset_y |-> offset,
     spacing_h |-> spacing, spacing_v |-> spacing, sizes |-> sizes]

FirstDashboards ==
    {Dashboard(anchor, 1, offset, spacing, sizes) :
        anchor \in Edges \cup {"own_ship"}, offset \in {0, 1},
        spacing \in {0, 1}, sizes \in SizeLists}
SecondDashboards(anchor) ==
    {Dashboard(anchor, p, offset, 0, sizes) :
        p \in PageNumbers, offset \in {0, 1}, sizes \in SizeLists}

(* Two dashboards on the same edge, of one page or of two.                 *)
Pairs ==
    UNION {{<<first, second>> : second \in SecondDashboards(first.anchor)} :
                first \in FirstDashboards}

TwoCanvases == {<<4, 4>>, <<3, 6>>}
OneShip == {<<2, 2>>, <<9, 2>>}
=============================================================================
