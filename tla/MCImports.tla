----------------------------- MODULE MCImports ------------------------------
EXTENDS Imports, TLC

\* Two counties, which share models and a table; two boxes of points of
\* interest, which share models; two files that share a table; and an edit of
\* the counties' table.
MCKind ==
    ("yolo" :> "fetch") @@ ("placer" :> "fetch")
    @@ ("poi_east" :> "fetch") @@ ("poi_west" :> "fetch")
    @@ ("tif" :> "raster") @@ ("dem" :> "raster") @@ ("fill" :> "edit")
MCModelOf ==
    ("yolo" :> "acs_block_group") @@ ("placer" :> "acs_block_group")
    @@ ("poi_east" :> "poi_raw") @@ ("poi_west" :> "poi_raw")
MCTableOf ==
    ("yolo" :> "acs_block_group") @@ ("placer" :> "acs_block_group")
    @@ ("poi_east" :> "poi_east") @@ ("poi_west" :> "poi_west")
    @@ ("tif" :> "raster_metadata") @@ ("dem" :> "raster_metadata")
    @@ ("fill" :> "acs_block_group")

=============================================================================
