--------------------------- MODULE MCHeaderDryRun ---------------------------
(* The dry run and the real run on MCHeaderTool's tree.                    *)
EXTENDS HeaderDryRun, MCHeaderTool
=============================================================================
