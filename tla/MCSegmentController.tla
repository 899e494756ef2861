------------------------ MODULE MCSegmentController ------------------------
(* Constants for model checking SegmentController.                             *)
EXTENDS SegmentController

(* A live timeline that grows by a segment.                                    *)
MCLive == <<2, 3>>
=============================================================================
