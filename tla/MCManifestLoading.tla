------------------------- MODULE MCManifestLoading -------------------------
(* Two loads of the manifest and a request of another.                     *)
EXTENDS ManifestLoading

MCRequests == 1..3
MCLoads == 1..2
MCRetryAfters == {0, 1}
MCPlatforms == {"modern", "noReason", "none"}

=============================================================================
