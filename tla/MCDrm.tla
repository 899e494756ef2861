-------------------------------- MODULE MCDrm --------------------------------
(* A track with two streams, and one with the data of the first.               *)
EXTENDS Drm

MCDataOf == <<{"d1", "d2"}, {"d1"}>>
MCContentOf == <<"c1", "c2">>
MCProtections == <<{"widevine", "playready"}, {"widevine"}>>

==============================================================================
