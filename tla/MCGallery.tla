------------------------------ MODULE MCGallery ------------------------------
(* One listing with three images, an upload and two other requests at a time. *)
EXTENDS Gallery, TLC

Alike == Permutations(Ids) \cup Permutations(Slots)

=============================================================================
