------------------------- MODULE MCBlogLikeReadings -------------------------
(* A small instance of BlogLikeReadings for TLC. *)
EXTENDS MCBlogLike, BlogLikeReadings
=============================================================================
