----------------------------- MODULE MCBlogLike -----------------------------
(* Small instances of BlogLike for TLC. *)
EXTENDS BlogLike, TLC

CONSTANTS u1, u2, b1, b2, i1, i2, d1, d2, d3

\* No data from before the counter; every blog has one like of nobody in Redis.
NoOldLikes == [b \in Blogs |-> {}]
NoOldCount == [b \in Blogs |-> Absent]
OneOldLiked == [b \in Blogs |-> 1]

\* Likes and a count from an older version.
SomeOldLikes == [b \in Blogs |-> {u1}]
SomeOldCount == [b \in Blogs |-> IF b = b1 THEN 1 ELSE Absent]

BatchSymmetry == Permutations({d1, d2, d3})
InstanceSymmetry == BatchSymmetry \cup Permutations({i1, i2})
=============================================================================
