--------------------------- MODULE MCFileStore ---------------------------
(* FileStore with three snapshots, which nothing tells apart. *)
EXTENDS FileStore, TLC

CONSTANTS s1, s2, s3

Three == {s1, s2, s3}
==========================================================================
