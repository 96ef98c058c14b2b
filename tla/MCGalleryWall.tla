---------------------------- MODULE MCGalleryWall ----------------------------
(* MCGalleryWall.cfg: a wall of two planets and three uploads, so that the   *)
(* third fills the wall up.  MCGalleryWallLive.cfg: a browser without        *)
(* EventSource, which polls, gets three uploads, a browser with streams two. *)
(* One frame under way and one fetch per purpose are enough for every order  *)
(* of frames and answers.                                                    *)
EXTENDS GalleryWall
==============================================================================
