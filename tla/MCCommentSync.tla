---- MODULE MCCommentSync ----
(***************************************************************************)
(* One thread with one reply: keys of different threads never meet in      *)
(* _persist.  Two drains overlap; drains are interchangeable.  The thread  *)
(* is a suggestion, which can do all a plain comment can.                  *)
(***************************************************************************)
EXTENDS CommentSync
====
