---- MODULE MCEditorBinding ----
(* Instance of EditorBinding for TLC. *)
EXTENDS EditorBinding
====
