---------------------------- MODULE MCEditorInit ----------------------------
(* Three documents: two shared ones on different transports and types, and *)
(* one of the same type without collaboration; and a type with no binding. *)
EXTENDS EditorInit

SmallConfigs ==
    {[room |-> "r1", mime |-> "text/markdown", transport |-> "websocket"],
     [room |-> "r2", mime |-> "text/jsx", transport |-> "socketio"],
     [room |-> None, mime |-> "text/jsx", transport |-> "websocket"],
     [room |-> "r1", mime |-> "text/unknown", transport |-> "websocket"]}
=============================================================================
