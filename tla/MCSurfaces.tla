----------------------------- MODULE MCSurfaces -----------------------------
(***************************************************************************)
(* What the surfaces of an editor draw: the preview or the diagrams of     *)
(* Rendering, or the comment highlights and blame colours of Decorations,  *)
(* by the kind of the document.                                            *)
(***************************************************************************)
EXTENDS Rendering, MCDecorations

SurfInit ==
    /\ RenderingInit /\ DecoInit
    /\ kind # "text" => ytext = << >>

SurfNext ==
    \/ RenderingNext /\ UNCHANGED decoVars
    \/ kind = "text" /\ DecoNext /\ UNCHANGED renderingVars

SurfSpec == SurfInit /\ [][SurfNext]_<<renderingVars, decoVars>> /\ WF_renderingVars(Progress)

=============================================================================
