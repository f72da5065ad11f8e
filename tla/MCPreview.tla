------------------------------ MODULE MCPreview ------------------------------
(***************************************************************************)
(* UVCPreview for TLC.                                                     *)
(***************************************************************************)
EXTENDS UVCPreview, TLC

\* Frames are interchangeable: no action and no property names one of them.
Symmetry == Permutations(Frames)

(***************************************************************************)
(* A client that changes the callback or the window, or that starts the    *)
(* preview once more: not both, to keep the state space small.             *)
(***************************************************************************)
\* The second session has begun, or is about to.
Restarting == session > 1 \/ (session = 1 /\ ctl = "starting")

PipelineNext ==
    \/ \E w \in PreviewWindows \cup {None} : setPreviewDisplay(w)
    \/ startPreview /\ (session = 0 \/ sets = [callback |-> 0, display |-> 0])
    \/ stopPreview
    \/ SetterCall /\ ~Restarting
    \/ ThreadStep

PipelineSpec == Init /\ [][PipelineNext]_vars

(***************************************************************************)
(* A client that has set the preview window, starts the preview and never  *)
(* stops it, while other threads change the callback and the window.       *)
(***************************************************************************)
StreamInit == \E w \in PreviewWindows : InitWith(w)

StreamNext == startPreview \/ SetterCall \/ ThreadStep

StreamSpec == StreamInit /\ [][StreamNext]_vars /\ Fairness
==============================================================================
