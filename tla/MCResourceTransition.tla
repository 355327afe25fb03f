------------------------- MODULE MCResourceTransition ------------------------
(* Two callers, so that transitions are owned, joined and refused; two      *)
(* compute sections, so that one can still run while another is admitted.    *)
EXTENDS ResourceTransition
=============================================================================
