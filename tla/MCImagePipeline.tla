-------------------------- MODULE MCImagePipeline --------------------------
(* A small instance of ImagePipeline for TLC: the Qt thread and one setter. *)
EXTENDS ImagePipeline

CONSTANT s1

MCSetters == {s1}
=============================================================================
