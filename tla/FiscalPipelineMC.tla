-------------------------- MODULE FiscalPipelineMC --------------------------
(* Values for model checking FiscalPipeline. *)
EXTENDS FiscalPipeline

MCCopies == 1 .. 2
=============================================================================
