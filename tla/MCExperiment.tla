---------------------------- MODULE MCExperiment ----------------------------
(* The run of FinalCampaign; the bounds are in the .cfg file.               *)
EXTENDS FinalCampaign
=============================================================================
