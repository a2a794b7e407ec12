------------------------ MODULE MCCriterionVerdicts ------------------------
(* CriterionVerdicts with the values of MCCriteria. *)
EXTENDS CriterionVerdicts, MCCriteria
=============================================================================
