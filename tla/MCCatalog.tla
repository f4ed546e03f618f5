------------------------------ MODULE MCCatalog ------------------------------
(***************************************************************************)
(* Product templates, product images and identifiers share no state.  One  *)
(* run checks the three side by side: a behaviour is one of                *)
(* TemplatesSpec, ImagesSpec or IdsSpec, with the rest at its start.       *)
(***************************************************************************)
EXTENDS ProductTemplates, ProductImages, Snowflake, TLC

vars == <<templateVars, imageVars, idVars>>

SamePictures == Permutations(Pictures)

MCInit == TemplatesInit /\ ImagesInit /\ IdsInit

MCNext ==
  \/ ImagesInit /\ IdsInit /\ TemplatesNext /\ UNCHANGED <<imageVars, idVars>>
  \/ TemplatesInit /\ IdsInit /\ ImagesNext /\ UNCHANGED <<templateVars, idVars>>
  \/ TemplatesInit /\ ImagesInit /\ IdsNext /\ UNCHANGED <<templateVars, imageVars>>

MCSpec == MCInit /\ [][MCNext]_vars
=============================================================================
