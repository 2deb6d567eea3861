------------------------- MODULE MCArtifactEncoding -------------------------
(***************************************************************************)
(* ArtifactEncoding on bodies with an element that HTML's parser reopens.  *)
(***************************************************************************)
EXTENDS ArtifactEncoding

MCFrameBodies == {<<"flow">>}
MCResources == {[outcome |-> "failed", data |-> "empty", inner |-> <<>>]}
=============================================================================
