---------------------------- MODULE MCDeployment ----------------------------
(* Model checking of Deployment: three seeds, of which two have a note.     *)
EXTENDS Deployment

ThreeSeeds == 3
SomeNoted  == {1, 3}
=============================================================================
