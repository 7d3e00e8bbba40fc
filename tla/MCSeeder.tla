------------------------------ MODULE MCSeeder ------------------------------
(* Model checking of Seeder: three seeds, of which two have a note.         *)
EXTENDS Seeder

ThreeSeeds == 3
SomeNoted  == {1, 3}
=============================================================================
