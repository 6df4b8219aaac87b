---------------------------- MODULE MCDeployment ----------------------------
(***************************************************************************)
(* Small instances of the deployment for TLC: a release, one that slips a  *)
(* file in between, and one of another branch without the file a server    *)
(* looks for.                                                              *)
(***************************************************************************)
EXTENDS Deployment

File(n, content) == [number |-> n, content |-> content]

Main == {File(1, "a"), File(3, "a")}
Inserted == Main \cup {File(2, "a")}
Branch == {File(1, "a"), File(4, "a")}

Releases == {Main, Inserted, Branch}

=============================================================================
