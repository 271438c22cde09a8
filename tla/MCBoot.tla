-------------------------------- MODULE MCBoot --------------------------------
(* TLC instance of Boot. *)
EXTENDS Boot

\* An older release without migrations, and one that adds two.
MCKnown == <<0, 2>>
MCReleases == DOMAIN MCKnown
=============================================================================
