------------------------ MODULE MCParticipantEpisodes ------------------------
(* Small instances of ParticipantEpisodes for TLC. *)
EXTENDS ParticipantEpisodes

TwoReasons == {"completed", "interrupted"}
=============================================================================
