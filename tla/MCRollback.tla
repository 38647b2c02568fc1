---------------------------- MODULE MCRollback ----------------------------
(* The rehearsal of a rollback, with the versions as they are registered.  *)
EXTENDS Serving

MCFeatureSet == <<"v1", "v2", "v2">>
=============================================================================
