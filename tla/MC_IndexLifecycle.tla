------------------------- MODULE MC_IndexLifecycle -------------------------
(***************************************************************************)
(* Three versions; version 2 has two manifests under one identity, one of  *)
(* them for production, so that registration conflicts and callers with    *)
(* the wrong manifest occur.  Two operators switch concurrently.           *)
(***************************************************************************)
EXTENDS IndexLifecycle

MCManifests == {<<1, "production">>, <<2, "production">>, <<2, "preview">>, <<3, "preview">>}
MCVersionOf(m) == m[1]
MCForProduction(m) == m[2] = "production"

=============================================================================
