------------------------- MODULE MCCommunityVersion -------------------------
(* Small instances of CommunityVersion.                                    *)
EXTENDS CommunityVersion, TLC

CONSTANTS s1, s2, x1, x2, x3, g1, g2

\* Two rows of tables that have the trigger and a community_id, and a
\* friendship: friend_mappings has the trigger and no community_id.
Mirrored == x1 :> "users" @@ x2 :> "units" @@ x3 :> "friend_mappings"
=============================================================================
