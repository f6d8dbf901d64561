--------------------------- MODULE MCUsersManager ---------------------------
(* Three nodes whose ids are not in the order of the pipeline, connected as  *)
(* a chain, as a fork, and as a triangle where two ways lead to the last.    *)
EXTENDS UsersManager

MCUser == 1 .. 3
MCGraph == {{<<2, 1>>, <<1, 3>>}, {<<2, 1>>, <<2, 3>>},
            {<<2, 1>>, <<1, 3>>, <<2, 3>>}}
MCPreReleases == {1, 2}
=============================================================================
