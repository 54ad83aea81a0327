---------------------------- MODULE MCGitHubSync ----------------------------
(* GitHubSync with one metadata job and one account job, for TLC.          *)
EXTENDS GitHubSync, TLC

CONSTANTS Releases, Repositories   \* the ids that GitHub may list

OneOfEach   == [j \in Job |-> IF j = 1 THEN "metadata" ELSE "account"]
ItemsOfEach == [j \in Job |-> IF j = 1 THEN Releases ELSE Repositories]

(* Which id is which makes no difference to the walk and its properties.   *)
Ids == Permutations(Releases) \cup Permutations(Repositories)
=============================================================================
