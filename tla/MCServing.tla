------------------------------ MODULE MCServing ------------------------------
(***************************************************************************)
(* Small instances of Serving: two revisions, the configuration changed    *)
(* within its size and the shard in size too; the base model has the first *)
(* configuration.                                                          *)
(***************************************************************************)
EXTENDS Serving, TLC

TwoFiles    == {"config", "shard"}
TwoContents == {"c1", "c2", "s1", "s2"}
TwoSizes    == [c1 |-> 1, c2 |-> 1, s1 |-> 2, s2 |-> 3]
TwoRepos    == <<[config |-> "c1", shard |-> "s1"], [config |-> "c2", shard |-> "s2"]>>
BaseFiles   == [config |-> "c1"]
BaseTree    == [config |-> "c1", shard |-> "none"]
OneLimit    == {[min |-> 0, max |-> 1]}
=============================================================================
