------------------------------ MODULE MCCluster ------------------------------
\* Model values for the runs of Cluster.
EXTENDS Cluster, TLC

CONSTANTS lead, a, b

\* One follower of each kind in turn, and one nobody attends.
EachRole == {(a :> r) @@ (b :> "static") : r \in RoleNames}
=============================================================================
