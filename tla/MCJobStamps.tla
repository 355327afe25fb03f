---------------------------- MODULE MCJobStamps -----------------------------
\* Instances of JobStamps for model checking.
EXTENDS JobStamps

CONSTANT j1  \* records are validated one by one

OneJob    == {j1}
None      == {}
AllFaults == {"unpublished", "published"}

AllCommands == [j \in Jobs |-> {"paused", "running", "cancelled"}]

=============================================================================
