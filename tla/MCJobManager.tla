---------------------------- MODULE MCJobManager -----------------------------
\* Instances of JobManager for model checking.  Jobs meet only in the gate and
\* in the file, so one at a time is enough, of each kind: a watcher's corpus job,
\* a tool's, both under every command, and a tool's that only restarts recover
\* and nobody resumes by hand.
EXTENDS JobManager

CONSTANTS watched, tool, heldtool

AllJobs    == {watched, tool, heldtool}
WatchedJob == {watched}
CorpusJobs == {watched, tool}
OneTool    == {tool}
None       == {}

AllCommands == {"paused", "running", "cancelled"}
Asked       == [j \in Jobs |-> IF j = heldtool THEN AllCommands \ {"running"} ELSE AllCommands]
AllFaults   == {"unpublished", "published"}

OneAdmitted == \A j, k \in Jobs : job[j].state = "absent" \/ job[k].state = "absent" \/ j = k

OneJobSpec ==
    /\ Init
    /\ [][Next /\ OneAdmitted']_jobVars
    /\ \A j \in Jobs : WF_jobVars(AttemptStep(j))

=============================================================================
