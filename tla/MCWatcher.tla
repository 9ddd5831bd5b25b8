------------------------------ MODULE MCWatcher ------------------------------
(* Each pod is healthy, or crash-loops after too many restarts.            *)
EXTENDS Watcher

State(waiting, restarts) ==
    [waiting |-> waiting, terminated |-> {}, conditions |-> {},
     restarts |-> restarts, phase |-> "Running"]

MCPodStates == {State({}, 0), State({"CrashLoopBackOff"}, RestartThreshold)}
=============================================================================
