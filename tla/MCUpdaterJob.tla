---------------------------- MODULE MCUpdaterJob ----------------------------
(* One host with a worker: its listener is moved and its software updated. *)
EXTENDS UpdaterJob

CONSTANT MCExpires \* when the authorizations of the commands expire

MCNames == {"move", "stay", "update", "host1", "worker1", "v1", "v2"}

MCDocker(rev, port) ==
  [published |-> port, container |-> 3000, composePolicy |-> "cp1", composeRev |-> rev,
   image |-> "image1"]

\* The reference of configuration revision rev, with the listener at port.
MCRef(rev, port, docker) ==
  [snapshot |-> Sha256(<<"policy", rev>>), sourceRev |-> rev, projectionRev |-> rev,
   executorRev |-> rev, executorSHA |-> Sha256(<<"executor", rev>>), endpointRev |-> 1,
   appliedEndpointRev |-> 1, advertisedSHA |-> Sha256("endpoint"), advertisedPort |-> 443,
   configRev |-> rev, configSHA |-> Sha256(<<"config", rev>>), localPort |-> port,
   docker |-> docker]

MCPlan(before, target, rollback, baseline) ==
  LET plan == [mode |-> "local_only", before |-> before, target |-> target,
               rollback |-> rollback, dockerBaseline |-> baseline,
               planSHA256 |-> NoDigest]
  IN [version |-> 2, plan |-> [plan EXCEPT !.planSHA256 = PlanSHA256(plan)]]

\* A container's published port is moved.
MCMove ==
  MCPlan(MCRef(1, 1024, MCDocker(1, 1024)), MCRef(2, 2000, MCDocker(2, 2000)),
         MCRef(3, 1024, MCDocker(3, 1024)),
         [containerID |-> "c1", image |-> "image1", composeRev |-> 1])

\* A listener that is already where it is asked to be.
MCStay ==
  MCPlan(MCRef(1, 1024, NoDocker), MCRef(1, 1024, NoDocker), MCRef(1, 1024, NoDocker),
         NoDocker)

MCUpdate ==
  [expectedVersion |-> "v1", targetVersion |-> "v2", strategy |-> "when_idle"]

MCTarget(deployment, rev) ==
  [kind |-> "application", service |-> "worker1", type |-> "worker",
   deployment |-> deployment, expectedConfigRev |-> rev, executionHost |-> NoName]

MCCommand(job, deployment, desired, from, to) ==
  CommandFor(job, desired,
    Authorize(job, "host1", MCTarget(deployment, from), desired, to, 1, MCExpires))

\* TLC evaluates a constant definition once, but one that a cfg puts in the
\* place of a CONSTANT each time, so the commands have definitions of their own.
MCMoveCommand == MCCommand("move", "docker", Desired("port_reconfigure", MCMove), 1, 2)
MCStayCommand == MCCommand("stay", "systemd", Desired("port_reconfigure", MCStay), 1, 1)
MCUpdateCommand == MCCommand("update", "systemd", Desired("software_update", MCUpdate), 1, 4)

MCEnvelope ==
  [move |-> MCMoveCommand, stay |-> MCStayCommand, update |-> MCUpdateCommand]
=============================================================================
