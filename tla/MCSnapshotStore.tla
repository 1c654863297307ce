-------------------------- MODULE MCSnapshotStore ---------------------------
(* A host with a systemd worker, a Dockerised encoder and the control panel. *)
EXTENDS SnapshotStore

MCServices == {"worker1", "encoder1", "panel"}

MCIdOf == [s \in MCServices |-> CASE s = "worker1" -> 2 [] s = "encoder1" -> 3 [] s = "panel" -> 1]

MCOrders == {<<"panel", "worker1", "encoder1">>, <<"encoder1", "worker1", "panel">>}

MCEndpoint == [host |-> "a", port |-> 443]

MCDocker == [published |-> 2000, container |-> 3000, composePolicy |-> "cp1",
             composeRev |-> 1, image |-> "image1"]

MCTarget(type, port, config, docker) ==
  [type |-> type, endpointRev |-> 1, configRev |-> 1, configSHA |-> Sha256(config),
   localPort |-> port, docker |-> docker]

MCPolicy ==
  [sourceRev |-> 1, projectionRev |-> 1, policyRev |-> 2,
   targets |-> [s \in MCServices |->
     CASE s = "worker1" -> MCTarget("worker", 1024, ListenerConfig("worker", 1024, 1), NoDocker)
       [] s = "encoder1" ->
            MCTarget("encoder_recorder", 2000, DockerConfig("encoder_recorder", 2000, 3000, 1),
                     [composePolicy |-> "cp1", composeRev |-> 1])
       [] s = "panel" ->
            MCTarget("control_panel", 65535, ListenerConfig("control_panel", 65535, 1), NoDocker)]]

MCInitWorlds ==
  {[policy |-> MCPolicy, endpoints |-> [s \in MCServices |-> MCEndpoint],
    dockers |-> [s \in MCServices |-> IF s = "encoder1" THEN MCDocker ELSE NoDocker],
    from |-> NoDigest]}
=============================================================================
