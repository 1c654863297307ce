---------------------------- MODULE MCRootPolicy ----------------------------
(* A host with a systemd worker, a Dockerised encoder and the control panel. *)
EXTENDS RootPolicy

MCServices == {"worker1", "encoder1", "panel"}

MCEndpoints == {[host |-> "a", port |-> 443], [host |-> "a", port |-> 8443]}

\* Advertised ports on both sides of each limit, and an endpoint that moves the
\* service to another host and keeps the port.
MCEdgeEndpoints ==
  [host: {"a"}, port: {0, 1, 65535, 65536}] \cup {[host |-> "b", port |-> 1]}

MCTarget(type, port, config, docker, endpointRev, configRev) ==
  [type |-> type, endpointRev |-> endpointRev, configRev |-> configRev,
   configSHA |-> Sha256(config), localPort |-> port, docker |-> docker]

MCPolicy(source, projection, executor, worker, encoder) ==
  [sourceRev |-> source, projectionRev |-> projection, policyRev |-> executor,
   targets |-> [s \in MCServices |->
     CASE s = "worker1" ->
            MCTarget("worker", 1024, ListenerConfig("worker", 1024, worker), NoDocker, 1, worker)
       [] s = "encoder1" ->
            MCTarget("encoder_recorder", 2000,
                     DockerConfig("encoder_recorder", 2000, 3000, encoder),
                     [composePolicy |-> "cp1", composeRev |-> 1], 2, encoder)
       [] s = "panel" ->
            MCTarget("control_panel", 65535,
                     ListenerConfig("control_panel", 65535, 1), NoDocker, 1, 1)]]

\* The revisions start apart: in one policy the executor's counter is the first
\* at its limit, in the other the worker's configuration.
MCInitPolicies == {MCPolicy(1, 1, 2, 1, 1), MCPolicy(1, 1, 1, 3, 1)}
=============================================================================
