----------------------------- MODULE ConsulHandler -----------------------------
(***************************************************************************)
(* The requests consulHandler of src/svcregistry/handler_consul.go sends   *)
(* to the Consul agent: the service registration of RegisterInstance, the *)
(* service ID DeregisterInstance removes and the check ID SendHeartbeat    *)
(* passes.  Names are sequences of one-letter strings, so that the         *)
(* "%s_%s" check ID is built, not assumed.  A duration is its number of    *)
(* time units; its String() form is not represented.  What the agent does  *)
(* with a request (and whether the call fails) is Consul's, not this       *)
(* code's, and is not modelled.                                            *)
(***************************************************************************)
EXTENDS Integers, Sequences

NoCheck == [CheckID |-> <<>>, TTL |-> 0, DeregisterCriticalServiceAfter |-> 0]

\* fmt.Sprintf("%s_%s", serviceName, instanceID)
CheckIDOf(serviceName, instanceID) == serviceName \o <<"_">> \o instanceID

\* RegisterInstance: the AgentServiceRegistration it sends; a TTL check is
\* attached only for a positive checkInterval, deregistered after 100 TTLs.
RegisterInstance(serviceName, instanceID, checkInterval) ==
    [ID    |-> instanceID,
     Name  |-> serviceName,
     Check |-> IF checkInterval > 0
               THEN [CheckID |-> CheckIDOf(serviceName, instanceID),
                     TTL |-> checkInterval,
                     DeregisterCriticalServiceAfter |-> 100 * checkInterval]
               ELSE NoCheck]

\* DeregisterInstance: the service ID it asks the agent to remove.
DeregisterInstance(instanceID) == instanceID

\* Mutant: the check ID is built with the names in the other order.
SendHeartbeatSwapped(serviceName, instanceID) == CheckIDOf(instanceID, serviceName)

\* SendHeartbeat: the check ID it passes with PassTTL.
SendHeartbeat(serviceName, instanceID) == CheckIDOf(serviceName, instanceID)

\* A call through the Handler interface, whose methods name the parameters
\* (instanceID, serviceName): Go binds arguments by position, so the
\* interface's instanceID arrives as the implementation's serviceName.
HandlerRegisterInstance(instanceID, serviceName, checkInterval) ==
    RegisterInstance(instanceID, serviceName, checkInterval)
HandlerSendHeartbeat(instanceID, serviceName) == SendHeartbeat(instanceID, serviceName)

=============================================================================
