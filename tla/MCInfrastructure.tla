-------------------------- MODULE MCInfrastructure --------------------------
(* The two services every component is injected with, the Communication    *)
(* bus and Storage, for TLC.  They share no state, so a behaviour of this  *)
(* instance is a behaviour of one of them while the other rests.           *)
EXTENDS Bus, Store

CONSTANT Monitor  \* the subscriber that watches delivery.failed

VARIABLE service  \* the service this behaviour is about

WatchedTopics == {s \in AllTopics \X Subscribers : s[1] = FailedTopic => s[2] = Monitor}
WriteFails == {"write"}
ErrorsAndBus == {"error", "bus"}

allVars == <<service, busVars, storeVars>>

BusStep == service = "bus" /\ BusNext /\ UNCHANGED <<service, storeVars>>
StoreStep == service = "store" /\ StoreNext /\ UNCHANGED <<service, busVars>>

InfrastructureInit ==
  /\ service \in {"bus", "store"}
  /\ BusInit
  /\ StoreInit
  /\ service = "bus" => arg = CHOOSE a \in [Procs -> Calls] : TRUE

InfrastructureSpec ==
  /\ InfrastructureInit
  /\ [][BusStep \/ StoreStep]_allVars
  /\ WF_allVars(service = "bus" /\ (\E sub \in Subscriptions : DeliveryStep(sub))
                                /\ UNCHANGED <<service, storeVars>>)
=============================================================================
