------------------------------- MODULE MCStartup -------------------------------
(***************************************************************************)
(* Seven configurations: one with an item of every kind, one whose items   *)
(* are wrong in every way that is only logged, and five that throw: in a   *)
(* transformation, in an FSM's transitions, while the FSMs are bound, in   *)
(* the topics and the callbacks, and in an anchor.                         *)
(***************************************************************************)
EXTENDS Startup

CONSTANTS A, Z, K, W, E, B, KW, KZ,       \* types: of operations, containers, members, ECs, brokers
          A0, o1, o2, k1, k2, m, f, s1, s2, e, an, br, top, con, no   \* names

MCJoined(k, w) == IF w = W THEN KW ELSE IF w = Z THEN KZ ELSE NotText
MCSuffixed(n, i) == IF i = 0 THEN A0 ELSE NotText
MCFiles ==
  [t \in {A, Z, K, E, B, KW, KZ} |->
     CASE t = A -> <<"absent", "empty", "good">>
       [] t = Z -> <<"absent", "absent">>
       [] t = KZ -> <<"empty", "good">>
       [] t = B -> <<"empty", "good">>
       [] OTHER -> <<"good">>]
MCArguments ==
  [t \in {A, Z, KW, KZ, "client", "Topic", "activate_state", "get_state",
          "container_get_pose", "container_set_pose",
          "static_transformation_operation", "dynamic_transformation_operation"} |->
     CASE t \in {A, KW} -> {"x"}
       [] t = "Topic" -> {"data"}
       [] t = "activate_state" -> {"stateName", "input"}
       [] t = "container_set_pose" -> {"pose"}
       [] t = "static_transformation_operation" -> {"pose", "offset"}
       [] t = "dynamic_transformation_operation" -> {"pose", "input"}
       [] OTHER -> {}]

Nothing ==
  [operations |-> [preload |-> <<>>, precreate |-> <<>>],
   containers |-> [preload |-> <<>>, precreate |-> <<>>, transformation |-> <<>>],
   fsms |-> [precreate |-> <<>>, bind |-> <<>>],
   ecs |-> [preload |-> <<>>, precreate |-> <<>>, bind |-> <<>>],
   anchors |-> <<>>, brokers |-> [preload |-> <<>>, precreate |-> <<>>],
   connections |-> <<>>, callbacks |-> <<>>]
OpItem(info, pub, sub) == [info |-> info, publish |-> pub, subscribe |-> sub]
Ctn(name, ops) == [info |-> [typeName |-> K, fullName |-> name], operations |-> ops]
State(name, binds) == [name |-> name, transit |-> name, complete |-> TRUE, bind |-> binds]
Target(n) == [name |-> n, state |-> "started"]
AnBroker == [preload |-> <<B>>, precreate |-> <<[typeName |-> B, instanceName |-> br]>>]
Two == <<OpItem([typeName |-> A, fullName |-> o1], <<top>>, <<>>),
         OpItem([typeName |-> A, fullName |-> o2], <<>>, << <<"x", top>> >>)>>

Full ==
  [Nothing EXCEPT
     !.operations = [preload |-> <<A>>, precreate |-> Two],
     !.containers = [preload |-> <<[type |-> K, operations |-> <<W>>]>>,
                     precreate |-> <<Ctn(k1, <<OpItem([typeName |-> W, instanceName |-> m], <<top>>, << <<"x", top>> >>)>>),
                                     Ctn(k2, <<>>)>>,
                     transformation |-> <<[kind |-> "static", from |-> k1, to |-> k2],
                                          [kind |-> "dynamic", from |-> k2, to |-> k1, input |-> o1],
                                          [kind |-> "named", name |-> o2, from |-> k1, to |-> k2]>>],
     !.fsms = [precreate |-> <<[name |-> f, default |-> TRUE,
                                states |-> <<State(s1, <<Target(o1)>>), State(s2, <<Target(e), Target(no)>>)>>]>>,
               bind |-> <<[fsm |-> f, state |-> s1, operations |-> <<o2>>, ecs |-> <<Target(e)>>]>>],
     !.ecs = [preload |-> <<E>>, precreate |-> <<[name |-> e, type |-> E, bind |-> <<o1>>]>>,
              bind |-> <<[name |-> e, operations |-> <<o2>>], [name |-> no, operations |-> <<o2>>]>>],
     !.anchors = <<[name |-> an, type |-> "DynamicPeriodicAnchor", target |-> k1, input |-> o1, autoStart |-> TRUE]>>,
     !.brokers = AnBroker,
     !.connections = <<[name |-> con, out |-> o1, op |-> o2, inlet |-> "x"]>>,
     !.callbacks = <<[name |-> "on_started", target |-> <<o1, no>>]>>]
Wrong ==
  [Nothing EXCEPT
     !.operations = [preload |-> <<Z, A>>,
                     precreate |-> <<OpItem([typeName |-> Z, fullName |-> no], <<top>>, <<>>),
                                     OpItem([typeName |-> A], <<>>, <<>>)>> \o Two \o Two],
     !.containers = [preload |-> <<[type |-> K, operations |-> <<Z>>], [type |-> Z, operations |-> <<>>]>>,
                     precreate |-> <<Ctn(k1, <<OpItem([typeName |-> Z, instanceName |-> m], <<top>>, <<>>)>>), Ctn(k1, <<>>)>>,
                     transformation |-> <<[kind |-> "static", from |-> k1, to |-> no]>>],
     !.fsms = [precreate |-> <<[name |-> f, default |-> FALSE, states |-> <<State(s1, <<Target(o1)>>)>>]>>, bind |-> <<>>],
     !.ecs = [preload |-> <<>>, precreate |-> <<[name |-> k1, type |-> E, bind |-> <<o1>>],
                                                [name |-> e, type |-> E, bind |-> <<no, o2>>]>>, bind |-> <<>>],
     !.anchors = <<[name |-> an, type |-> "StaticPeriodicAnchor", target |-> no, input |-> Unnamed, autoStart |-> TRUE]>>,
     !.brokers = AnBroker,
     !.connections = <<[name |-> con, out |-> no, op |-> o2, inlet |-> "x"],
                       [name |-> con, out |-> o1, op |-> no, inlet |-> "x"],
                       [name |-> con, out |-> o1, op |-> o1, inlet |-> "x"]>>]
BadBind ==
  [Full EXCEPT !.fsms.precreate = Append(@, [name |-> no, default |-> FALSE, states |-> <<State(NotText, <<>>)>>])]
BadTopic ==
  [Full EXCEPT !.containers.precreate =
                 Append(@, Ctn(no, <<OpItem([typeName |-> W], <<top>>, <<>>)>>)),
               !.callbacks = <<[name |-> "on_started", target |-> <<NotText, o1>>]>>]
BadAnchor == [Full EXCEPT !.anchors = <<[@[1] EXCEPT !.input = NotText]>>]
BadPose == [Full EXCEPT !.containers.transformation = <<[@[2] EXCEPT !.input = NotText]>>]
BadTransit == [Full EXCEPT !.fsms.precreate = <<[@[1] EXCEPT !.states[2].transit = NotText]>>]
MCConfigs == {Full, Wrong, BadBind, BadTopic, BadAnchor, BadPose, BadTransit}
===============================================================================
