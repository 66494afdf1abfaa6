----------------------------- MODULE MCComponentTool -----------------------------
(***************************************************************************)
(* One component that grows by a container, an operation of it and an      *)
(* operation, a directory that is none, and command lines that are         *)
(* incomplete, contradictory, or never end.                                *)
(***************************************************************************)
EXTENDS ComponentTool

MCCommands ==
  {<<"--name", "Robot", "-c", "Arm", "-f">>,
   <<"-d", "robot", "-c", "Arm", "--container_operation", "go", "-v">>,
   <<"-d", "robot", "-op", "run", "-f">>,
   <<"-n", "ComponentName2", "-v">>,
   <<"-d", "plain", "-op", "run", "-v">>,
   <<"-d", "robot", "-co", "go">>,
   <<"-d", "robot", "-n", "Leg">>,
   <<"-d", "robot", "-d", "robot">>,
   <<"-d", "robot", "-c">>,
   <<"-d", "robot", "-h">>}
MCLower == "Robot" :> "robot" @@ "ComponentName2" :> "componentname2" @@ "Leg" :> "leg"
MCEcho == {<<"ComponentName", "ComponentName2">>}
File1(words, ext, says) == [words |-> words, ext |-> ext, says |-> says]
MCTemplates ==
  "$JUIZ_ROOT/share/juiz/component_template" :>
    {File1(<<"CMakeLists">>, "txt", {"ComponentName"}), File1(<<"ComponentName">>, "jshelf", {"ComponentName"}),
     File1(<<"ContainerName">>, "cpp", {"ContainerName"}), File1(<<"operationName">>, "cpp", {"operationName"}),
     File1(<<"ContainerName", "containerOperationName">>, "cpp", {"ContainerName", "containerOperationName"})}
MCFirstDisk == "plain" :> <<>>
==================================================================================
