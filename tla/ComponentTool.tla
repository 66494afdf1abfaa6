------------------------------ MODULE ComponentTool ------------------------------
(***************************************************************************)
(* juiz_create_component (apps/juiz_create_component.cpp), run again and   *)
(* again on the components of one developer, who edits the files between   *)
(* the runs and may kill one at any step.  A run generates sources from    *)
(* templates, and rewrites two files that others have written in: the      *)
(* lists of modules in CMakeLists.txt, and the shelf, which it reads and   *)
(* writes as a value.  Of that value the model keeps what is preloaded,    *)
(* and the keys that others have put there.                                *)
(*                                                                         *)
(* A file is named by its words, which templates replace, its extension    *)
(* and, if it is a backup, the second in which it became one.  A file is   *)
(* written when it is closed: what is generated fits the stream's buffer.  *)
(***************************************************************************)
EXTENDS Naturals, Sequences, SequencesExt, TLC, ArgParse, FiniteSets

CONSTANTS
  Commands,     \* command lines
  Lower,        \* Lower[n]: the name n in lower case
  Echo,         \* <<word, name>>: replacing word by name leaves word in the text
  Templates,    \* Templates[d]: the files of template directory d: words, ext, says
  FirstDisk,    \* the directories that are there before the first run
  MaxRuns, MaxEdits, MaxClock \* bounds

VARIABLES
  disk,         \* disk[d]: the files of directory d
  clock,        \* seconds
  now,          \* "idle", "busy" or "loops"
  options, name, todo, \* of the run, or the last that ended well: its options; ComponentName; what is left
  exit,         \* of the last run: "none", "0", "-1", "aborted" or "killed"
  runs, edits,
  overwritten,  \* history: files of which two backups were made in one second
  cut           \* history: a run was killed, or aborted

toolVars == <<disk, clock, now, options, name, todo, exit, runs, edits, overwritten, cut>>
invocation == <<now, options, name, todo, exit>>
user == <<clock, runs, edits>>

(***************************************************************************)
(* Files.                                                                  *)
(***************************************************************************)
With(f, x, v) == [y \in DOMAIN f \cup {x} |-> IF y = x THEN v ELSE f[y]]
Without(f, x) == [y \in DOMAIN f \ {x} |-> f[y]]
File(words, ext) == <<words, ext, 0>>
Backup(f) == <<f[1], f[2], clock>>
CMakeLists == File(<<"CMakeLists">>, "txt")
\* What is added to a component, as the options name it; each has a list of its
\* own: CONTAINERS, CONTAINER_OPERATIONS and OPERATIONS.
Parts == {"container", "container_operation", "operation"}
ShelfFile == File(<<name>>, "jshelf")
Blank == [kind |-> "blank", marks |-> {}]
Source(t) == [kind |-> "source", of |-> t.words, marks |-> {}]
CMake(project) ==
  [kind |-> "cmake", project |-> project, lists |-> [part \in Parts |-> <<>>], marks |-> {}]
\* What is not there, is blank or has no such keys reads as, and a template is,
\* a shelf that preloads nothing.  A container is preloaded by an object that has
\* its operations, or, as a process reads as well, by their list alone.
EmptyShelf == [kind |-> "shelf", containers |-> <<>>, operations |-> <<>>, keys |-> {}, marks |-> {}]

\* The templates are laid out as those of share/juiz/component_template.
ASSUME TemplateAssumption ==
  \A d \in DOMAIN Templates :
    /\ \A t \in Templates[d] :
         /\ t.ext = "txt" <=> t.words = <<"CMakeLists">>
         /\ t.ext = "jshelf" => t.words = <<"ComponentName">>
    /\ \A words \in {<<"CMakeLists">>, <<"ContainerName">>, <<"operationName">>,
                     <<"ContainerName", "containerOperationName">>} :
         \E t \in Templates[d] : t.words = words
\* No directory that was there before the first run is a component.
ASSUME FirstDiskAssumption ==
  \A d \in DOMAIN FirstDisk : \A f \in DOMAIN FirstDisk[d] :
    /\ f # CMakeLists /\ f[2] # "jshelf"
    /\ FirstDisk[d][f] \in [kind : {"source"}, of : Seq(STRING), marks : {{}}]

Destination(o) == IF o.destination = "" THEN Lower[o.name] ELSE o.destination
dir == Destination(options)
Present(f) == f \in DOMAIN disk[dir]
Read(f) == IF Present(f) THEN disk[dir][f] ELSE Blank

(***************************************************************************)
(* The parts of main.                                                      *)
(***************************************************************************)
ToolOptions ==
  <<FlagOption("-v", "--verbose", "verbose"),
    ValueOption("-t", "--templateDir", "templateDir", "$JUIZ_ROOT/share/juiz/component_template"),
    ValueOption("-c", "--container", "container", ""),
    FlagOption("-f", "--force", "force"),
    ValueOption("-co", "--container_operation", "container_operation", ""),
    ValueOption("-op", "--operation", "operation", ""),
    ValueOption("-n", "--name", "name", ""),
    ValueOption("-d", "--destination", "destination", "")>>

\* check_option_validity
Valid(parsed) ==
  LET o == parsed.results
  IN  /\ ~parsed.error
      /\ o.templateDir \in DOMAIN Templates
      /\ o.container_operation # "" => o.container # ""
      /\ o.name = "" => o.destination # "" /\ o.destination \in DOMAIN disk

IsComponent(files) == CMakeLists \in DOMAIN files /\ files[CMakeLists].kind = "cmake"
Detected(d) == IF IsComponent(disk[d]) THEN disk[d][CMakeLists].project ELSE ""
Refused(o) ==
  LET d == Destination(o)
  IN  /\ d \in DOMAIN disk
      /\ \/ o.verbose /\ CMakeLists \notin DOMAIN disk[d]
         \/ Detected(d) = ""
         \/ o.name \notin {"", Detected(d)}

Matches(kind, t) ==
  CASE kind = "component" -> t.words \in {<<"CMakeLists">>, <<"juiz_component">>, <<"ComponentName">>}
    [] kind = "container" -> t.words = <<"ContainerName">>
    [] kind = "container_operation" -> "containerOperationName" \in Range(t.words)
    [] kind = "operation" -> "operationName" \in Range(t.words)
Dictionary(kind) ==
  CASE kind = "component" -> [ComponentName |-> name]
    [] kind = "container" -> [ContainerName |-> options.container]
    [] kind = "container_operation" ->
         [ContainerName |-> options.container, containerOperationName |-> options.container_operation]
    [] kind = "operation" -> [operationName |-> options.operation]
\* The words of what is added, as they name its source and stand in its list.
Words(o, part) ==
  CASE part = "container" -> <<o.container>>
    [] part = "container_operation" -> <<o.container, o.container_operation>>
    [] part = "operation" -> <<o.operation>>

Check == [do |-> "check", kind |-> "container_operation"]
Generate(kind, o) ==
  [do |-> "generate", kind |-> kind, left |-> {t \in Templates[o.templateDir] : Matches(kind, t)}]
List(part) == [do |-> "list", kind |-> part]
Shelve(part) == [do |-> "shelve", kind |-> part]
Add(part, o) == <<Generate(part, o), List(part), Shelve(part)>>
Wanted(part, o, steps) == IF o[part] = "" THEN <<>> ELSE steps
MainSteps(o) ==
  (IF Destination(o) \in DOMAIN disk THEN <<>> ELSE <<Generate("component", o)>>)
  \o Wanted("container", o, Add("container", o))
  \o Wanted("container_operation", o, <<Check>> \o Add("container_operation", o))
  \o Wanted("operation", o, Add("operation", o))

Step == Head(todo)
Doing(step) == now = "busy" /\ todo # <<>> /\ Step.do = step
Continue(steps) == todo' = steps \o Tail(todo) /\ UNCHANGED <<now, options, name, exit>>
Finished(code, o) == now' = "idle" /\ exit' = code /\ todo' = <<>> /\ name' = "" /\ options' = o
End(code) == Finished(code, IF code = "0" THEN options ELSE Defaults(ToolOptions))
Loop == now' = "loops" /\ UNCHANGED <<options, name, todo, exit>>

Start(args) ==
  LET parsed == Parse(ToolOptions, args)
      refuse(code) == Finished(code, Defaults(ToolOptions)) /\ UNCHANGED <<disk, cut>>
      o == parsed.results
      d == Destination(o)
  IN  CASE parsed.end = "usage" -> refuse("0")
        [] parsed.end = "faulted" -> refuse("aborted")
        [] parsed.end = "parsed" /\ ~Valid(parsed) -> refuse("-1")
        [] parsed.end = "parsed" /\ Valid(parsed) /\ Refused(o) -> refuse("-1")
        [] OTHER ->
             /\ now' = "busy"
             /\ options' = o
             /\ name' = IF o.name # "" THEN o.name ELSE Detected(d)
             /\ todo' = MainSteps(o)
             /\ disk' = IF d \in DOMAIN disk THEN disk ELSE With(disk, d, <<>>)
             /\ UNCHANGED <<exit, cut>>
Invoke ==
  /\ now = "idle"
  /\ runs < MaxRuns
  /\ runs' = runs + 1
  /\ \E args \in Commands : Start(args)
  /\ UNCHANGED <<clock, edits, overwritten>>

MainReturns ==
  /\ now = "busy"
  /\ todo = <<>>
  /\ End("0")
  /\ UNCHANGED <<disk, user, overwritten, cut>>

\* The new content of f goes through a backup, if there is something to back up.
Opening_NoBackup(f) == <<[do |-> "open", file |-> f]>>
Opening(f) ==
  (IF Present(f) THEN <<[do |-> "rename", file |-> f]>> ELSE <<>>) \o <<[do |-> "open", file |-> f]>>
Rewrite(f, content) == Opening(f) \o <<[do |-> "fill", file |-> f, content |-> content]>>

\* generateTemplateCode for one of the files that match, in any order.
Others_Again(t) == <<Step>> \* the iterator stays where it is
Others(t) == <<[Step EXCEPT !.left = @ \ {t}]>>
Replaced(w) == IF w \in DOMAIN Dictionary(Step.kind) THEN Dictionary(Step.kind)[w] ELSE w
Echoes(words) ==
  \E w \in words \cap DOMAIN Dictionary(Step.kind) : <<w, Dictionary(Step.kind)[w]>> \in Echo
ContentOf(t) ==
  CASE t.words = <<"CMakeLists">> -> CMake(name)
    [] t.ext = "jshelf" -> EmptyShelf
    [] OTHER -> Source(t)
GenerateFile ==
  /\ Doing("generate")
  /\ \E t \in Step.left :
       LET f == File([i \in DOMAIN t.words |-> Replaced(t.words[i])], t.ext)
       IN  CASE Echoes(Range(t.words)) -> Loop
             [] Present(f) /\ ~options.force -> Continue(Others(t))
             [] ~(Present(f) /\ ~options.force) /\ Echoes(t.says) ->
                  Continue(Opening(f) \o <<[do |-> "loop"]>>)
             [] OTHER -> Continue(Rewrite(f, ContentOf(t)) \o Others(t))
  /\ UNCHANGED <<disk, user, overwritten, cut>>
GenerateDone ==
  /\ Doing("generate")
  /\ Step.left = {}
  /\ Continue(<<>>)
  /\ UNCHANGED <<disk, user, overwritten, cut>>
LoopInText == \* replace() looks for the word from the start of the line again
  /\ Doing("loop")
  /\ Loop
  /\ UNCHANGED <<disk, user, overwritten, cut>>

\* updateCMakeListsForModule.  Without a line to replace the name goes nowhere.
Listed_IfThere(names, words) == IF words \in Range(names) THEN Append(names, words) ELSE names
Listed(names, words) == IF words \in Range(names) THEN names ELSE Append(names, words)
UpdateCMakeLists ==
  /\ Doing("list")
  /\ LET c == Read(CMakeLists)
         new == IF c.kind = "cmake" THEN [c EXCEPT !.lists[Step.kind] = Listed(@, Words(options, Step.kind))]
                ELSE c
     IN  Continue(Rewrite(CMakeLists, new))
  /\ UNCHANGED <<disk, user, overwritten, cut>>

\* The container of a container operation must be in the list of this component.
CheckContainer ==
  /\ Doing("check")
  /\ LET c == Read(CMakeLists)
     IN  IF /\ c.kind = "cmake"
            /\ <<options.container>> \in Range(c.lists["container"])
         THEN Continue(<<>>) ELSE End("-1")
  /\ UNCHANGED <<disk, user, overwritten, cut>>

(***************************************************************************)
(* The three functions that update the shelf.  listValue() throws on what  *)
(* is no list, and nothing catches that: a container's operations may come *)
(* to be none, while operations.preload is a list in the template and      *)
(* every edit leaves it one.  What is written as a value has the keys that *)
(* were read, and not the remarks between them.                            *)
(***************************************************************************)
PushedBack(list, op) == IF op \in Range(list) THEN list ELSE Append(list, op)
WithContainer(shelf, c) ==
  IF c \in DOMAIN shelf.containers THEN shelf
  ELSE [shelf EXCEPT !.containers = With(@, c, [form |-> "object", operations |-> <<>>])]
ShelfValue ==
  IF Read(ShelfFile).kind = "shelf" THEN [Read(ShelfFile) EXCEPT !.marks = {}] ELSE EmptyShelf
UpdateShelf ==
  /\ Doing("shelve")
  /\ LET part == Step.kind
         c == options.container
         v == IF part = "operation" THEN ShelfValue ELSE WithContainer(ShelfValue, c)
         throws == part = "container_operation" /\ v.containers[c].form # "object"
         new == CASE part = "container" -> v
                  [] part = "container_operation" ->
                       [v EXCEPT !.containers[c].operations = PushedBack(@, options.container_operation)]
                  [] part = "operation" -> [v EXCEPT !.operations = PushedBack(@, options.operation)]
     IN  IF throws THEN End("aborted") /\ cut' = TRUE
         ELSE Continue(Rewrite(ShelfFile, new)) /\ UNCHANGED cut
  /\ UNCHANGED <<disk, user, overwritten>>

(***************************************************************************)
(* The system calls behind the updates, and what happens around them.      *)
(***************************************************************************)
WriteFile(f, content) ==
  /\ disk' = [disk EXCEPT ![dir] = With(@, f, content)]
  /\ Continue(<<>>)
  /\ UNCHANGED <<user, overwritten, cut>>
Rename ==
  /\ Doing("rename")
  /\ LET f == Step.file
     IN  /\ disk' = [disk EXCEPT ![dir] = With(Without(@, f), Backup(f), @[f])]
         /\ overwritten' = IF Present(Backup(f)) THEN overwritten \cup {<<dir, f>>} ELSE overwritten
  /\ Continue(<<>>)
  /\ UNCHANGED <<user, cut>>
Open == Doing("open") /\ WriteFile(Step.file, Blank)
Fill == Doing("fill") /\ WriteFile(Step.file, Step.content)

Kill ==
  /\ now # "idle"
  /\ End("killed")
  /\ cut' = TRUE
  /\ UNCHANGED <<disk, user, overwritten>>
Tick == \* between runs, and where the time is read
  /\ clock < MaxClock
  /\ (now = "idle" /\ runs < MaxRuns) \/ Doing("rename")
  /\ clock' = clock + 1
  /\ UNCHANGED <<disk, invocation, runs, edits, overwritten, cut>>

\* An edit is a mark that the developer looks for later: a remark or some code in
\* any file, or a value in a shelf, of which no edit takes anything away.
Remark(c) == [c EXCEPT !.marks = @ \cup {edits'}]
Entry(c) == [c EXCEPT !.keys = @ \cup {edits'}]
ListForm(c) == [c EXCEPT !.containers = [k \in DOMAIN @ |-> [@[k] EXCEPT !.form = "list"]]]
Edit ==
  /\ now = "idle" /\ runs < MaxRuns
  /\ edits < MaxEdits
  /\ edits' = edits + 1
  /\ \E d \in DOMAIN disk : \E f \in DOMAIN disk[d] :
       LET c == disk[d][f]
       IN  /\ f[3] = 0
           /\ \E new \in {Remark(c)}
                 \cup (IF c.kind = "shelf" THEN {Entry(c), Remark(ListForm(c))} ELSE {}) :
                disk' = [disk EXCEPT ![d][f] = new]
  /\ UNCHANGED <<clock, invocation, runs, overwritten, cut>>

ToolInit ==
  /\ disk = FirstDisk
  /\ clock = 1
  /\ now = "idle" /\ options = Defaults(ToolOptions) /\ name = "" /\ todo = <<>> /\ exit = "none"
  /\ runs = 0 /\ edits = 0
  /\ overwritten = {} /\ cut = FALSE

Main ==
  \/ GenerateFile \/ GenerateDone \/ LoopInText \/ UpdateCMakeLists \/ CheckContainer \/ UpdateShelf
  \/ Rename \/ Open \/ Fill \/ MainReturns
ToolNext == Invoke \/ Main \/ Kill \/ Tick \/ Edit
ToolSpec == ToolInit /\ [][ToolNext]_toolVars
\* WF_toolVars(Main) with what Main is enabled by spelled out: a run that is not killed
\* and does not loop goes on.
MainGoesOn == []<>(now # "busy") \/ []<><<Main>>_toolVars
ToolFairSpec == ToolSpec /\ MainGoesOn

(***************************************************************************)
(* Properties.                                                             *)
(***************************************************************************)
MarksIn(c) == c.marks \cup (IF c.kind = "shelf" THEN c.keys ELSE {})

\* What the developer wrote is still in some file, be it a backup, whatever runs
\* came after it, forced or killed ones included, as long as no two backups of one
\* file, whichever it is, were made in the same second (create_backup_file_if_exists).
WorkIsKept ==
  \A m \in 1 .. edits :
    \/ \E d \in DOMAIN disk : \E f \in DOMAIN disk[d] : m \in MarksIn(disk[d][f])
    \/ overwritten # {}

ListedIn(files) ==
  IF IsComponent(files) THEN UNION {Range(files[CMakeLists].lists[part]) : part \in Parts} ELSE {}
PreloadedBy(shelf) == \* what a process that reads this shelf loads
  {<<k>> : k \in DOMAIN shelf.containers}
  \cup (UNION {{<<k, op>> : op \in Range(shelf.containers[k].operations)} : k \in DOMAIN shelf.containers})
  \cup {<<op>> : op \in Range(shelf.operations)}
Shelves(files) == {f \in DOMAIN files : f[2] = "jshelf" /\ f[3] = 0 /\ files[f].kind = "shelf"}
PreloadedIn(files) == UNION {PreloadedBy(files[f]) : f \in Shelves(files)}
Asked == {Words(options, part) : part \in {p \in Parts : options[p] # ""}}
HasSource(files, words) == \E f \in DOMAIN files : f[1] = words

\* What a process will preload is built, and what is built has a source, if only
\* a backup of one, at every step of a run and after a killed one too, as long as
\* there are lists at all; a run that ended well has made what it was asked for;
\* and if none was cut, everything that is built is preloaded (updateCMakeListsForModule,
\* updateJShelfForContainer, ...Operation, main).
ComponentAgrees ==
  /\ \A d \in DOMAIN disk : ListedIn(disk[d]) # {} =>
       /\ PreloadedIn(disk[d]) \subseteq ListedIn(disk[d])
       /\ \A words \in ListedIn(disk[d]) : HasSource(disk[d], words)
       /\ now = "idle" /\ ~cut => PreloadedIn(disk[d]) = ListedIn(disk[d])
  /\ now = "idle" /\ exit = "0" /\ Asked # {} =>
       Asked \subseteq ListedIn(disk[dir]) \cap PreloadedIn(disk[dir])

\* A run comes to an end, unless a name contains the word whose place it takes
\* (replace, generateTemplateCodes).
InvocationEnds ==
  now = "busy" ~>
    \/ now = "idle"
    \/ \E e \in Echo : e[2] \in {name, options.container, options.container_operation, options.operation}
==================================================================================
