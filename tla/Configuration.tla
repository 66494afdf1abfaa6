------------------------------ MODULE Configuration ------------------------------
(***************************************************************************)
(* How a process comes to its configuration: the project file, the         *)
(* projects it includes, and the shelves, each substituted with the        *)
(* directories known when it is read and merged on return                  *)
(* (process/processconfigparser.cpp, ProcessImpl::_parseConfigFile).       *)
(* Then what clients see of values: a configured one, which the info of an *)
(* object holds, or a result crosses the wire as JSON, and crosses it      *)
(* again where a client passes on what it received.                        *)
(*                                                                         *)
(* A path is a sequence of pieces, absolute if its first is a root.        *)
(* Reading is a stack of frames, the last one being read.                  *)
(***************************************************************************)
EXTENDS Values, ArgParse, FiniteSets

CONSTANTS
  CommandLines,  \* what a process is started with
  PathNamed,     \* PathNamed[w]: the path of the project file that the word w names
  Texts,         \* Texts[p]: the text of the file at path p
  JsonNames,     \* last pieces of paths that end in .nkproj or .nkshelf
  Roots,         \* first pieces of absolute paths
  ProjectPlace, SubProjectPlace, ShelfPlace, \* "${ProjectDirectory}" and so on
  Default,       \* defaultProcessConfig
  Results,       \* values that operations return
  MaxHops,       \* bound: crossings of one value
  Homes          \* Homes[m]: the directory of the file that holds "${...}/m", m being
                 \* its own mark and the placeholder that of its kind of file

VARIABLES
  stage,         \* "includes", "shelves", "ready", "serving", "threw" or "exited"
  frames,
  dictionary,    \* env_dictionary, by reference throughout one reading
  config,
  read,          \* the files read, in order: their path, kind and depth
  sent, received, hops

vars == <<stage, frames, dictionary, config, read, sent, received, hops>>
wire == <<sent, received, hops>>

Directory(path) == Front(path)
IsAbsolute(path) == path # <<>> /\ Head(path) \in Roots
Within(base, path) == IF IsAbsolute(path) THEN path ELSE base \o path
IsNKProj(path) == Last(path) \in JsonNames
Exists(path) == path \in DOMAIN Texts

\* A file that is not there is an empty object, or an error that becomes one.
Loads(path) ==
  Exists(path) => IF IsNKProj(path) THEN JsonReads(Texts[path]) ELSE YamlReads(Texts[path])
LoadConfig(path) ==
  LET dir == StringValue(Directory(path))
  IN  CASE IsNKProj(path) /\ ~Exists(path) -> ObjectValue(<<>>)
        [] IsNKProj(path) -> JsonValue(Texts[path])
        [] ~Exists(path) -> With(ErrorValue(<<"Input file stream is wrong">>), "projectDir", dir)
        [] OTHER -> With(YamlValue(Texts[path]), "projectDir", dir)

Asked(value, key) == IF IsList(At(value, key)) THEN At(value, key).list ELSE <<>>
\* The frame of value, whose key lists further files, sought from base.
Frame(value, key, base, paths) ==
  [value |-> value, key |-> key, left |-> Asked(value, key),
   acc |-> ObjectValue(<<>>), base |-> base, paths |-> paths]
Returned(f) ==
  CASE ~IsList(At(f.value, f.key)) -> f.value
    [] f.key = "includes" -> Merge(f.acc, f.value)
    [] OTHER -> Merge(f.value, f.acc)

Top == Last(frames)
Item == Head(Top.left)
ItemPath == At(Item, "path").string
Entry(path, kind) == [path |-> path, kind |-> kind, depth |-> Len(frames)]

\* ProcessImpl(argc, argv) takes the first word that is no option, known or not.
ProcessOptions == <<ValueOption("-ll", "--loglevel", "loglevel", "INFO")>>
Init ==
  \E args \in CommandLines :
    LET parsed == Parse(ProcessOptions, args)
        named == parsed.end = "parsed" /\ parsed.unknown # <<>>
        p == PathNamed[Head(parsed.unknown)]
        env == ProjectPlace :> Directory(p)
        frame == Frame(ReplaceAndCopy(LoadConfig(p), env), "includes", Directory(p), NullValue)
    IN  /\ stage = CASE parsed.end = "usage" -> "exited"
                     [] parsed.end = "faulted" -> "threw"
                     [] parsed.end = "parsed" /\ ~named -> "ready"
                     [] named /\ ~Loads(p) -> "threw"
                     [] OTHER -> "includes"
        /\ frames = IF stage = "includes" THEN <<frame>> ELSE <<>>
        /\ dictionary = IF named THEN env ELSE <<>>
        /\ read = IF named THEN <<[path |-> p, kind |-> "project", depth |-> 0]>> ELSE <<>>
        /\ config = Default
        /\ sent = NullValue /\ received = NullValue /\ hops = 0

Throws ==
  /\ stage' = "threw"
  /\ frames' = <<>>
  /\ UNCHANGED <<dictionary, config, read, wire>>

Push(path, kind, frame, env) ==
  /\ dictionary' = env
  /\ frames' = Append(frames, frame)
  /\ read' = Append(read, Entry(path, kind))
  /\ UNCHANGED <<stage, config, wire>>

(***************************************************************************)
(* parseSubProjects.  A relative path is one from the first project's      *)
(* directory, in an included project too.                                  *)
(***************************************************************************)
SubProjectEnv_FirstKept(path) == dictionary @@ SubProjectPlace :> Directory(path)
SubProjectEnv(path) == SubProjectPlace :> Directory(path) @@ dictionary
Include ==
  /\ stage = "includes"
  /\ Top.left # <<>>
  /\ IF ~IsString(At(Item, "path")) THEN Throws
     ELSE LET path == Within(Top.base, ItemPath)
              env == SubProjectEnv(path)
          IN  IF ~Loads(path) THEN Throws
              ELSE Push(path, "project",
                        Frame(ReplaceAndCopy(LoadConfig(path), env), "includes", Top.base, NullValue), env)

\* A file's value goes into what its includer has so far.
Return ==
  /\ stage \in {"includes", "shelves"}
  /\ Len(frames) > 1
  /\ Top.left = <<>>
  /\ LET below == Front(frames)
         v == ReplaceAndCopy(Returned(Top), dictionary)
     IN  frames' = [below EXCEPT ![Len(below)].acc = Merge(@, v),
                                 ![Len(below)].left = Tail(@)]
  /\ UNCHANGED <<stage, dictionary, config, read, wire>>

(***************************************************************************)
(* parseShelves.                                                           *)
(***************************************************************************)
FirstShelves ==
  /\ stage = "includes"
  /\ Len(frames) = 1
  /\ Top.left = <<>>
  /\ LET config1 == ConstIndexed(Returned(Top), "load_paths")
     IN  frames' = <<Frame(config1, "shelves", Top.base, At(config1, "load_paths"))>>
  /\ stage' = "shelves"
  /\ UNCHANGED <<dictionary, config, read, wire>>

\* findFileWithLoadPaths
Beside == Within(Top.base, ItemPath)
OnPath(i) == Within(Top.paths.list[i].string, ItemPath)
PathsThatHave == {i \in DOMAIN Top.paths.list : IsString(Top.paths.list[i]) /\ Exists(OnPath(i))}
PathsRead == \* the load paths up to the first that has the file
  {i \in DOMAIN Top.paths.list : \A j \in PathsThatHave : i <= j}
Searchable == \* what is read in the search is what it must be
  /\ IsString(At(Item, "path"))
  /\ \/ Exists(Beside)
     \/ IsList(Top.paths) /\ \A i \in PathsRead : IsString(Top.paths.list[i])
Places == IF Exists(Beside) THEN {Beside} ELSE {OnPath(i) : i \in PathsThatHave \cap PathsRead}

Shelf ==
  /\ stage = "shelves"
  /\ Top.left # <<>>
  /\ Searchable
  /\ \E path \in Places :
       LET env == ShelfPlace :> Directory(path) @@ dictionary
           v == Indexed(ReplaceAndCopy(LoadConfig(path), env), "load_paths")
       IN  IF ~Loads(path) THEN Throws
           ELSE Push(path, "shelf", Frame(v, "shelves", Directory(path), At(v, "load_paths")), env)
NoShelf == \* logged and passed over
  /\ stage = "shelves"
  /\ Top.left # <<>>
  /\ Searchable
  /\ Places = {}
  /\ frames' = [frames EXCEPT ![Len(frames)].left = Tail(@)]
  /\ UNCHANGED <<stage, dictionary, config, read, wire>>
ShelfThrows ==
  /\ stage = "shelves"
  /\ Top.left # <<>>
  /\ ~Searchable
  /\ Throws

Ready ==
  /\ stage = "shelves"
  /\ Len(frames) = 1
  /\ Top.left = <<>>
  /\ config' = Moved(ReplaceAndCopy(Merge(config, Returned(Top)), ProjectPlace :> Directory(read[1].path)))
  /\ stage' = "ready"
  /\ frames' = <<>>
  /\ UNCHANGED <<dictionary, read, wire>>

(***************************************************************************)
(* The wire.  A result crosses in an answer, then in a request that passes *)
(* it on, then in the answer to that, and so on.  Of what does not parse   *)
(* HTTP makes an error, the server one that quotes the text; nobody        *)
(* catches what is thrown of it at either end of a WebSocket.              *)
(***************************************************************************)
Keys(v) == IF IsObject(v) THEN DOMAIN v.object ELSE {}
InAnswer == hops % 2 = 0
Unparsed == ErrorValue(IF InAnswer THEN <<"JSONParseError">> ELSE <<"nerikir::toValue(", Quote>>)
Crossing(v) ==
  /\ hops' = hops + 1
  /\ \/ /\ JsonReads(ToJSON(v))
        /\ received' = JsonValue(ToJSON(v))
        /\ stage' = "serving"
     \/ /\ ~JsonReads(ToJSON(v))
        /\ \/ received' = Unparsed /\ stage' = "serving"
           \/ UNCHANGED received /\ stage' = "threw"
  /\ UNCHANGED <<frames, dictionary, config, read>>
Answer ==
  /\ stage = "ready"
  /\ \E v \in Results \cup {At(config, k) : k \in Keys(config)} :
       sent' = v /\ Crossing(v)
PassOn ==
  /\ stage = "serving"
  /\ hops < MaxHops
  /\ Crossing(received)
  /\ UNCHANGED sent

Next == Include \/ Return \/ FirstShelves \/ Shelf \/ NoShelf \/ ShelfThrows \/ Ready \/ Answer \/ PassOn
Spec == Init /\ [][Next]_vars

(***************************************************************************)
(* Properties.                                                             *)
(***************************************************************************)
RECURSIVE StringsOf(_)
StringsOf(v) ==
  CASE IsString(v) -> {v.string}
    [] IsList(v) -> UNION {StringsOf(v.list[i]) : i \in DOMAIN v.list}
    [] IsObject(v) -> UNION {StringsOf(v.object[k]) : k \in DOMAIN v.object}
    [] OTHER -> {}

\* A placeholder stands for the directory of the file that it is written in,
\* whatever was read between that file and the end, though all files share
\* one dictionary in which each puts its own directory (env_dictionary).
PlacesAreTheirOwn ==
  stage = "ready" =>
    \A s \in StringsOf(config) :
      s # <<>> /\ Last(s) \in DOMAIN Homes => Front(s) = Homes[Last(s)]

\* One file is included, directly or not, by the other.
IncludedBy(j, i) == i < j /\ \A m \in i + 1 .. j : read[m].depth > read[i].depth
\* Shelves are over the project, and a project over what it includes; of two
\* shelves or two included projects the one read later wins, with all it includes.
Stronger(j, i) ==
  LET over(a, b) == IF read[a].kind = "shelf" THEN a > b
                    ELSE IF a > b THEN ~IncludedBy(a, b) ELSE IncludedBy(b, a)
  IN  IF read[i].kind # read[j].kind THEN read[j].kind = "shelf" ELSE over(j, i)
\* An included JSON project with nothing in it is a null, which merge prefers to
\* all that its includer has had of earlier includes (json.cpp:62, value.cpp:280).
Blank(i) ==
  /\ read[i].kind = "project" /\ read[i].depth > 0
  /\ IsNKProj(read[i].path) /\ Exists(read[i].path)
  /\ Texts[read[i].path] = [node |-> "map", map |-> <<>>]
Includer(i) == Max({j \in 1 .. i - 1 : read[j].depth < read[i].depth})
Counted == {i \in DOMAIN read : \A j \in DOMAIN read : Blank(j) => i \notin Includer(j) + 1 .. j - 1}
Words(i) ==
  IF Exists(read[i].path) /\ Texts[read[i].path].node = "map" THEN Texts[read[i].path].map ELSE <<>>
Sayers(key) == {i \in Counted : key \in DOMAIN Words(i)}
Said == UNION {DOMAIN Words(i) : i \in Counted}

\* If the strongest of the files that say anything of a key says a number, the
\* process is configured with that number, whatever the others say of it
\* (parseSubProjects, parseShelves, merge).
StrongestWins ==
  stage = "ready" =>
    \A key \in Said : \A i \in Sayers(key) :
      /\ Words(i)[key].node = "int"
      /\ \A j \in Sayers(key) \ {i} : Stronger(i, j)
      => HasKey(config, key) /\ config.object[key] = IntValue(Words(i)[key].int)

\* If all files that say anything of a key say a list, with no item twice, the
\* process has a list there, and in it every number of theirs, once however many
\* of them say it.  Of load_paths a shelf that says nothing says a null
\* (processconfigparser.cpp, parseShelves), which wins.
ListsAreJoined ==
  stage = "ready" =>
    \A key \in Said :
      /\ \A i \in Sayers(key) : Words(i)[key].node = "seq" /\ IsInjective(Words(i)[key].seq)
      /\ key = "load_paths" => \A i \in DOMAIN read : read[i].kind = "shelf" => i \in Sayers(key)
      => /\ HasKey(config, key) /\ IsList(config.object[key])
         /\ \A i \in Sayers(key) : \A n \in DOMAIN Words(i)[key].seq :
              LET item == Words(i)[key].seq[n]
              IN  item.node = "int" =>
                    Cardinality({m \in DOMAIN config.object[key].list :
                                   config.object[key].list[m] = IntValue(item.int)}) = 1

\* Every file counts, each with its own strength, those aside that an included
\* blank JSON project wipes out.
EveryFileCounts == StrongestWins /\ ListsAreJoined

\* What a client may have for a value: an int for a bool, nothing for an object
\* with nothing in it, a double off by half of the text's last digit and one
\* part of what a float keeps, and for an error one whose message has the first.
DoublesAlike(n, m) ==
  IF n = NotFinite THEN m = n
  ELSE 2 * Size(n - m) * 2^FloatBits <= TextGrain * 2^FloatBits + 2 * Size(n) + TextGrain
Holds(s, t) == \E i \in 1 .. Len(s) - Len(t) + 1 : SubSeq(s, i, i + Len(t) - 1) = t
RECURSIVE Alike(_, _)
Alike(v, w) ==
  CASE v.type = "bool" -> w.type = "int" /\ w.int = IF v.bool THEN 1 ELSE 0
    [] v.type = "double" -> w.type = "double" /\ DoublesAlike(v.double, w.double)
    [] IsError(v) -> IsError(w) /\ Holds(w.error, v.error)
    [] IsList(v) -> /\ IsList(w)
                    /\ Len(w.list) = Len(v.list)
                    /\ \A i \in DOMAIN v.list : Alike(v.list[i], w.list[i])
    [] IsObject(v) /\ DOMAIN v.object # {} ->
                    /\ IsObject(w)
                    /\ DOMAIN w.object = DOMAIN v.object
                    /\ \A k \in DOMAIN v.object : Alike(v.object[k], w.object[k])
    [] IsObject(v) -> w.type = "null"
    [] OTHER -> w = v
\* What the text has no place for: pieces that JSON must escape, in messages of
\* errors too, an infinity, ints that fit 32 bits unsigned but not signed, and
\* an object with the key that stands for an error.
Plain(s) == \A i \in DOMAIN s : s[i] \notin {Quote, Control} \cup DOMAIN Escapes
RECURSIVE Writable(_)
Writable(v) ==
  CASE IsString(v) -> Plain(v.string)
    [] IsError(v) -> Plain(v.error)
    [] v.type = "double" -> v.double # NotFinite
    [] v.type = "int" -> v.int \notin IntLimit .. 2 * IntLimit - 1
    [] IsList(v) -> \A i \in DOMAIN v.list : Writable(v.list[i])
    [] IsObject(v) -> ~HasKey(v, "__ERROR__") /\ \A k \in DOMAIN v.object : Writable(v.object[k])
    [] OTHER -> TRUE

\* However often a value is passed on, what arrives is what was sent, errors
\* inside it included, and nothing is thrown: doubles as fine as the six decimals
\* of std::to_string and the 24 bits of GetFloat, however often they are rounded,
\* ints of 64 bits whole (toJSONString, construct, http_broker_proxy.cpp).
ValuesArrive == hops > 0 /\ Writable(sent) => stage = "serving" /\ Alike(sent, received)

RECURSIVE ErrorsIn(_, _)
ErrorsIn(v, w) == \* every error in v is one in w, or inside of one
  CASE IsError(w) -> TRUE
    [] IsError(v) -> FALSE
    [] IsList(v) -> \A i \in DOMAIN v.list :
         ErrorsIn(v.list[i], IF IsList(w) /\ i <= Len(w.list) THEN w.list[i] ELSE NullValue)
    [] IsObject(v) -> \A k \in DOMAIN v.object :
         ErrorsIn(v.object[k], IF HasKey(w, k) THEN w.object[k] ELSE NullValue)
    [] OTHER -> TRUE
\* An error never arrives as a value, be it deep in what was sent and be the text
\* one that does not parse (its message has quotes, json.cpp:133): then all of it
\* is an error, unless the client has an exception instead.
ErrorsStayErrors == hops > 0 /\ stage = "serving" => ErrorsIn(sent, received)

\* The two ends agree on what was sent, where the text has a place for it, and
\* anyhow on what was an error (json.cpp, http_broker_proxy.cpp,
\* ws_client_ixwebsocket.cpp).
EndsAgree == ValuesArrive /\ ErrorsStayErrors
==================================================================================
