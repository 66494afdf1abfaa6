--------------------------------- MODULE Values ---------------------------------
(***************************************************************************)
(* juiz::Value (value.h, value.cpp): what configurations, arguments and    *)
(* results are made of, how it is read, merged and substituted, and what   *)
(* its texts make of it: JSON (utils/json.cpp) between processes and in    *)
(* .nkproj files, YAML (utils/yaml.cpp) in other project files.            *)
(*                                                                         *)
(* A string or a message is a sequence of pieces, a double a whole number  *)
(* of steps or NotFinite.  Of what a double is exact to, a decimal text    *)
(* keeps the multiples of TextGrain and a float FloatBits binary digits.   *)
(* Keys have no dots and nothing that JSON must escape, a byte array is a  *)
(* model value.                                                            *)
(***************************************************************************)
EXTENDS Integers, Sequences, SequencesExt, FiniteSetsExt, TLC

CONSTANTS
  IntLimit,       \* 2^31, scaled down: what an int ends at
  FloatBits,      \* 24, scaled down
  FloatExponent,  \* of the largest float's last digit
  TextGrain,      \* 10^-6, the last digit that std::to_string writes
  NotFinite,      \* an infinity, or no number
  Quote, Control, \* pieces with a double quote, with a control character
  Escapes         \* Escapes[p]: what a JSON parser reads p, a backslash and more, as

ASSUME LimitAssumption == IntLimit \in Nat \ {0}
ASSUME DoubleAssumption == FloatBits \in Nat \ {0} /\ FloatExponent \in Nat /\ TextGrain \in Nat \ {0}

NullValue == [type |-> "null"]
ErrorValue(msg) == [type |-> "error", error |-> msg]
BoolValue(b) == [type |-> "bool", bool |-> b]
IntValue(n) == [type |-> "int", int |-> n]
DoubleValue(n) == [type |-> "double", double |-> n]
StringValue(s) == [type |-> "string", string |-> s]
BytesValue(b) == [type |-> "byte", byte |-> b]
ListValue(s) == [type |-> "list", list |-> s]
ObjectValue(f) == [type |-> "object", object |-> f]
IsList(v) == v.type = "list"
IsObject(v) == v.type = "object"
IsString(v) == v.type = "string"
IsError(v) == v.type = "error"

(***************************************************************************)
(* Reading and writing.  at() answers an error where there is nothing,     *)
(* whose message has the key in quotes; operator[] puts a null there, also *)
(* in a const object.  What is moved into a place that exists,             *)
(* operator=(Value&&), stays what it is unless it is a null: that becomes  *)
(* an error.                                                               *)
(***************************************************************************)
HasKey(v, key) == IsObject(v) /\ key \in DOMAIN v.object
At(v, key) == IF HasKey(v, key) THEN v.object[key] ELSE ErrorValue(<<"Value::at", Quote, key, Quote>>)
Inserted(v, key) == \* operator[] of an object that may change, or of a const one
  IF HasKey(v, key) THEN v ELSE ObjectValue(v.object @@ key :> NullValue)
Indexed(v, key) == IF IsObject(v) THEN Inserted(v, key) ELSE ObjectValue(key :> NullValue)
ConstIndexed(v, key) == IF IsObject(v) THEN Inserted(v, key) ELSE v
With(v, key, w) == ObjectValue(key :> w @@ Indexed(v, key).object)
Moved(v) == IF v.type = "null" THEN ErrorValue(<<"typecode is unknown">>) ELSE v

\* operator==: neither two nulls nor two errors are equal.
RECURSIVE Same(_, _)
Same(v, w) ==
  /\ v.type = w.type
  /\ v.type \notin {"null", "error"}
  /\ CASE IsList(v) -> /\ Len(v.list) = Len(w.list)
                       /\ \A i \in DOMAIN v.list : Same(v.list[i], w.list[i])
       [] IsObject(v) -> /\ DOMAIN v.object = DOMAIN w.object
                         /\ \A k \in DOMAIN v.object : Same(v.object[k], w.object[k])
       [] OTHER -> v = w

\* The second value is the stronger one; lists are joined, its items first.
RECURSIVE Merge(_, _)
Merge_FirstWins(v, w) ==
  LET in(k) == CASE ~HasKey(w, k) -> v.object[k]
                 [] ~HasKey(v, k) -> w.object[k]
                 [] OTHER -> v.object[k]
  IN  IF IsObject(v) /\ IsObject(w)
      THEN ObjectValue([k \in DOMAIN v.object \cup DOMAIN w.object |-> in(k)]) ELSE w
Merge(v, w) ==
  LET new(x) == \A i \in DOMAIN w.list : ~Same(w.list[i], x)
      in(k) == CASE ~HasKey(w, k) -> v.object[k]
                 [] ~HasKey(v, k) -> w.object[k]
                 [] OTHER -> Moved(Merge(v.object[k], w.object[k]))
  IN  CASE IsList(v) /\ IsList(w) -> ListValue(w.list \o SelectSeq(v.list, new))
        [] IsObject(v) /\ IsObject(w) ->
             ObjectValue([k \in DOMAIN v.object \cup DOMAIN w.object |-> in(k)])
        [] OTHER -> w

\* replaceAndCopy: dictionary[placeholder] is a sequence of pieces.
RECURSIVE ReplaceAndCopy(_, _)
ReplaceAndCopy(v, dictionary) ==
  LET piece(p) == IF p \in DOMAIN dictionary THEN dictionary[p] ELSE <<p>>
  IN  CASE IsObject(v) ->
             ObjectValue([k \in DOMAIN v.object |-> Moved(ReplaceAndCopy(v.object[k], dictionary))])
        [] IsList(v) ->
             ListValue([i \in DOMAIN v.list |-> ReplaceAndCopy(v.list[i], dictionary)])
        [] IsString(v) ->
             StringValue(FlattenSeq([i \in DOMAIN v.string |-> piece(v.string[i])]))
        [] OTHER -> v

(***************************************************************************)
(* Texts, as the trees their parsers make of them.                         *)
(***************************************************************************)
Size(n) == IF n < 0 THEN -n ELSE n
Nearest(n, grain) == \* the multiple of grain nearest to n, of two the even one
  LET below == n \div grain
      up == \/ 2 * (n % grain) > grain
            \/ 2 * (n % grain) = grain /\ below % 2 = 1
  IN  IF up THEN grain * (below + 1) ELSE grain * below
FloatMax == (2^FloatBits - 1) * 2^FloatExponent
FloatGrain(n) == 2^Min({FloatExponent} \cup {k \in 0 .. FloatExponent : Size(n) < 2^(FloatBits + k)})
Float(n) == Nearest(n, FloatGrain(n)) \* std::stof, GetFloat
\* GetFloat of what IsFloat takes for one, GetDouble of what is larger.
JsonDouble(n) == IF Size(n) <= FloatMax THEN Float(n) ELSE n
Int32_Always(n) == ((n + IntLimit) % (2 * IntLimit)) - IntLimit
Int32(n) == IF n \in IntLimit .. 2 * IntLimit - 1 THEN n - 2 * IntLimit ELSE n

\* construct of json.cpp.  It throws on a null.
Unescaped(piece) == IF piece \in DOMAIN Escapes THEN Escapes[piece] ELSE piece
RECURSIVE JsonReads(_), JsonValue(_)
JsonReads(text) ==
  /\ text.node \notin {"null", "broken"}
  /\ text.node = "seq" => \A i \in DOMAIN text.seq : JsonReads(text.seq[i])
  /\ text.node = "map" => \A k \in DOMAIN text.map : JsonReads(text.map[k])
JsonValue(text) ==
  CASE text.node = "bool" -> BoolValue(text.bool)
    [] text.node = "int" -> IntValue(Int32(text.int))
    [] text.node = "float" -> DoubleValue(JsonDouble(text.float))
    [] text.node = "text" -> StringValue([i \in DOMAIN text.text |-> Unescaped(text.text[i])])
    [] text.node = "seq" -> ListValue([i \in DOMAIN text.seq |-> JsonValue(text.seq[i])])
    [] text.node = "map" /\ "__ERROR__" \in DOMAIN text.map -> ErrorValue(JsonValue(text.map["__ERROR__"]).string)
    [] text.node = "map" /\ "__byte64__" \in DOMAIN text.map -> BytesValue(text.map["__byte64__"].base64)
    [] text.node = "map" /\ DOMAIN text.map = {} -> NullValue
    [] OTHER -> ObjectValue([k \in DOMAIN text.map |-> JsonValue(text.map[k])])

\* toJSONString.  Neither strings nor messages are escaped, and an infinity is
\* written by its name.
JsonOfString(s) ==
  IF Contains(s, Quote) \/ Contains(s, Control) THEN [node |-> "broken"] ELSE [node |-> "text", text |-> s]
ErrorText(v) == <<"Value is error('">> \o v.error \o <<"').">>
JsonOfError(v) == [node |-> "map", map |-> "__ERROR__" :> JsonOfString(ErrorText(v))]
JsonOfDouble(n) == IF n = NotFinite THEN [node |-> "broken"] ELSE [node |-> "float", float |-> Nearest(n, TextGrain)]
RECURSIVE ToJSON(_)
ToJSON(v) ==
  CASE v.type = "bool" -> [node |-> "int", int |-> IF v.bool THEN 1 ELSE 0]
    [] v.type = "int" -> [node |-> "int", int |-> v.int]
    [] v.type = "double" -> JsonOfDouble(v.double)
    [] IsString(v) -> JsonOfString(v.string)
    [] IsObject(v) -> [node |-> "map", map |-> [k \in DOMAIN v.object |-> ToJSON(v.object[k])]]
    [] IsList(v) -> [node |-> "seq", seq |-> [i \in DOMAIN v.list |-> ToJSON(v.list[i])]]
    [] v.type = "byte" -> [node |-> "map", map |-> "__byte64__" :> [node |-> "base64", base64 |-> v.byte]]
    [] v.type = "null" -> [node |-> "map", map |-> <<>>]
    [] v.type = "error" -> JsonOfError(v)

\* toYAMLString of yaml.cpp lays out the same tree.  Lists in lists are left out.
ToYAML(v) == ToJSON(v)

\* construct of yaml.cpp.  A scalar's type is read off its text, quoted or
\* not.  The sign of a base 2 or 16 integer hides its digits, base 60 is none
\* that stoi takes, a base 8 integer loses its sign, and nothing but dots is
\* taken for a float that stof finds no number in.
YamlBase(text) == IF "base" \in DOMAIN text THEN text.base ELSE 10
RECURSIVE YamlReads(_), YamlValue(_)
YamlReads(text) ==
  /\ text.node = "int" =>
       /\ YamlBase(text) # 60
       /\ YamlBase(text) \in {2, 16} => "sign" \notin DOMAIN text
       /\ text.int \in -IntLimit .. IntLimit - 1
  /\ text.node = "float" => text.float = NotFinite \/ Size(Float(text.float)) <= FloatMax
  /\ text.node # "dots"
  /\ text.node = "seq" => \A i \in DOMAIN text.seq : YamlReads(text.seq[i])
  /\ text.node = "map" => \A k \in DOMAIN text.map : YamlReads(text.map[k])
YamlValue(text) ==
  CASE text.node = "bool" -> BoolValue(text.bool)
    [] text.node = "int" -> IntValue(IF YamlBase(text) = 8 /\ text.int < 0 THEN -text.int ELSE text.int)
    [] text.node = "float" -> DoubleValue(IF text.float = NotFinite THEN NotFinite ELSE Float(text.float))
    [] text.node = "text" -> StringValue(text.text)
    [] text.node = "map" -> ObjectValue([k \in DOMAIN text.map |-> Moved(YamlValue(text.map[k]))])
    [] text.node = "seq" -> ListValue([i \in DOMAIN text.seq |-> YamlValue(text.seq[i])])
    [] text.node = "broken" -> ErrorValue(<<"YAML::ParserException">>)
    [] OTHER -> NullValue
=================================================================================
