----------------------------- MODULE MCConfiguration -----------------------------
(***************************************************************************)
(* Six projects: one in JSON and one in YAML that include two projects,    *)
(* one of them including a third from a directory further down, and have   *)
(* shelves, one of them with a shelf of its own further down and one found *)
(* on a load path; one whose includes a blank JSON project wipes out in    *)
(* part; an empty one; one that misses a shelf; and one with a text of     *)
(* dots, which is not read.  Numbers and lists overlap in all of them.     *)
(***************************************************************************)
EXTENDS Configuration

CONSTANTS root, home, sub, far, lib, nk, jp, wk, empty, blank, broken, bad, dotted, inc, inc2, deep, gone,
          shelf, shelf2, inner, m0, m1, m2, m3, m4, m5, m6, b, newline

Num(n) == [node |-> "int", int |-> n]
Txt(s) == [node |-> "text", text |-> s]
Seq1(s) == [node |-> "seq", seq |-> s]
Map1(f) == [node |-> "map", map |-> f]
Path1(s) == Map1("path" :> Txt(s))
Nums(S) == Seq1(SetToSeq({Num(n) : n \in S}))

Top1(mark) ==
  [n |-> Num(1), p |-> Num(1), l |-> Nums({1, 2}), dir |-> Txt(<<ProjectPlace, mark>>),
   o |-> Map1([a |-> Num(1), c |-> Txt(<<ProjectPlace, mark>>)]),
   includes |-> Seq1(<<Path1(<<sub, inc>>), Path1(<<gone>>), Path1(<<ProjectPlace, inc2>>)>>),
   shelves |-> Seq1(<<Path1(<<sub, shelf>>), Path1(<<gone>>), Path1(<<shelf2>>)>>),
   load_paths |-> Seq1(<<Txt(<<root, lib>>)>>)]
MCTexts ==
  (<<root, home, nk>> :> Map1([t |-> [node |-> "bool", bool |-> TRUE], e |-> Map1(<<>>)] @@ Top1(m0)))
  @@ (<<root, home, jp>> :> Map1([x |-> [node |-> "null"], e |-> Seq1(<<[node |-> "null"]>>)] @@ Top1(m0)))
  @@ (<<root, home, empty>> :> Map1(<<>>))
  @@ (<<root, home, bad>> :> Map1([n |-> Num(1), shelves |-> Seq1(<<Path1(<<sub, far, inner>>), Path1(<<shelf2>>)>>)]))
  @@ (<<root, home, dotted>> :> Map1([n |-> [node |-> "dots"]]))
  @@ (<<root, home, broken>> :> [node |-> "broken"])
  @@ (<<root, home, blank>> :> Map1(<<>>))
  @@ (<<root, home, wk>> :>
        Map1([n |-> Num(1), l |-> Nums({1, 2}), f |-> [node |-> "float", float |-> 23],
              includes |-> Seq1(<<Path1(<<sub, inc>>), Path1(<<broken>>), Path1(<<blank>>), Path1(<<inc2>>)>>)]))
  @@ (<<root, home, sub, inc>> :>
        Map1([n |-> Num(2), q |-> Num(2), r |-> Num(2), l |-> Nums({2, 3}), d2 |-> Txt(<<SubProjectPlace, m1>>),
              includes |-> Seq1(<<Path1(<<sub, far, deep>>)>>)]))
  @@ (<<root, home, sub, far, deep>> :>
        Map1([n |-> Num(3), q |-> Num(3), r |-> Num(3), u |-> Num(3), l |-> Nums({4}),
              o |-> Map1([a |-> Num(9), g |-> Txt(<<SubProjectPlace, m2>>)])]))
  @@ (<<root, home, inc2>> :>
        Map1([q |-> Num(5), u |-> Num(5), l |-> Nums({5, 1}), d3 |-> Txt(<<SubProjectPlace, m3>>),
              big |-> [node |-> "int", int |-> 5, base |-> 16],
              inf |-> [node |-> "float", float |-> NotFinite], f |-> [node |-> "float", float |-> 45]]))
  @@ (<<root, home, sub, shelf>> :>
        Map1([p |-> Num(6), s |-> Num(6), v |-> Num(6), l |-> Nums({6}), d4 |-> Txt(<<ShelfPlace, m4>>),
              shelves |-> Seq1(<<Path1(<<far, inner>>)>>)]))
  @@ (<<root, home, sub, far, inner>> :> Map1([s |-> Num(7), v |-> Num(7), d5 |-> Txt(<<ShelfPlace, m5>>)]))
  @@ (<<root, lib, shelf2>> :>
        Map1([v |-> Num(4), l |-> Nums({7, 2}), d6 |-> Txt(<<ShelfPlace, m6>>)]))
MCHomes ==
  (m0 :> <<root, home>>) @@ (m1 :> <<root, home, sub>>) @@ (m2 :> <<root, home, sub, far>>)
  @@ (m3 :> <<root, home>>) @@ (m4 :> <<root, home, sub>>) @@ (m5 :> <<root, home, sub, far>>) @@ (m6 :> <<root, lib>>)
MCPathNamed ==
  "app.nkproj" :> <<root, home, nk>> @@ "app.jproj" :> <<root, home, jp>>
  @@ "empty.nkproj" :> <<root, home, empty>> @@ "bad.nkproj" :> <<root, home, bad>>
  @@ "wiped.nkproj" :> <<root, home, wk>> @@ "dotted.jproj" :> <<root, home, dotted>>
MCCommandLines ==
  {<<>>, <<"-h">>, <<"-ll">>, <<"-ll", "DEBUG">>, <<"app.nkproj">>, <<"-ll", "DEBUG", "app.jproj", "-h">>,
   <<"--", "empty.nkproj">>, <<"bad.nkproj", "app.nkproj">>, <<"wiped.nkproj">>, <<"dotted.jproj">>}
MCDefault == ObjectValue([o |-> ObjectValue([a |-> IntValue(0), b |-> ListValue(<<>>)]), n |-> IntValue(0)])

MCEscapes == "\\n" :> newline
MCControl == newline
Messages == {<<m0>>, <<m0, Quote, m1, Quote>>}
Leaves ==
  {NullValue, BytesValue(b), ListValue(<<>>), ObjectValue(<<>>)}
  \cup {StringValue(s) : s \in Messages \cup {<<m0, newline>>, <<m0, "\\n">>}}
  \cup {ErrorValue(s) : s \in Messages}
  \cup {BoolValue(v) : v \in BOOLEAN} \cup {DoubleValue(n) : n \in {-3, 23, 97, NotFinite}}
  \cup {IntValue(n) : n \in {-1, IntLimit - 1, IntLimit}}
Numbers ==
  {DoubleValue(n) : n \in -FloatMax - 8 .. FloatMax + 8}
  \cup {IntValue(n) : n \in -2 * IntLimit - 1 .. 2 * IntLimit + 1}
MCResults ==
  Leaves \cup Numbers
  \cup {ListValue(<<v, w>>) : v, w \in Leaves} \cup {ObjectValue([x |-> v, y |-> w]) : v, w \in Leaves}
  \cup {ObjectValue([x |-> ListValue(<<ObjectValue([y |-> v])>>)]) : v \in Leaves}
  \cup {ObjectValue("__ERROR__" :> StringValue(s)) : s \in Messages}
==================================================================================
