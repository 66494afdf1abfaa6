-------------------------------- MODULE ArgParse --------------------------------
(***************************************************************************)
(* ArgParser (utils/argparse.h): what is made of a command line, without   *)
(* the program's name.  A token is one word.                               *)
(***************************************************************************)
EXTENDS Sequences, SequencesExt, FiniteSetsExt, TLC

\* A flag, or an option that takes the token after it.
FlagOption(short, long, key) == [names |-> {short, long}, key |-> key, takesValue |-> FALSE, default |-> FALSE]
ValueOption(short, long, key, default) ==
  [names |-> {short, long}, key |-> key, takesValue |-> TRUE, default |-> default]

Defaults(options) ==
  [key \in {options[i].key : i \in DOMAIN options} |->
     LET i == CHOOSE j \in DOMAIN options : options[j].key = key IN options[i].default]

\* checkMatch: an option that was matched is not matched again.
Matching(options, results, token) ==
  {i \in DOMAIN options : options[i].key \notin DOMAIN results /\ token \in options[i].names}

\* What is known before the first token: at is what the loop does with the next.
Begun == [at |-> "options", waiting |-> "", results |-> <<>>, unknown |-> <<>>, error |-> FALSE]
ParseToken(options, parsed, token) ==
  LET matching == Matching(options, parsed.results, token)
      option == options[Min(matching)]
  IN  CASE parsed.at = "value" ->
             [parsed EXCEPT !.at = "options", !.results = @ @@ parsed.waiting :> token]
        [] parsed.at = "rest" -> [parsed EXCEPT !.unknown = Append(@, token)]
        [] parsed.at = "usage" -> parsed
        [] parsed.at = "options" /\ token \in {"-h", "--help"} -> [parsed EXCEPT !.at = "usage"]
        [] parsed.at = "options" /\ token = "--" -> [parsed EXCEPT !.at = "rest"]
        [] OTHER ->
             CASE matching = {} ->
                    [parsed EXCEPT !.at = "rest", !.error = TRUE, !.unknown = <<token>>]
               [] matching # {} /\ option.takesValue ->
                    [parsed EXCEPT !.at = "value", !.waiting = option.key]
               [] OTHER -> [parsed EXCEPT !.results = @ @@ option.key :> TRUE]

\* A value option that is the last token reads behind the end of the vector, and
\* the loop, which only asks whether it is at the end, runs on until it faults.
Parse(options, args) ==
  LET parsed == FoldLeft(LAMBDA p, token : ParseToken(options, p, token), Begun, args)
  IN  [end |-> CASE parsed.at = "usage" -> "usage" [] parsed.at = "value" -> "faulted" [] OTHER -> "parsed",
       results |-> parsed.results @@ Defaults(options),
       unknown |-> parsed.unknown, error |-> parsed.error]
=================================================================================
