--------------------------- MODULE MCSharedHistory ---------------------------
EXTENDS SharedHistory

CONSTANTS s1, s2

Small == [enabled |-> TRUE, fileSize |-> 2, size |-> 2, timestamped |-> TRUE,
          ignore |-> {"whitespace", "duplicates", "no_such_command"}]
Large == [enabled |-> TRUE, fileSize |-> 3, size |-> 3, timestamped |-> FALSE,
          ignore |-> {"regex"}]
Off == [enabled |-> FALSE, fileSize |-> 2, size |-> 2, timestamped |-> FALSE, ignore |-> {"all"}]

Basic == [keys |-> 0, lines |-> 4, faults |-> 0, texts |-> {<<"a">>, <<"b">>}, file |-> <<>>,
          clipboard |-> <<"b", Newline>>, configs |-> {Small}, typists |-> Shells]

(* Records of a file written before sessions were marked.                  *)
Legacy == <<CommandLine(<<"a">>), TimeLine(9), CommandLine(<<"b">>)>>

(* Two shells with different limits; a shell may die.                      *)
Sharing == [Basic EXCEPT !.lines = 3, !.faults = 1, !.file = Legacy, !.configs = {Small, Large}]

(* The kinds of commands and the rules that ignore them.                   *)
Commands == [Basic EXCEPT !.lines = 3, !.configs = {Small, Off}, !.file = Legacy,
                          !.texts = {<<"a">>, <<Space, "a">>, <<"a", Newline, "b">>,
                                     <<Unknown>>, <<Compact>>, <<Exit>>}]

(* Blocks, ended, cancelled or cut short.                                  *)
Blocks == [Basic EXCEPT !.keys = 1, !.configs = {Large}, !.typists = {s1},
                        !.texts = {<<"a">>, <<Opener>>, <<End>>}]

(* Keys, over a recall list of two lines.                                  *)
Editing == [Basic EXCEPT !.keys = 4, !.lines = 1, !.file = Legacy, !.typists = {s1},
                         !.texts = {<<"a">>, <<"a", Space, "b">>}]

MCScenarios == {Sharing, Commands, Blocks, Editing}

MCCharacters == {"a", "b", ".", Space, Newline, Mark, Opener, End, Unknown, Compact, Exit}
MCKeys == EditingKeys \cup MovingKeys \cup {"a", Space, Mark}
MCBuiltins == {<<"a", "b", "a">>, <<"a", "b", "b">>}
MCPaths == {<<"a", "b", "a">>, <<".", "a">>}
=============================================================================
