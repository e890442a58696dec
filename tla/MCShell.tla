-------------------------------- MODULE MCShell --------------------------------
(* Lines with every kind of command, and all short lines for the parser.          *)
EXTENDS Shell

ScriptSet == {<<<<"echo", "x", "y", "|", "cat">>, <<"EOF">>, <<"cd", "d">>, <<"echo", "z">>>>,
              <<<<"echo", "x", "|", "cat", "|", "cat">>>>,
              <<<<"(", "echo", "x", ";", "nope", ")", ">", "f", ";", "cat", "<", "f", "|", "cat">>>>,
              <<<<"cat", "f", "|", "echo", "x", "&">>, <<"echo", "y">>>>,
              <<<<"echo", "x", ">>", "g">>, <<"cat", "g", "f">>>>,
              <<<<"(", "echo", "x", ";", ")", "|", "(", "nope", ";", ")">>>>,
              <<<<"cat", "<", "h", ";">>, <<"(", "echo">>, <<"echo", "x">>>>,
              <<<<"other">>>>,
              <<<<"other", "&">>, <<"cat", "f">>>>}
Boot == [n \in {"f"} |-> <<"u", "v">>]
Token == {"w", "|", "&", ";", "(", ")", "<"}
ShortLines == UNION {[1..n -> Token] : n \in 0..5}
===============================================================================
