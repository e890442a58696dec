-------------------------------- MODULE Parser --------------------------------
(***************************************************************************)
(* The parser of the shell (uprogs/sh.c).  A line is a sequence of tokens, *)
(* as gettoken() returns them: a symbol, or a word.  A parser takes and    *)
(* returns r = [t, c, ok]: the tokens left, the command so far, and        *)
(* whether the process is still there (panic() ends it).                   *)
(***************************************************************************)
EXTENDS Naturals, Sequences, SequencesExt

CONSTANT MAXARGS   \* size of execcmd.argv, its final 0 included

Redirs == {"<", ">", ">>"}
Symbols == Redirs \cup {"|", "&", ";", "(", ")"}

execcmd(argv) == [type |-> "EXEC", argv |-> argv]
pipecmd(left, right) == [type |-> "PIPE", left |-> left, right |-> right]
listcmd(left, right) == [type |-> "LIST", left |-> left, right |-> right]
backcmd(cmd) == [type |-> "BACK", cmd |-> cmd]
redircmd(cmd, file, tok) ==
    [type |-> "REDIR", cmd |-> cmd, file |-> file, create |-> tok # "<", fd |-> IF tok = "<" THEN 0 ELSE 1]

syntax == [t |-> <<>>, c |-> execcmd(<<>>), ok |-> FALSE]

peek(r, toks) == r.ok /\ r.t # <<>> /\ Head(r.t) \in toks
gettoken(r) == [r EXCEPT !.t = Tail(@)]

\* cmd points to the execcmd inside the redirections that are wrapped around it.
RECURSIVE AddArg(_, _)
AddArg(c, w) ==
    IF c.type = "EXEC" THEN [c EXCEPT !.argv = Append(@, w)] ELSE [c EXCEPT !.cmd = AddArg(@, w)]

RECURSIVE parseredirs(_)
parseredirs(r) ==
    IF ~peek(r, Redirs) THEN r
    ELSE IF Len(r.t) = 1 \/ r.t[2] \in Symbols THEN syntax
    ELSE parseredirs([gettoken(gettoken(r)) EXCEPT !.c = redircmd(r.c, r.t[2], r.t[1])])

\* The limit on arguments leaves room for the final 0.  (Mutant: it does not.)
TooManyForArgv(argc) == argc > MAXARGS
TooManyArgs(argc) == argc >= MAXARGS

RECURSIVE parseargs(_, _)
parseargs(r, argc) ==
    IF ~r.ok \/ r.t = <<>> \/ peek(r, {"|", ")", "&", ";"}) THEN r
    ELSE IF Head(r.t) \in Symbols \/ TooManyArgs(argc + 1) THEN syntax
    ELSE parseargs(parseredirs([gettoken(r) EXCEPT !.c = AddArg(@, Head(r.t))]), argc + 1)

parseback(r) ==
    LET amps == SelectInSeq(r.t, LAMBDA x : x # "&")
        n == IF amps = 0 THEN Len(r.t) ELSE amps - 1
        back[i \in 0..n] == IF i = 0 THEN r.c ELSE backcmd(back[i - 1])
    IN  IF r.ok THEN [r EXCEPT !.t = SubSeq(@, n + 1, Len(@)), !.c = back[n]] ELSE r

\* The command c of r is joined with what another parser makes of the rest.
Join(r, Mk(_, _), rest) == IF rest.ok THEN [rest EXCEPT !.c = Mk(r.c, rest.c)] ELSE syntax

RECURSIVE parseline(_), parsepipe(_), parseexec(_)
parseline(r) ==
    LET l == parseback(parsepipe(r))
    IN  IF peek(l, {";"}) THEN Join(l, listcmd, parseline(gettoken(l))) ELSE l

parsepipe(r) ==
    LET l == parseexec(r)
    IN  IF peek(l, {"|"}) THEN Join(l, pipecmd, parsepipe(gettoken(l))) ELSE l

parseblock(r) ==
    LET l == parseline(gettoken(r))
    IN  IF peek(l, {")"}) THEN parseredirs(gettoken(l)) ELSE syntax

parseexec(r) ==
    IF peek(r, {"("}) THEN parseblock(r)
    ELSE parseargs(parseredirs([r EXCEPT !.c = execcmd(<<>>)]), 0)

\* parsecmd(): nothing may be left of the line.
parsecmd(line) ==
    LET r == parseline([t |-> line, c |-> execcmd(<<>>), ok |-> TRUE])
    IN  IF r.t = <<>> THEN r ELSE syntax

-------------------------------------------------------------------------------
(* The grammar: the commands that a line can be read as                    *)

Before(t, i) == SubSeq(t, 1, i - 1)
After(t, i) == SubSeq(t, i + 1, Len(t))
At(t, x) == {i \in DOMAIN t : t[i] = x}
EndsInRedir(t) == Len(t) >= 2 /\ t[Len(t) - 1] \in Redirs /\ Last(t) \notin Symbols
Redirected(t, C) == {redircmd(c, Last(t), t[Len(t) - 1]) : c \in C}

RECURSIVE Args(_), Line(_), Jobs(_), Pipeline(_), Block(_), Simple(_)
Args(c) == IF c.type = "EXEC" THEN Len(c.argv) ELSE Args(c.cmd)
Line(t) == Jobs(t) \cup UNION {{listcmd(l, r) : l \in Jobs(Before(t, i)), r \in Line(After(t, i))} : i \in At(t, ";")}
Jobs(t) == Pipeline(t) \cup IF t # <<>> /\ Last(t) = "&" THEN {backcmd(c) : c \in Jobs(Front(t))} ELSE {}
Pipeline(t) ==
    LET Stage(u) == Simple(u) \cup Block(u)
    IN  Stage(t) \cup UNION {{pipecmd(l, r) : l \in Stage(Before(t, i)), r \in Pipeline(After(t, i))} : i \in At(t, "|")}
Block(t) ==
    IF EndsInRedir(t) THEN Redirected(t, Block(SubSeq(t, 1, Len(t) - 2)))
    ELSE IF Len(t) >= 2 /\ t[1] = "(" /\ Last(t) = ")" THEN Line(SubSeq(t, 2, Len(t) - 1)) ELSE {}
Simple(t) ==
    IF t = <<>> THEN {execcmd(<<>>)}
    ELSE IF EndsInRedir(t) THEN Redirected(t, Simple(SubSeq(t, 1, Len(t) - 2)))
    ELSE IF Last(t) \in Symbols THEN {}
    ELSE {AddArg(c, Last(t)) : c \in {d \in Simple(Front(t)) : Args(d) + 1 < MAXARGS}}
===============================================================================
