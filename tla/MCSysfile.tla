------------------------------- MODULE MCSysfile -------------------------------
(* A small disk with one file, two processes, paths up to two names deep.        *)
EXTENDS Sysfile

u == <<7, "">>
f == <<"/", "f">>
a == <<"a">>
ab == <<"/", "a", "/", "b">>
up == <<"..">>

CallSet == {<<"open", f, "O_RDWR">>, <<"open", a, "O_CREATE">>, <<"open", up, "O_RDONLY">>,
            <<"mkdir", a, "T_DIR">>, <<"mkdir", ab, "T_DIR">>, <<"mkdir", ab, "T_DEV">>,
            <<"link", f, ab>>, <<"unlink", f>>, <<"unlink", a>>, <<"unlink", ab>>,
            <<"chdir", a>>, <<"exec", f>>}
Writes == {<<u, u, u, u, u, u>>}
ImageFiles == [n \in {"f"} |-> <<u>>]
ImageNames == <<"f">>
===============================================================================
