--------------------------------- MODULE Shell ---------------------------------
(***************************************************************************)
(* init (uprogs/init.c), the shell (sh.c) and the commands it runs (cat.c, *)
(* echo.c, and one that makes calls as it likes), on the calls of module   *)
(* Files: every step below that changes the kernel is one of these calls.  *)
(*                                                                         *)
(* A process is a list of steps that it still has to take, each of them a  *)
(* system call.  The steps of different processes interleave.              *)
(***************************************************************************)
EXTENDS Files, Parser

CONSTANTS OtherCalls,  \* the calls that the program "other" makes
          Scripts,     \* the lines that are typed, one after the other
          AllLines     \* what the parser is checked with

VARIABLES
    prog,      \* process -> the steps to take, int p[2], what fork() returned
    panic,     \* init has called exit()
    script,    \* the lines still to be typed
    want       \* history: what the lines typed so far should have written, if that is known

vars == <<kernel, prog, panic, script, want>>

NoProg == [todo |-> <<>>, p |-> <<-1, -1>>, pid |-> None]

\* The descriptors p[0] and p[1] of a process, as arguments of calls.
p0 == NOFILE
p1 == NOFILE + 1
Arg(p, fd) == IF fd >= p0 THEN prog[p].p[fd - p0 + 1] ELSE fd

\* The steps.
exit == [op |-> "exit"]
close(fd) == [op |-> "close", fd |-> fd]
dup(fd) == [op |-> "dup", fd |-> fd]
open(name, create, rd, wr) == [op |-> "open", name |-> name, create |-> create, rd |-> rd, wr |-> wr]
pipe == [op |-> "pipe"]
fork(child) == [op |-> "fork", child |-> child]
wait == [op |-> "wait"]
exec(argv) == [op |-> "exec", argv |-> argv]
read(fd) == [op |-> "read", fd |-> fd]
write(fd, data) == [op |-> "write", fd |-> fd, data |-> data]
prompt == [op |-> "getcmd"]
any == [op |-> "any"]

-------------------------------------------------------------------------------
(* The programs                                                            *)

\* The two sides of a pipeline and the process that starts them.  (Mutants: the right
\* side keeps the write end; the shell waits for one side only.)
KeepsWriteEnd == <<close(0), dup(p0), close(p0)>>
RightSide == <<close(0), dup(p0), close(p0), close(p1)>>
LeftSide == <<close(1), dup(p1), close(p0), close(p1)>>
WaitsOnce == <<close(p0), close(p1), wait, exit>>
AfterForks == <<close(p0), close(p1), wait, wait, exit>>

RECURSIVE runcmd(_)
runcmd(c) ==
    CASE c.type = "EXEC" -> IF c.argv = <<>> THEN <<exit>> ELSE <<exec(c.argv), exit>>
      [] c.type = "REDIR" -> <<close(c.fd), open(c.file, c.create, ~c.create, c.create)>> \o runcmd(c.cmd)
      [] c.type = "LIST" -> <<fork(runcmd(c.left)), wait>> \o runcmd(c.right)
      [] c.type = "PIPE" -> <<pipe, fork(LeftSide \o runcmd(c.left)), fork(RightSide \o runcmd(c.right))>> \o AfterForks
      [] c.type = "BACK" -> <<fork(runcmd(c.cmd)), exit>>

\* sh.c main(): the console is opened until descriptors 0, 1 and 2 are in use.
sh == <<[op |-> "console"], prompt>>

\* init.c main().  The console is made with mknod() when it is not there.
Forever == <<fork(<<exec(<<"sh">>), exit>>), [op |-> "reap"]>>
init == <<open("console", TRUE, TRUE, TRUE), dup(0), dup(0)>> \o Forever

\* cat.c and echo.c; echo writes one argument at a time.
cat(args) ==
    IF args = <<>> THEN <<read(0), exit>>
    ELSE FlattenSeq([i \in DOMAIN args |-> <<open(args[i], FALSE, TRUE, FALSE), read(p0), close(p0)>>]) \o <<exit>>
echo(args) == [i \in DOMAIN args |-> write(1, <<args[i]>>)] \o <<exit>>

\* Another program, which takes and closes descriptors in its own order and may use up what there is.
other == [i \in 1..OtherCalls |-> any] \o <<exit>>
program(argv) ==
    CASE argv[1] = "cat" -> cat(Tail(argv))
      [] argv[1] = "echo" -> echo(Tail(argv))
      [] argv[1] = "sh" -> sh
      [] argv[1] = "other" -> other

-------------------------------------------------------------------------------
(* What a command should do: the text it writes, the input it leaves, and  *)
(* the files afterwards.                                                   *)

RECURSIVE Eval(_, _, _), Copy(_, _, _)
Copy(args, in, before) ==
    IF args = <<>> \/ Head(args) \notin DOMAIN before THEN <<>>
    ELSE before[Head(args)] \o Copy(Tail(args), in, before)
Eval(c, in, before) ==
    CASE c.type = "EXEC" ->
           LET argv == c.argv \o <<"">>
           IN  CASE argv[1] = "echo" -> [out |-> Tail(c.argv), in |-> in, disk |-> before]
                 [] argv[1] = "cat" /\ Len(c.argv) = 1 -> [out |-> in, in |-> <<>>, disk |-> before]
                 [] argv[1] = "cat" /\ Len(c.argv) > 1 -> [out |-> Copy(Tail(c.argv), in, before), in |-> in, disk |-> before]
                 [] OTHER -> [out |-> <<>>, in |-> in, disk |-> before]
      [] c.type = "REDIR" ->
           IF c.fd = 0 THEN IF c.file \notin DOMAIN before THEN [out |-> <<>>, in |-> in, disk |-> before]
                            ELSE [Eval(c.cmd, before[c.file], before) EXCEPT !.in = in]
           ELSE LET old == IF c.file \in DOMAIN before THEN before[c.file] ELSE <<>>
                    With(d, s) == [n \in DOMAIN d \cup {c.file} |-> IF n = c.file THEN s ELSE d[n]]
                    r == Eval(c.cmd, in, With(before, old))
                IN  [out |-> <<>>, in |-> r.in, disk |-> With(r.disk, writei(c.file, r.disk[c.file], 0, r.out))]
      [] c.type = "LIST" ->
           LET l == Eval(c.left, in, before)
               r == Eval(c.right, l.in, l.disk)
           IN  [r EXCEPT !.out = l.out \o @]
      [] c.type = "PIPE" ->
           LET l == Eval(c.left, in, before)
           IN  [Eval(c.right, l.out, l.disk) EXCEPT !.in = l.in]
      [] c.type = "BACK" -> [out |-> <<>>, in |-> in, disk |-> before]

\* What a line in sequence with the ones before it should do.  With a background
\* job, or after a call failed for want of resources, that is not known.
Expect(line) ==
    LET r == parsecmd(line)
        e == Eval(r.c, <<>>, want.disk)
    IN  IF ~r.ok \/ ~want.known THEN want
        ELSE [known |-> "&" \notin Range(line),
              disk |-> [e.disk EXCEPT !["console"] = @ \o e.out]]

-------------------------------------------------------------------------------
(* The steps of a process                                                  *)

Now(p, op) == ~panic /\ Running(p) /\ Head(prog[p].todo).op = op
Step(p) == Head(prog[p].todo)
Rest(p) == Tail(prog[p].todo)

\* Process p goes on as r; known says that no call failed for want of resources.
Become(p, r, known) ==
    /\ prog' = [prog EXCEPT ![p] = r]
    /\ want' = [want EXCEPT !.known = @ /\ known]
    /\ UNCHANGED <<panic, script>>
Go(p, todo) == Become(p, [prog[p] EXCEPT !.todo = todo], TRUE)
Fail(p) == Become(p, [prog[p] EXCEPT !.todo = <<exit>>], FALSE)

DoClose(p) == Now(p, "close") /\ sys_close(p, Arg(p, Step(p).fd)) /\ Go(p, Rest(p))

DoPipeclose(p) == ~panic /\ pipeclose(p) /\ UNCHANGED <<prog, panic, script, want>>

DoGiveback(p) == ~panic /\ giveback(p) /\ UNCHANGED <<prog, panic, script, want>>

DoAny(p) ==
    /\ Now(p, "any")
    /\ \/ \E fd \in Fd : sys_close(p, fd)
       \/ \E r \in Fd \cup {-1} : sys_dup(p, 1, r) \/ sys_open(p, "f", FALSE, TRUE, FALSE, r)
       \/ \E r \in (Fd \cup {-1}) \X (Fd \cup {-1}) : sys_pipe(p, r)
    /\ Go(p, Rest(p))

DoDup(p) == Now(p, "dup") /\ (\E r \in Fd \cup {-1} : sys_dup(p, Arg(p, Step(p).fd), r)) /\ Go(p, Rest(p))

\* The callers of open() and pipe() exit when the call fails.
DoOpen(p) ==
    /\ Now(p, "open")
    /\ \E o \in {Step(p)}, r \in Fd \cup {-1} :
           /\ sys_open(p, o.name, o.create, o.rd, o.wr, r)
           /\ IF r # -1 THEN Become(p, [prog[p] EXCEPT !.todo = Rest(p), !.p[1] = r], TRUE)
              ELSE IF o.name \notin DOMAIN disk /\ ~o.create THEN Go(p, <<exit>>)
              ELSE Fail(p)

DoPipe(p) ==
    /\ Now(p, "pipe")
    /\ \E r \in (Fd \cup {-1}) \X (Fd \cup {-1}) :
           /\ sys_pipe(p, r)
           /\ IF r = <<-1, -1>> THEN Fail(p) ELSE Become(p, [prog[p] EXCEPT !.todo = Rest(p), !.p = r], TRUE)

\* sh.c main(): a third descriptor beyond stderr is closed again.
DoConsole(p) ==
    /\ Now(p, "console")
    /\ \E r \in Fd \cup {-1} :
           /\ sys_open(p, "console", FALSE, TRUE, TRUE, r)
           /\ IF r \in 0..2 THEN Go(p, prog[p].todo)
              ELSE IF r = -1 THEN Go(p, Rest(p))
              ELSE Become(p, [prog[p] EXCEPT !.todo = <<close(p0)>> \o Rest(p), !.p[1] = r], TRUE)

DoFork(p) ==
    /\ Now(p, "fork")
    /\ \E c \in Proc \cup {None} :
           /\ sys_fork(p, c)
           /\ IF c = None THEN Fail(p)
              ELSE /\ prog' = [prog EXCEPT ![p].todo = Rest(p), ![p].pid = c,
                                           ![c] = [prog[p] EXCEPT !.todo = Step(p).child]]
                   /\ UNCHANGED <<panic, script, want>>

DoExec(p) ==
    /\ Now(p, "exec")
    /\ LET argv == Step(p).argv
       IN  Go(p, IF argv[1] \in {"cat", "echo", "sh", "other"} THEN program(argv) ELSE Rest(p))
    /\ UNCHANGED kernel

\* cat() leaves when read() fails.
DoRead(p) ==
    /\ Now(p, "read")
    /\ LET fd == Arg(p, Step(p).fd)
           f == argfd(p, fd)
       IN  IF f = None \/ ~ftable[f].readable THEN Go(p, <<exit>>) /\ UNCHANGED kernel
           ELSE /\ sys_read(p, fd)
                /\ Go(p, IF Contents(f) = <<>> THEN Rest(p) ELSE <<write(1, Contents(f))>> \o prog[p].todo)

DoWrite(p) ==
    /\ Now(p, "write")
    /\ LET fd == Step(p).fd
           data == Step(p).data
           f == argfd(p, fd)
       IN  IF f = None THEN Go(p, Rest(p)) /\ UNCHANGED kernel
           ELSE /\ sys_write(p, fd, data)
                /\ Go(p, IF Written(f, data) = Len(data) THEN Rest(p)
                         ELSE <<write(fd, From(Written(f, data), data))>> \o Rest(p))

\* exit() goes on until every descriptor is closed.
DoExit(p) ==
    /\ Now(p, "exit")
    /\ IF p = initproc THEN panic' = TRUE /\ UNCHANGED <<kernel, prog, script, want>>
       ELSE sys_exit(p) /\ UNCHANGED <<prog, panic, script, want>>

\* wait().  init goes on until it is the shell.
Wait(p, then) ==
    \E c \in Proc \cup {None} :
        /\ sys_wait(p, c)
        /\ prog' = [q \in Proc |-> IF q = p THEN [prog[p] EXCEPT !.todo = then[c]]
                                   ELSE IF q = c THEN NoProg ELSE prog[q]]
        /\ UNCHANGED <<panic, script, want>>

DoWait(p) == Now(p, "wait") /\ Wait(p, [c \in Proc \cup {None} |-> Rest(p)])

DoReap(p) ==
    /\ Now(p, "reap")
    /\ Wait(p, [c \in Proc \cup {None} |->
                   IF c \in {None, prog[p].pid} THEN Forever ELSE prog[p].todo])

\* What the child of the shell runs: the line has no effect on it but through the command.
Child(line) == LET r == parsecmd(line) IN IF r.ok THEN runcmd(r.c) ELSE <<exit>>

\* sh.c main(): a line is typed; at the end of the file the shell exits.  (chdir() changes
\* nothing that is modelled here.)
getcmd(p) ==
    /\ Now(p, "getcmd")
    /\ script # <<>>
    /\ LET line == Head(script)
       IN  /\ prog' = [prog EXCEPT ![p].todo =
                        CASE line = <<"EOF">> -> <<exit>>
                          [] line[1] = "cd" -> @
                          [] OTHER -> <<fork(Child(line)), wait, prompt>>]
           /\ want' = IF line[1] \in {"EOF", "cd"} THEN want ELSE Expect(line)
    /\ script' = Tail(script)
    /\ UNCHANGED <<kernel, panic>>

-------------------------------------------------------------------------------

Run(p) ==
    \/ DoClose(p) \/ DoPipeclose(p) \/ DoGiveback(p) \/ DoAny(p) \/ DoDup(p) \/ DoOpen(p) \/ DoPipe(p) \/ DoConsole(p)
    \/ DoFork(p) \/ DoExec(p) \/ DoRead(p) \/ DoWrite(p) \/ DoExit(p) \/ DoWait(p)
    \/ DoReap(p)

\* A shell that shows its prompt.
AtPrompt(p) == Now(p, "getcmd")

\* It is all that runs, with init.
Quiet == \E p \in Proc : AtPrompt(p) /\ \A q \in Proc \ {p, initproc} : ptable[q].state = "UNUSED"

Init ==
    /\ FilesInit
    /\ prog = [p \in Proc |-> IF p = initproc THEN [NoProg EXCEPT !.todo = init] ELSE NoProg]
    /\ panic = FALSE
    /\ script \in Scripts
    /\ want = [known |-> TRUE, disk |-> [n \in DOMAIN Disk \cup {"console"} |-> IF n \in DOMAIN Disk THEN Disk[n] ELSE <<>>]]

Next == \E p \in Proc : Run(p) \/ getcmd(p)

Spec == Init /\ [][Next]_vars

\* Every process gets the processor; nobody needs to type.
FairSpec == Spec /\ \A p \in Proc : WF_vars(Run(p))

-------------------------------------------------------------------------------
(* Properties                                                              *)

\* A command starts with descriptors 0, 1 and 2 and no other, in pipelines, lists and redirections
\* (sh.c:57-131), unless a call failed for want of resources: no end of a pipe leaks into a command.
StandardDescriptors ==
    \A p \in Proc : Now(p, "exec") /\ want.known /\ ~panic =>
        {fd \in Fd : ofile[p][fd] # None} = 0..2

\* When the shell shows its prompt again, the lines typed so far have written what they mean (Eval), on the
\* console and to files: whatever the order in which the processes of a line ran.
OutputAsMeant == \A p \in Proc : AtPrompt(p) /\ want.known => disk = want.disk

\* The parser accepts the lines of the grammar and no others, and reads each of them in the only possible way
\* (sh.c:328-447).  It is checked for all lines at boot.
ParserCorrect ==
    prog[initproc].todo = init =>
        \A line \in AllLines :
            LET r == parsecmd(line) IN Line(line) = IF r.ok THEN {r.c} ELSE {}

\* Every line that is typed ends, whatever it started or failed to start: the prompt comes back, and jobs in the
\* background end too.  In a pipeline that needs every copy of the write end to be closed (sh.c:100-122).
PromptReturns == []<>(panic \/ Quiet)
===============================================================================
