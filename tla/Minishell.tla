----------------------------- MODULE Minishell -----------------------------
(***************************************************************************)
(* minishell/version2/minishell.c, and Csetjump/prompt.c from which its    *)
(* loop and its signal handler are taken: read a line, do what it says,    *)
(* and jump back to the prompt on CTRL+C.                                  *)
(***************************************************************************)
EXTENDS Unix

CONSTANT Scripts        \* what the user may type: sequences of Texts

\* A line as the shell takes it.  "^D" is the end of the input; "cmd", "nohup"
\* and "bad" are commands that die of CTRL+C, that ignore it, that do not exist.
Texts == {"", "exit", "cd", "cd dir", "cd bad", "cd a b", "cmd", "nohup", "bad", "^D"}
Commands == {"cmd", "nohup", "bad"}

ASSUME MinishellAssumption == Scripts \subseteq Seq(Texts)

VARIABLES
    script,             \* the lines the user types
    pressed,            \* how many of them were typed
    keys,               \* the numbers of those typed and not read
    ran                 \* the numbers of those whose command was forked, in order

ttyVars == <<script, pressed, keys, ran>>

TtyInit(s) == script = s /\ pressed = 0 /\ keys = <<>> /\ ran = <<>>

Garbage == "?"          \* buf was never written
ShellMem ==
    [p |-> 0, pid |-> 0, buf |-> Garbage,
     line |-> 0,                \* the number of the line in buf
     jumped |-> FALSE]          \* CTRL+C came since p was assigned
Shells == {"minishell", "prompt"}

TypeLine ==
    /\ pressed < Len(script)
    /\ pressed' = pressed + 1
    /\ keys' = Append(keys, pressed + 1)
    /\ UNCHANGED <<unixVars, script, ran>>

\* The terminal forgets what was not read.
PressInterrupt ==
    /\ procs[Root].prog \in Shells /\ Running(Root)
    /\ Interrupt({"nohup"})
    /\ keys' = <<>>
    /\ UNCHANGED <<script, pressed, ran>>

\* Lines 129-137.  At the end of the input buf stays as it is.
ReadLine(p, prog) ==
    /\ At(p, prog, "read")
    /\ keys # <<>>
    /\ keys' = Tail(keys)
    /\ LET text == script[Head(keys)]
           mem == procs[p].mem
       IN  CASE text = "" -> Step(p, "read", [mem EXCEPT !.buf = ""])
             [] text = "^D" -> Step(p, "dispatch", mem)
             [] OTHER -> Step(p, "dispatch", [mem EXCEPT !.buf = text, !.line = Head(keys)])
    /\ UNCHANGED <<pipes, screen, fails, signals, script, pressed, ran>>

\* parse leaves the first word in buf.
FirstWord(text) == IF text \in {"cd dir", "cd bad", "cd a b"} THEN "cd" ELSE text

\* Lines 138-156.  A buf that was never written may hold anything.  With a lone
\* "cd", args[2] is what an earlier line left or no line wrote: it may look like
\* an argument too many; if not, cd("~") fails, or strcmp is given NULL.  It is
\* also given NULL for an empty buf, at the end of the input.
Dispatch(p) ==
    /\ At(p, "minishell", "dispatch")
    /\ \E buf \in IF procs[p].mem.buf = Garbage THEN Texts \ {"^D"} ELSE {procs[p].mem.buf} :
         CASE buf = "exit" -> Exit(p, "exited")
           [] buf = "" -> Exit(p, "killed")
           [] buf = "cd" -> \/ Step(p, "read", [procs[p].mem EXCEPT !.buf = "cd"])
                            \/ Exit(p, "killed")
           [] buf \in {"cd dir", "cd bad", "cd a b"} ->
                Step(p, "read", [procs[p].mem EXCEPT !.buf = FirstWord(buf)])
           [] buf \in Commands -> Step(p, "fork", [procs[p].mem EXCEPT !.buf = buf])
    /\ UNCHANGED <<pipes, screen, fails, signals, ttyVars>>

EndTyped == \E i \in 1 .. pressed : script[i] = "^D"

\* What runs over and over at the end of the input is not noted.
Noted(line) == IF EndTyped THEN ran ELSE Append(ran, line)

ForkCommand(p) ==
    /\ At(p, "minishell", "fork")
    /\ \/ Fork(p, "assign", "exec") /\ ran' = Noted(procs[p].mem.line) /\ UNCHANGED fails
       \/ Fails /\ Exit(p, "failed") /\ UNCHANGED ran
    /\ UNCHANGED <<pipes, screen, signals, script, pressed, keys>>

ExecCommand(p) ==
    /\ At(p, "minishell", "exec")
    /\ IF procs[p].mem.buf = "bad"
       THEN Exit(p, "failed")
       ELSE Exec(p, procs[p].mem.buf, "run", <<>>, procs[p].fd)
    /\ UNCHANGED <<pipes, screen, fails, signals, ttyVars>>

\* Line 106: until here the handler has the child of an earlier command.
AssignP(p) ==
    /\ At(p, "minishell", "assign")
    /\ Step(p, "wait", [procs[p].mem EXCEPT !.p = procs[p].mem.pid, !.jumped = FALSE])
    /\ UNCHANGED <<pipes, screen, fails, signals, ttyVars>>

AfterWait_Once(p, c) == "read"
AfterWait(p, c) == IF c = procs[p].mem.pid THEN "read" ELSE "wait"

WaitCommand(p) ==
    /\ At(p, "minishell", "wait")
    /\ \E c \in Zombies(p) : Reap(p, c, AfterWait(p, c))
    /\ UNCHANGED <<pipes, screen, fails, signals, ttyVars>>

\* Where sigsetjmp was called.
JumpTarget_AfterRead == "dispatch"
JumpTarget == "read"

\* catch_signal: waitpid(p, NULL, WNOHANG) reaps any child while p is still 0.
\* Then back to the prompt, from wherever the process was: also a child that has
\* not called exec yet.
Handler(p) ==
    /\ Running(p) /\ procs[p].int /\ procs[p].prog \in Shells
    /\ LET mem == procs[p].mem
           due == IF procs[p].prog = "prompt" THEN {}
                  ELSE {c \in Zombies(p) : mem.p \in {0, c}}
           jump == [procs EXCEPT ![p].int = FALSE, ![p].pc = JumpTarget, ![p].mem.jumped = TRUE]
       IN  IF due = {} THEN procs' = jump
           ELSE \E c \in due : procs' = [jump EXCEPT ![c].state = "gone"]
    /\ UNCHANGED <<pipes, screen, fails, signals, ttyVars>>

\* A command runs for a while and ends.
CommandEnds(p) ==
    /\ \/ At(p, "cmd", "run") \/ At(p, "nohup", "run")
       \/ procs[p].prog = "cmd" /\ procs[p].int
    /\ Running(p)
    /\ Exit(p, IF procs[p].int THEN "killed" ELSE "exited")
    /\ UNCHANGED <<pipes, screen, fails, signals, ttyVars>>

\* prompt.c greets whatever is in buf.
Greet(p) ==
    /\ At(p, "prompt", "dispatch")
    /\ \E buf \in IF procs[p].mem.buf = Garbage THEN {"", "exit"} ELSE {procs[p].mem.buf} :
         IF buf = "exit" THEN Exit(p, "exited") ELSE Goto(p, "read")
    /\ UNCHANGED <<pipes, screen, fails, signals, ttyVars>>

MinishellStep(p) ==
    \/ \E prog \in Shells : ReadLine(p, prog)
    \/ Dispatch(p) \/ ForkCommand(p) \/ ExecCommand(p) \/ AssignP(p) \/ WaitCommand(p)
    \/ Handler(p) \/ CommandEnds(p) \/ Greet(p)
=============================================================================
