--------------------------- MODULE SourceMachine ----------------------------
(***************************************************************************)
(* What a function body means: its statements run in order on locals that  *)
(* each have storage of their own.  Values are abstract, so a condition may*)
(* go either way.  A local whose address was taken may be read and written *)
(* through a pointer, by the body and by what it calls, ever after.        *)
(***************************************************************************)
EXTENDS SourceProgram, FiniteSets, FiniteSetsExt

CONSTANTS Programs, Values, Junk

VARIABLES
  prog,     \* the program
  todo,     \* what is left to run, the next statement first
  escaped,  \* locals whose address has been taken
  env,      \* the value of each local
  obs       \* what the last statement read

machineVars == <<prog, todo, escaped, env, obs>>

(***************************************************************************)
(* todo holds statements, and the loops to go back to: the first entry with*)
(* again = TRUE is the innermost loop around the next statement.           *)
(***************************************************************************)
Entries(list, again) == [k \in DOMAIN list |-> [stmt |-> list[k], again |-> again]]
Ahead(list)  == Entries(list, FALSE)
Back(s)      == Entries(<<s>>, TRUE)
From(rest, k) == SubSeq(rest, k, Len(rest))
Innermost(rest) == Min({k \in DOMAIN rest : rest[k].again})

Continuations(list) ==
  LET s    == Head(list).stmt
      rest == Tail(list)
  IN  CASE s.op = "if"       -> {Ahead(s.then) \o rest, Ahead(s.else) \o rest}
        [] s.op = "while"    -> {Ahead(s.body) \o Back(s) \o rest, rest}
        [] s.op = "loop"     -> {Ahead(s.body) \o Back(s) \o rest}
        [] s.op = "break"    -> {From(rest, Innermost(rest) + 1)}
        [] s.op = "continue" -> {From(rest, Innermost(rest))}
        [] s.op = "return"   -> {<< >>}
        [] OTHER             -> {rest}

Current == Head(todo).stmt

\* The locals a statement reads, by name or through a pointer.
Reads(s) ==
  Locals(prog, Read(s)) \cup (IF Derefs(s) \/ Calls(s) THEN escaped ELSE {})

(***************************************************************************)
(* The sets of locals a statement may write.  The value of an aggregate is *)
(* that of one of its parts: an assignment to a field or an element may    *)
(* miss it, and then leaves it alone.                                      *)
(***************************************************************************)
Named(s) ==
  {Locals(prog, Written(s))} \cup (IF s.op = "assign" /\ s.partial THEN {{}} ELSE {})

Pointed(s) ==
  IF Calls(s) \/ (s.op = "assign" /\ s.place = {}) THEN SUBSET escaped ELSE {{}}

WriteSets(s) == {W \cup P : W \in Named(s), P \in Pointed(s)}

Updated(values, W, computed) ==
  [v \in DOMAIN values |-> IF v \in W THEN computed[v] ELSE values[v]]

MachineInit ==
  /\ prog \in Programs
  /\ todo = Ahead(prog.body)
  /\ escaped = {}
  /\ env = [v \in DOMAIN prog.locals |-> Junk]
  /\ obs = << >>

\* The part of a step that does not look at storage.
Advance ==
  /\ todo # << >>
  /\ todo' \in Continuations(todo)
  /\ escaped' = escaped \cup Locals(prog, Addressed(Current))
  /\ UNCHANGED prog

MachineStep ==
  /\ Advance
  /\ obs' = [u \in Reads(Current) |-> env[u]]
  /\ \E W \in WriteSets(Current) : \E computed \in [W -> Values] :
       env' = Updated(env, W, computed)

MachineSpec == MachineInit /\ [][MachineStep]_machineVars
=============================================================================
