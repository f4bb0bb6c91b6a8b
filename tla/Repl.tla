--------------------------------- MODULE Repl ---------------------------------
(***************************************************************************)
(* A session at the prompt (src/src/main.c): one line after another is     *)
(* compiled onto the end of the code and run by a thread that keeps its    *)
(* stack, and so the variables, from line to line. Compiling a line is one *)
(* step, each instruction it runs another.                                 *)
(***************************************************************************)
EXTENDS Compiler, Thread

CONSTANTS
  MeaningOf(_, _, _),  \* what statements mean: their outcome, given variables and Fuel
  Programs,   \* the lines that may be entered: sequences of statements
  MaxLines,   \* bound: lines of a session
  Fuel        \* bound: rounds of a loop in the meaning of a line

ASSUME SessionAssumption == MaxLines \in Nat /\ Fuel \in Nat
ASSUME ProgramsAssumption == \A statements \in Programs : IsParsed(statements)

VARIABLES
  compiler,   \* the Compiler and the ByteCode it emits into
  thread,     \* the Thread that runs it
  mode,       \* "prompt", "running", or "aborted" by a failed assertion
  meaning     \* history: what the last line that compiled should do

vars == <<compiler, thread, mode, meaning>>

Init ==
  /\ compiler = Compiler_init
  /\ thread = Thread_init
  /\ mode = "prompt"
  /\ meaning = MeaningOf(<<>>, <<>>, Fuel)

(* Parser_appendLine and Compiler_compile, given the statements the parser *)
(* read and those that were meant: a line that does not compile leaves the *)
(* prompt as it was.                                                       *)
CompileAndRun(statements, meant) ==
  /\ mode = "prompt" /\ compiler.line < MaxLines
  /\ compiler' = Compile(compiler, statements)
  /\ mode' = IF compiler'.fault # NoAbort THEN "aborted"
             ELSE IF compiler'.hasErrors THEN mode ELSE "running"
  /\ thread' = IF mode' = "running" THEN Thread_start(thread) ELSE thread
  /\ meaning' = IF mode' = "running" THEN MeaningOf(meant, meaning.env, Fuel) ELSE meaning

Enter(statements) == CompileAndRun(statements, statements)

(* What main does when Thread_run is back: nothing but clear a panic.      *)
AfterRun(t, code) ==
  IF t.outcome = "panicked" /\ ~ Aborted(t) THEN Thread_clearPanic(t, code) ELSE t

(* One instruction of Thread_run.                                          *)
Step ==
  /\ mode = "running"
  /\ thread' = AfterRun(Execute(thread, compiler.code), compiler.code)
  /\ mode' = IF Aborted(thread') THEN "aborted"
             ELSE IF thread'.outcome = "running" THEN mode ELSE "prompt"
  /\ UNCHANGED <<compiler, meaning>>

Next == Step \/ \E statements \in Programs : Enter(statements)

(* Thread_run loops until it returns; nobody has to enter another line.    *)
Spec == Init /\ [][Next]_vars /\ WF_vars(Step)

-------------------------------------------------------------------------------
Symbols == compiler.symbols.items

(* The variables of earlier lines: their slots must survive this one.      *)
Established == {i \in DOMAIN Symbols : Symbols[i].definedOnLine < compiler.line}

(* At the prompt the stack holds one value for every symbol the compiler   *)
(* knows, at the index compiled code will GET it from, and it is the value *)
(* the session gave that variable.                                         *)
SlotsMatchSymbols ==
  mode = "prompt" =>
    /\ ValuesOf(thread.stack) = [i \in DOMAIN meaning.env |-> meaning.env[i].value]
    /\ [i \in DOMAIN Symbols |-> Symbols[i].symbol] = [i \in DOMAIN meaning.env |-> meaning.env[i].symbol]

(* At the prompt every scope a line opened on the stack is closed again.   *)
ScopesBalance == mode = "prompt" => MarksOf(thread.stack) = <<0>>

(* Every scope the compiler opens for a line it closes again, though the   *)
(* line has errors, leaves a loop from within it or ends the program.      *)
EveryScopeIsClosed == compiler.symbols.scopes = <<>>

(* At the prompt the thread stands at the end of the code, whether the     *)
(* last line returned, panicked or was taken back: the next line's code    *)
(* goes exactly where Thread_run will start.                               *)
NextLineRunsNext == mode = "prompt" => thread.pcIndex = ByteCode_count(compiler.code)

(* What the prompt shows is what the line means: its value, or the error   *)
(* it runs into.                                                           *)
ShowsTheMeaning ==
  mode = "prompt" =>
    IF thread.outcome = "returned"
    THEN meaning.kind = "value" /\ thread.result = meaning.value
    ELSE meaning.kind = "panic"

(* An error at run time is reported on the line that was entered, though   *)
(* code taken back and earlier panics lie before it.                       *)
PanicNamesItsLine ==
  [][mode = "running" /\ thread'.outcome = "cleared" => thread'.errorLine = compiler.line]_vars

(* A line with an error leaves no code, no line run, no symbol and no      *)
(* scope behind, however much of it was compiled.                          *)
ErrorsLeaveNoTrace ==
  [][compiler'.hasErrors /\ compiler' # compiler =>
       /\ compiler'.code.items = compiler.code.items
       /\ compiler'.code.lineRuns = compiler.code.lineRuns
       /\ compiler'.symbols = compiler.symbols
       /\ thread' = thread]_vars

(* Compiling a line leaves the code of the lines before it as it was, byte *)
(* for byte and each on the line it was reported on, and their variables   *)
(* at the indexes that code uses: no jump, break or short circuit of a     *)
(* line is ever patched into another.                                      *)
EarlierLinesStay ==
  [][compiler' # compiler =>
       /\ SubSeq(compiler'.code.items, 1, Count(compiler)) = compiler.code.items
       /\ \A index \in 0 .. Count(compiler) - 1 :
            ByteCode_getLine(compiler'.code, index) = ByteCode_getLine(compiler.code, index)
       /\ SubSeq(compiler'.symbols.items, 1, Len(Symbols)) = Symbols]_vars

(* No instruction changes a variable of an earlier line declared without   *)
(* mut.                                                                    *)
ImmutablesNeverChange ==
  [][\A i \in Established :
       mode = "running" /\ ~ Symbols[i].isMutable =>
         thread'.stack.cells[i - 1] = thread.stack.cells[i - 1]]_vars

(* No line of the session ends the program.                                *)
NeverAborts == mode # "aborted"

(* A line that is running gets back to the prompt.                         *)
LinesFinish == mode = "running" ~> mode = "prompt"

(* "assert(self->items + index <= self->top)": a variable compiled code    *)
(* names is on the stack, whatever became of the lines before.             *)
IndexesAreOnTheStack == thread.stack.fault # "index above top"

===============================================================================
