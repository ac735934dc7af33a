------------------------------- MODULE Driver -------------------------------
(***************************************************************************)
(* src/src/main.c: one run of the compiler on one source file, from the    *)
(* command line to the exit code, with the real parser and IR constructors *)
(* (Parser, Ir) between the phases that other modules describe.  Each      *)
(* phase calls the one before it and hands its result on by an out         *)
(* parameter, or by none when it is the target; whoever does not hand a    *)
(* structure on frees it.                                                  *)
(***************************************************************************)
EXTENDS Ir, Grammar

CONSTANT
  Compilations   \* the runs: texts, each with the command lines it is compiled by; see Texts

VARIABLES
  line,      \* the command line, and what the run will meet; see CommandLine
  stage,     \* the function that runs next
  passes,    \* the optimizations that options ask for
  parsed,    \* the parser's state when it is done
  ir,        \* the reader's state when the IR is built
  held,      \* the structures on the heap, by the names of the variables that point to them
  misused,   \* one has been used or freed that was not there
  output,    \* what stdout has got
  code       \* the exit code, or Running

vars == <<tokens, line, stage, passes, parsed, ir, held, misused, output, code>>

Running == 1

\* An outcome that the model leaves open is part of the line: whether GOption can parse it,
\* which file operation fails, if one does, whether the scanner finds nothing but tokens, and
\* semantic analysis no error.
CommandLine(parses, target, optimizations, debug, files, file_error, scans, legal) ==
  [parses |-> parses, target |-> target, optimizations |-> optimizations, debug |-> debug,
   files |-> files, file_error |-> file_error, scans |-> scans, legal |-> legal]

\* The texts with one of middles between a prefix and a suffix.
Texts(prefix, middles, suffix, lines) ==
  [prefix |-> prefix, middles |-> middles, suffix |-> suffix, lines |-> lines]

Init ==
  /\ \E texts \in Compilations :
       /\ \E middle \in texts.middles : tokens = texts.prefix \o middle \o texts.suffix
       /\ line \in texts.lines
  /\ stage = "options"
  /\ passes = {}
  /\ parsed = Start /\ ir = Start
  /\ held = {} /\ misused = FALSE
  /\ output = {} /\ code = Running

-----------------------------------------------------------------------------
(* The command line *)

Optimizations == {"cf", "cp", "dce", "ph"}
Named(name) == IF name = "all" THEN Optimizations ELSE {name}

\* An entry names one optimization, or all, and adds it or, behind a minus sign, takes it away.
Entry(name, adds) == [name |-> name, adds |-> adds]
Entries == {Entry(name, adds) : name \in Optimizations \cup {"all"}, adds \in BOOLEAN}

\* An entry of no known name ends the list.
KnownEntries(list) ==
  CHOOSE n \in 0 .. Len(list) :
    (\A k \in 1 .. n : list[k] \in Entries) /\ (n < Len(list) => list[n + 1] \notin Entries)

\* The entries from left to right.
\* Mutant: those behind a minus sign take effect last.
ParseOptimizationsSorted(list) ==
  LET known == 1 .. KnownEntries(list)
  IN  UNION {Named(list[k].name) : k \in {j \in known : list[j].adds}}
        \ UNION {Named(list[k].name) : k \in {j \in known : ~list[j].adds}}
ParseOptimizations(list) ==
  LET mask[k \in 0 .. Len(list)] ==
        IF k = 0 THEN {}
        ELSE LET before == mask[k - 1]
             IN  IF list[k].adds THEN before \cup Named(list[k].name)
                 ELSE before \ Named(list[k].name)
  IN  mask[KnownEntries(list)]

Targets == {"none", "scan", "parse", "inter", "assembly"}
Target == IF line.target = "none" THEN "assembly" ELSE line.target

OptionsFail ==
  ~line.parses \/ line.files # 1 \/ line.target \notin Targets
  \/ \E k \in 1 .. Len(line.optimizations) : line.optimizations[k] \notin Entries

-----------------------------------------------------------------------------
(* The heap and the end *)

\* The operating system ends a run.
Dies(how) ==
  stage' = how /\ UNCHANGED <<held, misused, code>>

\* What a function frees, allocates before that, and keeps allocated.
Heap(allocated, freed) ==
  /\ misused' = (misused \/ ~(freed \subseteq held \cup allocated))
  /\ held' = (held \cup allocated) \ freed

\* main's error_cleanup, after a function that has allocated and freed.  Pointers that have
\* not been set are NULL.
ErrorCleanup(allocated, freed) ==
  /\ Heap(allocated, freed \cup ((held \cup allocated) \cap {"file_contents", "options"}))
  /\ stage' = "done" /\ code' = -1

Continue(next, allocated, freed) ==
  Heap(allocated, freed) /\ stage' = next /\ UNCHANGED code

\* main's return, which leaves the options and the file to the operating system.
Succeed(allocated, freed) ==
  Heap(allocated, freed) /\ stage' = "done" /\ code' = 0

-----------------------------------------------------------------------------
\* If GOption fails parse_options returns at once, without freeing context or error; the
\* strings of the arguments are then GOption's.  Otherwise parse_optimizations frees the list
\* that g_strsplit makes, on both of its ways out, but not the strings in it.
ParseOptions ==
  /\ stage = "options"
  /\ passes' = IF line.parses THEN ParseOptimizations(line.optimizations) ELSE passes
  /\ LET arguments == {"target", "optimizations"}
         split == IF line.optimizations = <<>> THEN {}
                  ELSE {"optimization_list", "optimization_strings"}
         made == {"context", "options"} \cup arguments \cup split
         done == {"context"} \cup arguments \cup (split \ {"optimization_strings"})
     IN  IF ~line.parses THEN ErrorCleanup({"context", "error"}, {})
         ELSE IF OptionsFail THEN ErrorCleanup(made, done)
         ELSE Continue("output file", made, done)
  /\ UNCHANGED <<tokens, line, parsed, ir, output>>

\* An output file is emptied here, before the input has been read.
SetOutputFile ==
  /\ stage = "output file"
  /\ IF line.file_error = "output" THEN ErrorCleanup({}, {}) ELSE Continue("input file", {}, {})
  /\ UNCHANGED <<tokens, line, passes, parsed, ir, output>>

\* The GError of a file that cannot be read is printed and not freed.
GetInputFileContents ==
  /\ stage = "input file"
  /\ IF line.file_error = "input" THEN ErrorCleanup({"error"}, {})
     ELSE Continue("scan", {"file_contents"}, {})
  /\ UNCHANGED <<tokens, line, passes, parsed, ir, output>>

RunScanTarget ==
  /\ stage = "scan"
  /\ output' = IF Target = "scan" THEN output \cup {"tokens"} ELSE output
  /\ IF ~line.scans THEN ErrorCleanup({"scanner", "tokens"}, {"scanner", "tokens"})
     ELSE IF Target = "scan" THEN Succeed({"scanner", "tokens"}, {"scanner", "tokens"})
     ELSE Continue("parse", {"scanner", "tokens"}, {"scanner"})
  /\ UNCHANGED <<tokens, line, passes, parsed, ir>>

\* An empty list of tokens is rejected before a tree is built.
RunParseTarget ==
  /\ stage = "parse"
  /\ parsed' = ParserParse
  /\ LET done == {"parser", "tokens"}
         tree == IF tokens = <<>> THEN {} ELSE {"program"}
     IN  IF parsed'.error THEN ErrorCleanup({"parser"} \cup tree, done \cup tree)
         ELSE IF Target = "parse" THEN Succeed({"parser"} \cup tree, done \cup tree)
         ELSE Continue("inter", {"parser", "ast"}, done)
  /\ UNCHANGED <<tokens, line, passes, ir, output>>

\* A failed assertion of a constructor aborts the run.  The fields of a method's arguments and
\* the location that a for statement assigns first have no token: an error message that tells
\* its place reads what the allocation held before, and may end the run.
RunIntermediateTarget ==
  /\ stage = "inter"
  /\ ir' = Construct(Linearize(parsed.parts[1]), Start)
  /\ LET made == {"semantics", "linear_nodes", "ir"}
         done == {"semantics", "linear_nodes", "ast"}
     IN  IF ir'.error THEN Dies("aborted")
         ELSE IF ~line.legal THEN ErrorCleanup(made, done \cup {"ir"}) \/ Dies("killed")
         ELSE IF Target = "inter" THEN Succeed(made, done \cup {"ir"})
         ELSE Continue("assembly", made, done)
  /\ UNCHANGED <<tokens, line, passes, parsed, output>>

\* The assignments, if any, that dce takes out of their blocks are not found again to be freed.
\* A quotient that no word holds ends the run when cf computes it.
RunAssemblyTarget ==
  /\ stage = "assembly"
  /\ LET made == {"llir_generator", "llir"} \cup (IF line.debug THEN {} ELSE {"generator"})
         pruned == IF "dce" \in passes THEN {"pruned_assignments"} ELSE {}
     IN  \/ /\ Succeed(made \cup pruned, made \cup {"ir"})
            /\ output' = output \cup {IF line.debug THEN "llir" ELSE "assembly"}
         \/ /\ "cf" \in passes /\ Dies("killed")
            /\ UNCHANGED output
  /\ UNCHANGED <<tokens, line, passes, parsed, ir>>

Next ==
  ParseOptions \/ SetOutputFile \/ GetInputFileContents \/ RunScanTarget \/ RunParseTarget
  \/ RunIntermediateTarget \/ RunAssemblyTarget

Spec == Init /\ [][Next]_vars

-----------------------------------------------------------------------------
(* Properties *)

Done == stage = "done"

\* What the last entry about an optimization says of it holds.
LastWord(pass) ==
  \E k \in 1 .. Len(line.optimizations) :
    /\ pass \in Named(line.optimizations[k].name) /\ line.optimizations[k].adds
    /\ \A j \in k + 1 .. Len(line.optimizations) : pass \notin Named(line.optimizations[j].name)

\* The exit code is 0 exactly if the command line and the files are good and so is the
\* source up to the target: for the parser's part, if it is not empty and the grammar has a
\* reading of it.
\* Then all that was asked for is on stdout, and the passes are those last asked for; of
\* a source with an error no assembly is on stdout.
ExitCodeIsHonest ==
  Done =>
    /\ code = 0 <=>
         /\ ~OptionsFail /\ line.file_error = "none" /\ line.scans
         /\ Target # "scan" => tokens # <<>> /\ Trees(tokens) # {}
         /\ Target \in {"inter", "assembly"} => line.legal
    /\ code = 0 =>
         /\ passes = {pass \in Optimizations : LastWord(pass)}
         /\ output = CASE Target = "scan" -> {"tokens"}
                       [] Target = "assembly" -> {IF line.debug THEN "llir" ELSE "assembly"}
                       [] OTHER -> {}
    /\ code # 0 => output \subseteq {"tokens"}

\* The IR that the constructors read from the row of nodes is the one reading of the text:
\* every operator has the operands that precedence and associativity give it, each list ends
\* where its text does, an optional part is there if it is written; no assertion fails.
IrIsTheReading ==
  /\ stage # "aborted"
  /\ ir # Start => Trees(tokens) = {ir.parts[1]}

\* What the code frees nowhere: the context and the GError of a command line that cannot be
\* parsed, the strings in the list of optimizations, the GError of a file that cannot be read,
\* what main still holds when it succeeds, and the assignments that dce has pruned.
Unfreed ==
  (IF ~line.parses THEN {"context", "error"}
   ELSE IF line.optimizations # <<>> THEN {"optimization_strings"} ELSE {})
  \cup (IF ~OptionsFail /\ line.file_error = "input" THEN {"error"} ELSE {})
  \cup (IF code = 0 THEN {"options", "file_contents"} ELSE {})
  \cup (IF code = 0 /\ Target = "assembly" /\ "dce" \in passes
        THEN {"pruned_assignments"} ELSE {})

=============================================================================
