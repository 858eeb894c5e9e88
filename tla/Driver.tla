------------------------------- MODULE Driver -------------------------------
(***************************************************************************)
(* The compiler as a process, bootstrap/src/main.c: the command line, the   *)
(* source file, the three stages with the diagnostics they leave, and the   *)
(* generated code on its way out.  Every call of the C library that main    *)
(* makes for a file can fail; a stage is the diagnostics it records.        *)
(***************************************************************************)
EXTENDS Report, FiniteSetsExt

CONSTANTS Files,     \* names of files
          Cases      \* bound: what the process may be started on

Version == {"-v", "--version"}
Help == {"-h", "--help"}
Dashed == Version \cup Help \cup {"-o", "-x"}
Argument == Files \cup Dashed

(* A case is the arguments, the part of the source file that can be read,   *)
(* the size of the file, and the diagnostics of the two stages that have    *)
(* any.                                                                     *)
Case == [argv : Seq(Argument), src : Sources, size : Nat, parse : Seq(Nat), resolve : Seq(Nat)]

ASSUME DriverAssumption ==
    /\ Files \cap Dashed = {} /\ "" \notin Files
    /\ Cases \subseteq Case
    /\ \A c \in Cases : Len(c.src) <= c.size
    /\ \A c \in Cases : \A s \in {c.parse, c.resolve} : \A k \in DOMAIN s : s[k] <= Len(c.src) + 1

VARIABLES case,               \* what it has been started on; its argv is main's
          arg,                \* the loop over the arguments
          input, output,      \* the locals of main; "" is NULL
          pc,                 \* where main is
          status,             \* the exit status, -1 while it runs
          said,               \* how many diagnostics the stage has recorded
          files,              \* what main has written to files, and to stdout
          messages,           \* what it said itself on stderr
          faults              \* the calls that failed

vars == <<report_vars, case, arg, input, output, pc, status, said, files, messages, faults>>
arg_vars == <<case, arg, input, output>>
io_vars == <<files, messages, faults>>

Stdout == "stdout"

(* What is written: a line with the version, or the code for a source, in   *)
(* two pieces.                                                              *)
Banner == << <<"version", <<>>>> >>
Code(source) == << <<"code", source>>, <<"end", source>> >>

Init ==
    /\ case \in Cases
    /\ src = case.src /\ ReportInit
    /\ arg = 1
    /\ input = "" /\ output = ""
    /\ pc = "arguments" /\ status = -1
    /\ said = 0
    /\ files = [f \in Argument \cup {Stdout} |-> <<>>]
    /\ messages = {} /\ faults = {}

exit(code) == status' = code /\ pc' = "exited"

-----------------------------------------------------------------------------
(* The loop over the arguments. *)
Arg == case.argv[arg]
AtArg == pc = "arguments" /\ arg <= Len(case.argv)

(* Slip: only the first -o has a value. *)
TakesNextOnce == Arg = "-o" /\ arg < Len(case.argv) /\ output = ""

TakesNext == Arg = "-o" /\ arg < Len(case.argv)

ArgOutput ==
    /\ AtArg /\ TakesNext
    /\ output' = case.argv[arg + 1]
    /\ arg' = arg + 2
    /\ UNCHANGED <<report_vars, case, input, pc, status, said, io_vars>>

ArgInput ==
    /\ AtArg /\ Arg \in Files /\ input = ""
    /\ input' = Arg
    /\ arg' = arg + 1
    /\ UNCHANGED <<report_vars, case, output, pc, status, said, io_vars>>

ArgVersion ==
    /\ AtArg /\ Arg \in Version
    /\ files' = [files EXCEPT ![Stdout] = Banner]
    /\ exit(0)
    /\ UNCHANGED <<report_vars, arg_vars, said, messages, faults>>

ArgHelp ==
    /\ AtArg /\ Arg \in Help
    /\ messages' = messages \cup {"usage"}
    /\ exit(0)
    /\ UNCHANGED <<report_vars, arg_vars, said, files, faults>>

(* An unknown option, "-o" at the very end among them, or a second file. *)
ArgWrong ==
    /\ AtArg /\ ~TakesNext
    /\ Arg \in Dashed \ (Version \cup Help) \/ (Arg \in Files /\ input # "")
    /\ messages' = messages \cup {"wrong"}
    /\ exit(2)
    /\ UNCHANGED <<report_vars, arg_vars, said, files, faults>>

ArgsEnd ==
    /\ pc = "arguments" /\ arg > Len(case.argv)
    /\ \/ /\ input = ""
          /\ messages' = messages \cup {"usage"}
          /\ exit(2)
          /\ UNCHANGED <<files, faults>>
       \/ /\ input # ""
          /\ pc' = "read"
          /\ UNCHANGED <<status, io_vars>>
    /\ UNCHANGED <<report_vars, arg_vars, said>>

-----------------------------------------------------------------------------
(* Slip: not a word about a file that is not there. *)
ReadFailsSilently ==
    /\ pc = "read"
    /\ \E call \in {"fopen", "fseek", "ftell", "malloc"} : faults' = faults \cup {call}
    /\ exit(1)
    /\ UNCHANGED <<report_vars, arg_vars, said, files, messages>>

(* read_entire_file gives up at a call that fails, with a word only at the  *)
(* first, and takes what fread has read.                                    *)
ReadFails ==
    /\ pc = "read"
    /\ \E call \in {"fopen", "fseek", "ftell", "malloc"} :
         /\ faults' = faults \cup {call}
         /\ messages' = messages \cup (IF call = "fopen" THEN {"perror"} ELSE {})
    /\ exit(1)
    /\ UNCHANGED <<report_vars, arg_vars, said, files>>

ReadFile ==
    /\ pc = "read"
    /\ faults' = faults \cup (IF Len(src) < case.size THEN {"fread"} ELSE {})
    /\ pc' = "parse"
    /\ UNCHANGED <<report_vars, arg_vars, status, said, files, messages>>

(* parse_program and resolve_program record their diagnostics ... *)
Diagnose ==
    /\ pc \in {"parse", "resolve"} /\ said < Len(case[pc])
    /\ diag_error(case[pc][said + 1])
    /\ said' = said + 1
    /\ UNCHANGED <<arg_vars, pc, status, io_vars>>

(* Slip: the parser's errors do not stop the resolver. *)
StageGoesOn ==
    /\ pc \in {"parse", "resolve"} /\ said >= Len(case[pc])
    /\ pc' = IF pc = "parse" THEN "resolve" ELSE IF has_error THEN "report" ELSE "codegen"
    /\ said' = 0
    /\ UNCHANGED <<report_vars, arg_vars, status, io_vars>>

(* ... and main stops behind the first that has any. *)
StageEnd ==
    /\ pc \in {"parse", "resolve"} /\ said >= Len(case[pc])
    /\ pc' = IF has_error THEN "report" ELSE IF pc = "parse" THEN "resolve" ELSE "codegen"
    /\ said' = 0
    /\ UNCHANGED <<report_vars, arg_vars, status, io_vars>>

ReportErrors ==
    /\ pc = "report"
    /\ diag_report \/ Reporting
    /\ UNCHANGED <<arg_vars, pc, status, said, io_vars>>

ExitReported ==
    /\ pc = "report" /\ stage = "reported"
    /\ exit(1)
    /\ UNCHANGED <<report_vars, arg_vars, said, io_vars>>

(* codegen_program records nothing itself. *)
Generate ==
    /\ pc = "codegen"
    /\ pc' = IF has_error THEN "report" ELSE "write"
    /\ UNCHANGED <<report_vars, arg_vars, status, said, io_vars>>

-----------------------------------------------------------------------------
Target == IF output = "" THEN Stdout ELSE output

OutputFails ==
    /\ pc = "write" /\ output # ""
    /\ faults' = faults \cup {"fopen"}
    /\ messages' = messages \cup {"perror"}
    /\ exit(1)
    /\ UNCHANGED <<report_vars, arg_vars, said, files>>

(* Slip: without -o nothing is written. *)
WriteFileOnly ==
    /\ pc = "write"
    /\ files' = [f \in DOMAIN files |-> IF f = output THEN Code(src) ELSE files[f]]
    /\ exit(0)
    /\ UNCHANGED <<report_vars, arg_vars, said, messages, faults>>

(* fwrite, and fclose or the end of the process: a part of the code may be  *)
(* lost, and nobody asks.                                                   *)
Write ==
    /\ pc = "write"
    /\ \E n \in 0 .. 2 :
         /\ files' = [files EXCEPT ![Target] = SubSeq(Code(src), 1, n)]
         /\ faults' = faults \cup (IF n < 2 THEN {"fwrite"} ELSE {})
    /\ exit(0)
    /\ UNCHANGED <<report_vars, arg_vars, said, messages>>

Next == \/ ArgOutput \/ ArgInput \/ ArgVersion \/ ArgHelp \/ ArgWrong \/ ArgsEnd
        \/ ReadFails \/ ReadFile
        \/ Diagnose \/ StageEnd \/ ReportErrors \/ ExitReported \/ Generate
        \/ OutputFails \/ Write

(* A process that waits for nothing. *)
Spec == Init /\ [][Next]_vars /\ WF_vars(Next)

-----------------------------------------------------------------------------
(* The arguments by themselves: those that are values of -o, and those main *)
(* would stop at.                                                           *)
Args == 1 .. Len(case.argv)
IsValue == LET v[k \in Args] == k > 1 /\ case.argv[k - 1] = "-o" /\ ~v[k - 1] IN v
Read == {k \in Args : ~IsValue[k]}
FilesRead == {k \in Read : case.argv[k] \in Files}
Stops == {k \in Read : \/ case.argv[k] \in Version \cup Help \cup {"-x"}
                      \/ (case.argv[k] = "-o" /\ k = Len(case.argv))
                      \/ (k \in FilesRead /\ \E j \in FilesRead : j < k)}
Compiles == Stops = {} /\ FilesRead # {}

(* The command line means what the usage says in whatever order it is: the  *)
(* first argument that is none of a file and its options decides, no value  *)
(* of -o is taken for an option or for the file, and the last -o counts.    *)
ArgsDecided ==
    pc # "arguments" =>
        /\ Stops # {} =>
             LET a == case.argv[Min(Stops)] IN
             /\ status = (IF a \in Version \cup Help THEN 0 ELSE 2)
             /\ files[Stdout] = IF a \in Version THEN Banner ELSE <<>>
        /\ Stops = {} /\ FilesRead = {} => status = 2
        /\ Compiles =>
             /\ {input} = {case.argv[k] : k \in FilesRead}
             /\ output = IF Read = Args THEN "" ELSE case.argv[Max(Args \ Read)]

(* Errors of one stage end the run: none of a later stage is recorded on    *)
(* top of them, all of them are printed, the status is 1, and no code, not  *)
(* even a part of it, comes of a source that has any.                       *)
Exited == pc = "exited"
ErrorsEndRun ==
    /\ (Exited /\ recorded # <<>>) =>
         /\ recorded = IF case.parse # <<>> THEN case.parse ELSE case.resolve
         /\ stage = "reported" /\ status = 1
    /\ (\E f \in DOMAIN files : files[f] \notin {<<>>, Banner}) =>
         case.parse = <<>> /\ case.resolve = <<>>

(* A run that fails, for whatever reason, writes to no file and not to      *)
(* stdout, and one that does not fail writes to one of them only.           *)
Changed == {f \in DOMAIN files : files[f] # <<>>}
OnlyTarget == Changed \subseteq (IF status = 0 THEN {Target, Stdout} ELSE {})
              /\ Cardinality(Changed) <= 1

(* A failing run says why, unless it is fseek, ftell or malloc that failed. *)
SaysWhy ==
    status > 0 /\ faults \cap {"fseek", "ftell", "malloc"} = {} =>
        messages # {} \/ shown # <<>>

(* If no call fails, a run that ends well without a word has written the    *)
(* whole code of the whole file; and it has written nothing else, nor has a *)
(* run that failed.                                                         *)
OutputComplete ==
    /\ OnlyTarget
    /\ status = 0 /\ faults = {} /\ messages = {} /\ files[Stdout] # Banner =>
         files[Target] = Code(src) /\ Len(src) = case.size

(* main.c, usage: "write generated C to <file>".  A run that ends well has  *)
(* written the code of the whole source.                                    *)
OutputWritten ==
    status = 0 /\ Compiles => files[Target] = Code(src) /\ Len(src) = case.size

TypeOK ==
    /\ ReportTypeOK
    /\ src = case.src
    /\ arg \in 1 .. Len(case.argv) + 1
    /\ input \in Files \cup {""} /\ output \in Argument \cup {""}
    /\ pc \in {"arguments", "read", "parse", "resolve", "report", "codegen", "write", "exited"}
    /\ status \in -1 .. 2 /\ (status = -1 <=> pc # "exited")
    /\ said \in Nat

(* The process ends, on every command line and every file. *)
Exits == <>Exited
=============================================================================
