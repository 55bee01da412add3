-------------------------------- MODULE Main --------------------------------
(***************************************************************************)
(* A process that uses the emulator: rve itself (src/main.c), from its     *)
(* command line to its exit status, or another program that embeds the     *)
(* emulator and makes its calls in any order.                              *)
(***************************************************************************)
EXTENDS Emulator, FiniteSetsExt

CONSTANTS
    Scenarios,         \* command lines and files: [argv, disk] records
    Unknown,           \* the tokens that begin with "-" and are no option
    HexValue, DecValue, \* strtoul in base 16 and strtoull in base 10, on tokens
    EmbedCap           \* bound: another program makes calls below this count

(* The options parse_args knows; any other token that begins with "-" is one  *)
(* it does not know.                                                          *)
FlagOpt  == {"--trace", "--regs"}
ValueOpt == {"--pc", "--load", "--max"}
Option   == FlagOpt \cup ValueOpt \cup {"--help"} \cup Unknown
IsPath(token) == token \notin Option

ASSUME OptionAssumption == Unknown \cap (FlagOpt \cup ValueOpt \cup {"--help"}) = {}
ASSUME ScenarioAssumption ==
    /\ 0 \in Limits
    /\ \A s \in Scenarios :
          /\ s.argv \in Seq(STRING)
          /\ \A p \in 1 .. Len(s.argv) : /\ HexValue[s.argv[p]] \in Word
                                        /\ DecValue[s.argv[p]] \in Limits
          /\ \A path \in DOMAIN s.disk : s.disk[path] \in Seq(ByteVal)

VARIABLES
    argv,              \* the tokens after the program's name
    disk,              \* the bytes of the file each path names
    i,                 \* parse_args' index
    args,              \* parse_args' result
    mctl,              \* where main is, or "embed" in another program
    status             \* the exit status

mainVars == <<argv, disk, i, args, mctl, status>>
procVars == <<emuVars, mainVars>>

EXIT_FAILURE == 1

(* The binary is a null pointer, here no path, or a path: one of any length.  *)
NoPath == <<>>

MainInit == /\ EmuInit
            /\ i = 1
            /\ args = [binary |-> NoPath, flags |-> {}, reset_pc |-> 0, load_addr |-> 0,
                       max_steps |-> 0]
            /\ status = 0
            /\ \/ /\ mctl = "parse"
                  /\ \E s \in Scenarios : argv = s.argv /\ disk = s.disk
               \/ /\ mctl = "embed"
                  /\ argv = <<>> /\ disk = <<>>

----------------------------------------------------------------------------
(* parse_args, one turn of its loop at a time. *)
Token   == argv[i]
Parsing == mctl = "parse" /\ i <= Len(argv)

Reject == /\ mctl' = "exited" /\ status' = EXIT_FAILURE
          /\ UNCHANGED <<argv, disk, i, args, emuVars>>

ParseFlag == /\ Parsing /\ Token \in FlagOpt
             /\ args' = [args EXCEPT !.flags = @ \cup {Token}]
             /\ i' = i + 1
             /\ UNCHANGED <<argv, disk, mctl, status, emuVars>>

(* Mutant of ParseValue: a value that looks like an option is not skipped. *)
ParseValueLoose ==
    /\ Parsing /\ Token \in ValueOpt /\ i < Len(argv)
    /\ args' = CASE Token = "--pc"   -> [args EXCEPT !.reset_pc  = HexValue[argv[i + 1]]]
                 [] Token = "--load" -> [args EXCEPT !.load_addr = HexValue[argv[i + 1]]]
                 [] Token = "--max"  -> [args EXCEPT !.max_steps = DecValue[argv[i + 1]]]
    /\ i' = IF argv[i + 1] \in Option THEN i + 1 ELSE i + 2
    /\ UNCHANGED <<argv, disk, mctl, status, emuVars>>

(* The value of an option is the next token, whatever it looks like. *)
ParseValue ==
    /\ Parsing /\ Token \in ValueOpt /\ i < Len(argv)
    /\ args' = CASE Token = "--pc"   -> [args EXCEPT !.reset_pc  = HexValue[argv[i + 1]]]
                 [] Token = "--load" -> [args EXCEPT !.load_addr = HexValue[argv[i + 1]]]
                 [] Token = "--max"  -> [args EXCEPT !.max_steps = DecValue[argv[i + 1]]]
    /\ i' = i + 2
    /\ UNCHANGED <<argv, disk, mctl, status, emuVars>>

ParseBinary == /\ Parsing /\ IsPath(Token) /\ args.binary = NoPath
               /\ args' = [args EXCEPT !.binary = <<Token>>]
               /\ i' = i + 1
               /\ UNCHANGED <<argv, disk, mctl, status, emuVars>>

(* --help, an option that is unknown or lacks its value, a second binary. *)
ParseError == /\ Parsing
              /\ \/ Token = "--help"
                 \/ Token \in Unknown
                 \/ Token \in ValueOpt /\ i = Len(argv)
                 \/ IsPath(Token) /\ args.binary # NoPath
              /\ Reject

ParseNoBinary == /\ mctl = "parse" /\ i > Len(argv) /\ args.binary = NoPath
                 /\ Reject

ParseDone == /\ mctl = "parse" /\ i > Len(argv) /\ args.binary # NoPath
             /\ mctl' = "init"
             /\ UNCHANGED <<argv, disk, i, args, status, emuVars>>

ParseArgs == ParseFlag \/ ParseValue \/ ParseBinary \/ ParseError \/ ParseNoBinary
                \/ ParseDone

----------------------------------------------------------------------------
(* main after parse_args. *)
InitEmulator == /\ mctl = "init"
                /\ CallInit(args.reset_pc)
                /\ mctl' = "load"
                /\ UNCHANGED <<argv, disk, i, args, status>>

Contents(path) == IF path \in DOMAIN disk THEN disk[path] ELSE <<>>

(* Mutant of LoadBinary: the return value is not looked at. *)
LoadBinaryUnchecked ==
    /\ mctl = "load"
    /\ CallLoad(Contents(args.binary[1]), args.load_addr)
    /\ mctl' = "run"
    /\ UNCHANGED <<argv, disk, i, args, status>>

LoadBinary == /\ mctl = "load"
              /\ CallLoad(Contents(args.binary[1]), args.load_addr)
              /\ \/ rc' = 0 /\ mctl' = "run" /\ UNCHANGED status
                 \/ rc' # 0 /\ mctl' = "exited" /\ status' = EXIT_FAILURE
              /\ UNCHANGED <<argv, disk, i, args>>

RunEmulator == /\ mctl = "run"
               /\ CallRun(args.max_steps)
               /\ mctl' = "wait"
               /\ UNCHANGED <<argv, disk, i, args, status>>

(* The exit status of a process is one byte of what main returns. *)
Exit == /\ mctl = "wait" /\ ctl = "idle"
        /\ mctl' = "exited"
        /\ status' = dev.exit_code % Byte
        /\ UNCHANGED <<argv, disk, i, args, emuVars>>

(* The emulator at work, in either program. *)
Emulate == /\ mctl \in {"wait", "embed"}
           /\ Internal
           /\ UNCHANGED mainVars

Embed == /\ mctl = "embed" /\ cycle_count < EmbedCap
         /\ Calls
         /\ UNCHANGED mainVars

Rve == ParseArgs \/ InitEmulator \/ LoadBinary \/ RunEmulator \/ Exit \/ Emulate

MainNext == Rve \/ Embed

(* rve is one thread that never blocks.  Another program need not make any    *)
(* call, but a call it made goes on.                                          *)
MainSpec == MainInit /\ [][MainNext]_procVars /\ WF_procVars(Rve)

----------------------------------------------------------------------------
Arguments == [binary : {NoPath} \cup {<<argv[p]>> : p \in 1 .. Len(argv)},
              flags : SUBSET FlagOpt, reset_pc : Word, load_addr : Word,
              max_steps : Limits]

MainTypeOK == /\ EmuTypeOK
              /\ i \in 1 .. Len(argv) + 1
              /\ args \in Arguments
              /\ mctl \in {"parse", "init", "load", "run", "wait", "exited", "embed"}
              /\ status \in ByteVal

(* What a command line means, without a loop.  A token is the value of an     *)
(* option when the token before it is such an option and no value itself.     *)
ValueAt == CHOOSE V \in SUBSET (1 .. Len(argv)) :
              \A p \in 1 .. Len(argv) :
                 p \in V <=> p > 1 /\ p - 1 \notin V /\ argv[p - 1] \in ValueOpt
Items       == (1 .. Len(argv)) \ ValueAt
Given(opt)  == {p \in Items : argv[p] = opt}
Last(opt, values) == IF Given(opt) = {} THEN 0 ELSE values[argv[Max(Given(opt)) + 1]]
Paths       == {p \in Items : IsPath(argv[p])}
WellFormed  == /\ Cardinality(Paths) = 1
               /\ \A p \in Items : argv[p] \notin {"--help"} \cup Unknown
               /\ \A opt \in ValueOpt : Len(argv) \notin Given(opt)

(* rve does what its command line says: it goes on exactly if the line names  *)
(* one binary and nothing in it is in error, with the last value of each      *)
(* option, whatever order the options and the binary come in and whatever the *)
(* values look like.                                                          *)
ParsedAsWritten ==
    /\ mctl \in {"init", "load", "run", "wait"} =>
          /\ WellFormed
          /\ \E p \in Paths : args.binary = <<argv[p]>>
          /\ args.flags = {argv[p] : p \in Items} \cap FlagOpt
          /\ args.reset_pc = Last("--pc", HexValue)
          /\ args.load_addr = Last("--load", HexValue)
          /\ args.max_steps = Last("--max", DecValue)
    /\ mctl = "exited" /\ ctl = "new" => ~WellFormed

(* rve reports success only for a program that was loaded, ran and halted by  *)
(* itself with an exit code whose low byte is 0 (tools/run_tests.sh takes     *)
(* the status for the verdict); usage and load errors always report failure,  *)
(* and a program that could not be loaded is never run.                       *)
SuccessMeansGuestExit ==
    /\ mctl = "exited" => (status = 0 <=> /\ cycle_count > 0 /\ rc = 0
                                          /\ dev.halted /\ dev.exit_code % Byte = 0)
    /\ mctl # "embed" /\ rc # 0 => cycle_count = 0

(* A load, by rve or by another program, can be read back through the bus.    *)
LoadsAreVisible ==
    [][/\ \A l \in Loads : LoadShows(l.file, l.addr)
       /\ mctl = "load" => LoadShows(Contents(args.binary[1]), args.load_addr)]_procVars

(* With --max, or on an error, rve exits whatever the program does.           *)
Exits == (mctl = "parse" /\ (WellFormed => Last("--max", DecValue) # 0))
             ~> mctl = "exited"
=============================================================================
