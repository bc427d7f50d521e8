------------------------------- MODULE Config -------------------------------
(***************************************************************************)
(* How the gateway gets its settings: the option loop of main              *)
(* (src/main.cpp), Config::load and its accessors (src/config.hpp), the    *)
(* merge of the two in main, and the transport main builds from the        *)
(* result.                                                                 *)
(*                                                                         *)
(* A word of the command line or a value in the file is a text, and a text *)
(* is the sequence of its pieces between commas, so that "" is << "" >>.   *)
(* What the C library makes of a piece is a constant; the command line is  *)
(* read with stoi, stoul and stod, which read decimal numbers and throw    *)
(* where there is none, the file with strtoul, base 0, and strtod, which   *)
(* give 0 there.  Rates are in hundredths.  The texts stand for numbers    *)
(* that fit an int.                                                        *)
(***************************************************************************)
EXTENDS Integers, Sequences, FiniteSetsExt

CONSTANTS
  Pieces,   \* the pieces of texts
  stoi,     \* piece -> number, None where stoi, stoul throw
  stod,     \* piece -> rate, None where stod throws
  strtoul,  \* piece -> number
  Argvs,    \* the command lines: sequences of texts
  Files,    \* the files: sequences of lines, or NoFile
  NoFile,   \* there is no such file
  None

Text == Seq(Pieces)

\* What a line is once its comment is gone: blank, without "=", or a pair.
Line == [kind : {"blank", "bad"}] \cup [kind : {"pair"}, key : STRING, value : Text]

ASSUME ConfigAssumption ==
  /\ {"", " "} \subseteq Pieces
  /\ stoi \in [Pieces -> Nat \cup {None}] /\ stod \in [Pieces -> Nat \cup {None}]
  /\ strtoul \in [Pieces -> Nat]
  /\ Argvs \subseteq Seq(Text) /\ Files \ {NoFile} \subseteq Seq(Line)

Empty == << "" >>

\* struct Options, by the keys of the file.
Default ==
  [ tcp_port |-> 5020, serial_port |-> Empty, baud |-> 19200,
    response_timeout_ms |-> 300, inject_drop |-> 0, inject_corrupt |-> 0,
    inject_seed |-> 1, units |-> <<17, 34, 51>> ]

Keys == DOMAIN Default

\* The options that take a value and set a key.
KeyOf ==
  [ p \in {"--port", "--serial", "--baud", "--timeout", "--drop", "--corrupt",
           "--seed", "--units"} |->
      CASE p = "--port" -> "tcp_port"
        [] p = "--serial" -> "serial_port"
        [] p = "--baud" -> "baud"
        [] p = "--timeout" -> "response_timeout_ms"
        [] p = "--drop" -> "inject_drop"
        [] p = "--corrupt" -> "inject_corrupt"
        [] p = "--seed" -> "inject_seed"
        [] p = "--units" -> "units" ]

Rates == {"inject_drop", "inject_corrupt"}

-----------------------------------------------------------------------------
\* A command line value: what it means, and whether its conversion throws.
parse_units(text) ==
  LET full == SelectSeq(text, LAMBDA p : p # "")
  IN [n \in DOMAIN full |-> stoi[full[n]] % 256]

Throws(k, text) ==
  CASE k = "serial_port" -> FALSE
    [] k = "units"       -> \E n \in DOMAIN text : text[n] # "" /\ stoi[text[n]] = None
    [] k \in Rates       -> stod[Head(text)] = None
    [] OTHER             -> stoi[Head(text)] = None

Parsed(k, text) ==
  CASE k = "serial_port" -> text
    [] k = "units"       -> parse_units(text)
    [] k \in Rates       -> stod[Head(text)]
    [] k = "tcp_port"    -> stoi[Head(text)] % 65536
    [] OTHER             -> stoi[Head(text)]

\* A value of the file.
trim(p) == IF p = " " THEN "" ELSE p

units(text) ==
  LET full == SelectSeq([n \in DOMAIN text |-> trim(text[n])], LAMBDA p : p # "")
  IN [n \in DOMAIN full |-> strtoul[full[n]] % 256]

Read(k, text) ==
  CASE k = "serial_port" -> text
    [] k = "units"       -> units(text)
    [] k \in Rates       -> IF stod[Head(text)] = None THEN 0 ELSE stod[Head(text)]
    [] k = "tcp_port"    -> strtoul[Head(text)] % 65536
    [] OTHER             -> strtoul[Head(text)]

-----------------------------------------------------------------------------
VARIABLES
  argv, file,  \* the inputs
  phase,       \* "args", "load", "merge", "build", "up", "exit"
  i,           \* the word the option loop is at
  opt,         \* Options
  config_file, \* its member of this name
  lineno,      \* the lines read
  kv,          \* kv_, a function on the keys met
  transport,   \* what main built, <<>> before
  status       \* the exit status, that of SIGABRT for an uncaught exception

vars == <<argv, file, phase, i, opt, config_file, lineno, kv, transport, status>>

Init ==
  /\ argv \in Argvs /\ file \in Files
  /\ phase = "args" /\ i = 1 /\ opt = Default /\ config_file = Empty
  /\ lineno = 0 /\ kv = << >> /\ transport = << >> /\ status = None

Abort == 134

Exit(code) == phase' = "exit" /\ status' = code

-----------------------------------------------------------------------------
\* The option loop.
AtWord(words) == phase = "args" /\ i <= Len(argv) /\ argv[i] \in words

ValueOptions == { << p >> : p \in DOMAIN KeyOf }

\* next(): the word after, "" at the end.
Operand == IF i < Len(argv) THEN argv[i + 1] ELSE Empty

ParseValue ==
  /\ AtWord(ValueOptions)
  /\ LET k == KeyOf[Head(argv[i])] IN
       IF Throws(k, Operand)
         THEN Exit(Abort) /\ UNCHANGED <<i, opt>>
         ELSE /\ opt' = [opt EXCEPT ![k] = Parsed(k, Operand)]
              /\ i' = i + 2
              /\ UNCHANGED <<phase, status>>
  /\ UNCHANGED <<argv, file, config_file, lineno, kv, transport>>

ParseConfig ==
  /\ AtWord({ << "--config" >> })
  /\ config_file' = Operand
  /\ i' = i + 2
  /\ UNCHANGED <<argv, file, phase, opt, lineno, kv, transport, status>>

ParseQuiet ==
  /\ AtWord({ << "--quiet" >> })
  /\ i' = i + 1
  /\ UNCHANGED <<argv, file, phase, opt, config_file, lineno, kv, transport, status>>

\* --help returns 0, a word that is no option 2.
ParseLast ==
  /\ phase = "args" /\ i <= Len(argv)
  /\ argv[i] \notin ValueOptions \cup { << "--config" >>, << "--quiet" >> }
  /\ Exit(IF argv[i] = << "--help" >> THEN 0 ELSE 2)
  /\ UNCHANGED <<argv, file, i, opt, config_file, lineno, kv, transport>>

EndOfArgs ==
  /\ phase = "args" /\ i > Len(argv)
  /\ phase' = IF config_file = Empty THEN "build" ELSE "load"
  /\ UNCHANGED <<argv, file, i, opt, config_file, lineno, kv, transport, status>>

-----------------------------------------------------------------------------
\* Config::load; a failure is main's return 2.
CannotOpen ==
  /\ phase = "load" /\ file = NoFile
  /\ Exit(2)
  /\ UNCHANGED <<argv, file, i, opt, config_file, lineno, kv, transport>>

AtLine(kind) ==
  /\ phase = "load" /\ file # NoFile /\ lineno < Len(file)
  /\ file[lineno + 1].kind = kind
  /\ lineno' = lineno + 1

LoadBlank ==
  /\ AtLine("blank")
  /\ UNCHANGED <<argv, file, phase, i, opt, config_file, kv, transport, status>>

\* Defect: a line that cannot be read is skipped.
LoadBad_Skip ==
  /\ AtLine("bad")
  /\ UNCHANGED <<argv, file, phase, i, opt, config_file, kv, transport, status>>

LoadBad ==
  /\ AtLine("bad")
  /\ Exit(2)
  /\ UNCHANGED <<argv, file, i, opt, config_file, kv, transport>>

\* kv_[trim(key)] = trim(value)
LoadPair ==
  /\ AtLine("pair")
  /\ LET l == file[lineno + 1]
         v == IF l.value = << " " >> THEN Empty ELSE l.value
     IN kv' = [k \in DOMAIN kv \cup {l.key} |-> IF k = l.key THEN v ELSE kv[k]]
  /\ UNCHANGED <<argv, file, phase, i, opt, config_file, transport, status>>

EndOfFile ==
  /\ phase = "load" /\ file # NoFile /\ lineno = Len(file)
  /\ phase' = "merge"
  /\ UNCHANGED <<argv, file, i, opt, config_file, lineno, kv, transport, status>>

-----------------------------------------------------------------------------
\* str, num and real: what an option that has its default value becomes.
FromFile(k) == IF k \in DOMAIN kv THEN Read(k, kv[k]) ELSE Default[k]

\* Config::units, which keeps the value it is given only if it finds no list.
UnitsFromFile ==
  IF "units" \in DOMAIN kv /\ units(kv["units"]) # << >> THEN units(kv["units"])
                                                         ELSE opt["units"]

\* Defect: the file wins over the command line.
Merge_FileWins ==
  /\ phase = "merge"
  /\ opt' = [k \in Keys |->
               IF k = "units" THEN UnitsFromFile
               ELSE IF k \in DOMAIN kv THEN FromFile(k) ELSE opt[k]]
  /\ phase' = "build"
  /\ UNCHANGED <<argv, file, i, config_file, lineno, kv, transport, status>>

Merge ==
  /\ phase = "merge"
  /\ opt' = [k \in Keys |->
               IF k = "units" THEN UnitsFromFile
               ELSE IF opt[k] = Default[k] THEN FromFile(k) ELSE opt[k]]
  /\ phase' = "build"
  /\ UNCHANGED <<argv, file, i, config_file, lineno, kv, transport, status>>

\* The bus, and the injector around it.
Build ==
  /\ phase = "build"
  /\ LET bus == IF opt["serial_port"] # Empty
                  THEN [port |-> opt["serial_port"], baud |-> opt["baud"],
                        timeout |-> opt["response_timeout_ms"]]
                  ELSE [units |-> opt["units"], registers |-> 64]
     IN transport' =
          IF opt["inject_drop"] > 0 \/ opt["inject_corrupt"] > 0
            THEN [bus |-> bus, drop |-> opt["inject_drop"],
                  corrupt |-> opt["inject_corrupt"], seed |-> opt["inject_seed"]]
            ELSE [bus |-> bus]
  /\ phase' = "up"
  /\ UNCHANGED <<argv, file, i, opt, config_file, lineno, kv, status>>

Next ==
  \/ ParseValue \/ ParseConfig \/ ParseQuiet \/ ParseLast \/ EndOfArgs
  \/ CannotOpen \/ LoadBlank \/ LoadBad \/ LoadPair \/ EndOfFile
  \/ Merge \/ Build

Spec == Init /\ [][Next]_vars

-----------------------------------------------------------------------------
(***************************************************************************)
(* The reference: what the inputs say, without the loops that read them.   *)
(* The conversions of texts are those of the code's model above.           *)
(***************************************************************************)
TakesValue(w) == w \in ValueOptions \cup { << "--config" >> }

\* The words that are read as options: not those an option takes as its value.
Starts ==
  LET start[n \in DOMAIN argv] ==
        \/ n = 1
        \/ start[n - 1] /\ ~ TakesValue(argv[n - 1])
        \/ n > 2 /\ start[n - 2] /\ TakesValue(argv[n - 2])
  IN { n \in DOMAIN argv : start[n] }

OperandOf(n) == IF n < Len(argv) THEN argv[n + 1] ELSE Empty

\* The last word that sets key k, the last line that does.
WordsFor(k) == { n \in Starts : argv[n] \in ValueOptions /\ KeyOf[Head(argv[n])] = k }
LinesFor(k) == { n \in DOMAIN file : file[n].kind = "pair" /\ file[n].key = k }

FileUsed ==
  LET C == { n \in Starts : argv[n] = << "--config" >> }
  IN C # {} /\ OperandOf(Max(C)) # Empty

OnCommandLine(k) ==
  IF WordsFor(k) = {} THEN Default[k] ELSE Parsed(k, OperandOf(Max(WordsFor(k))))

InFile(k) ==
  IF ~ FileUsed \/ LinesFor(k) = {} THEN Default[k]
  ELSE LET v == file[Max(LinesFor(k))].value
       IN Read(k, IF v = << " " >> THEN Empty ELSE v)

(***************************************************************************)
(* main.cpp:184-206: the gateway starts with the last value the command    *)
(* line gives a setting if that is not the default, with the last of the   *)
(* file otherwise, in whatever order options and lines come.  units is     *)
(* left to CommandLineWins; here, the list of the file is the one in use.  *)
(***************************************************************************)
StartsAsConfigured ==
  phase = "up" =>
    \A k \in Keys :
      opt[k] = IF k = "units"
                 THEN IF FileUsed /\ LinesFor(k) # {} /\ InFile(k) # << >>
                        THEN InFile(k) ELSE OnCommandLine(k)
                 ELSE IF OnCommandLine(k) # Default[k] THEN OnCommandLine(k) ELSE InFile(k)

(***************************************************************************)
(* main.cpp:181, 191 and config.hpp:27, 39: the gateway does not start on  *)
(* an option it does not know, a number it cannot read on the command      *)
(* line, a file that is not there or a line that is no pair; it ends with  *)
(* status 2 or, for the number, the exception.                             *)
(***************************************************************************)
BadInputNeverStarts ==
  LET BadWord(n) ==
        \/ ~ TakesValue(argv[n]) /\ argv[n] \notin { << "--quiet" >>, << "--help" >> }
        \/ argv[n] \in ValueOptions /\ Throws(KeyOf[Head(argv[n])], OperandOf(n))
      BadFile == file = NoFile \/ \E n \in DOMAIN file : file[n].kind = "bad"
  IN /\ (\E n \in Starts : BadWord(n)) \/ (FileUsed /\ BadFile) => phase # "up"
     /\ phase = "exit" /\ status = 0 =>
          \E h \in Starts : argv[h] = << "--help" >> /\ \A n \in Starts : n < h => ~ BadWord(n)

(***************************************************************************)
(* main.cpp:184-185: "a command-line value differing from the built-in     *)
(* default overrides it", of every key (config.hpp:15, gateway.conf:2).    *)
(***************************************************************************)
CommandLineWins ==
  phase = "up" =>
    \A k \in Keys : OnCommandLine(k) # Default[k] => opt[k] = OnCommandLine(k)
=============================================================================
