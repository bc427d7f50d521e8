------------------------------ MODULE MCConfig ------------------------------
(***************************************************************************)
(* Command lines of up to three options and files of up to two lines.      *)
(***************************************************************************)
EXTENDS Config

MCPieces ==
  {"", " ", "x", "7", "0x11", "70000", "0.05", "/dev/a", "/dev/b", "gateway.conf",
   "--port", "--serial", "--baud", "--timeout", "--drop", "--corrupt", "--seed",
   "--units", "--config", "--quiet", "--help", "--what"}

MCstoi == [p \in MCPieces |-> CASE p = "7" -> 7 [] p = "70000" -> 70000
                                [] p \in {"0x11", "0.05"} -> 0 [] OTHER -> None]
MCstod == [p \in MCPieces |-> CASE p = "7" -> 700 [] p = "70000" -> 7000000
                                [] p = "0x11" -> 1700 [] p = "0.05" -> 5 [] OTHER -> None]
MCstrtoul == [p \in MCPieces |-> CASE p = "7" -> 7 [] p = "70000" -> 70000
                                   [] p = "0x11" -> 17 [] OTHER -> 0]

Option(name, text) == << << name >>, text >>

Options ==
  { Option("--port", << p >>) : p \in {"70000", "x", "0x11"} } \cup
  { Option("--serial", << p >>) : p \in {"/dev/a", ""} } \cup
  { Option("--units", t) : t \in { << "7", "70000" >>, << "7", "", "0x11" >>, << "" >>,
                                   << "7", " " >> } } \cup
  { Option("--drop", << p >>) : p \in {"0.05", "x"} } \cup
  { Option("--baud", << "7" >>), Option("--timeout", << "7" >>),
    Option("--corrupt", << "0.05" >>), Option("--seed", << "7" >>) }

Flags == { << << p >> >> : p \in {"--quiet", "--help", "--what"} }
File  == Option("--config", << "gateway.conf" >>)

\* The file before two options, after one, or not at all, and an option whose
\* value is missing.
MCArgvs ==
  LET O == Options \cup Flags
  IN { << >>, File, << << "--config" >> >> } \cup
     O \cup { a \o File : a \in O } \cup { File \o a \o b : a \in O, b \in O } \cup
     { File \o << << p >> >> : p \in DOMAIN KeyOf }

Pair(k, text) == [kind |-> "pair", key |-> k, value |-> text]

Lines ==
  { [kind |-> "blank"], [kind |-> "bad"], Pair("other", << "7" >>),
    Pair("tcp_port", << "0x11" >>), Pair("tcp_port", << "70000" >>),
    Pair("serial_port", << " " >>), Pair("serial_port", << "/dev/b" >>),
    Pair("units", << " ", "0x11" >>), Pair("units", << "" >>),
    Pair("baud", << "x" >>), Pair("response_timeout_ms", << "70000" >>),
    Pair("inject_drop", << "x" >>), Pair("inject_drop", << "0.05" >>),
    Pair("inject_corrupt", << "0.05" >>), Pair("inject_seed", << "70000" >>) }

MCFiles == { NoFile, << >> } \cup { << a, b >> : a \in Lines, b \in Lines }
=============================================================================
