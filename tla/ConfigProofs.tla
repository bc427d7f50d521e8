---------------------------- MODULE ConfigProofs ----------------------------
(***************************************************************************)
(* The settings of the gateway, for every command line and every file.     *)
(* The reference of Config says what all the words and all the lines mean; *)
(* the inductive invariant says that the loops of main and Config::load    *)
(* have, at each word and each line, what those before it mean.            *)
(***************************************************************************)
EXTENDS Config, TLAPS

\* The inputs are sequences.
LEMMA Inputs ==
  ASSUME argv \in Argvs, file \in Files
  PROVE  /\ Len(argv) \in Nat /\ DOMAIN argv = 1 .. Len(argv)
         /\ file # NoFile => /\ Len(file) \in Nat /\ DOMAIN file = 1 .. Len(file)
                             /\ \A n \in DOMAIN file : file[n] \in Line
<1>1. argv \in Seq(Text) /\ (file # NoFile => file \in Seq(Line))
  BY ConfigAssumption, Zenon
<1>2. Len(argv) \in Nat /\ DOMAIN argv = 1 .. Len(argv)
  BY <1>1
<1>3. ASSUME file # NoFile
      PROVE  /\ Len(file) \in Nat /\ DOMAIN file = 1 .. Len(file)
             /\ \A n \in DOMAIN file : file[n] \in Line
  BY <1>1, <1>3
<1> QED BY <1>2, <1>3

-----------------------------------------------------------------------------
\* The word the loop goes to after the word n.
After(n) == IF TakesValue(argv[n]) THEN n + 2 ELSE n + 1

\* Whether the loop comes to n, if it comes to those before n that are in S.
From(S, n) ==
  \/ n = 1
  \/ (n - 1) \in S /\ ~ TakesValue(argv[n - 1])
  \/ n > 2 /\ (n - 2) \in S /\ TakesValue(argv[n - 2])

\* The words read as options, out of a set of the words.
Below(S, b) == { n \in S : n < b }

\* What the words W say of key k; which file the words C name.
Said(k, W) == IF W = {} THEN Default[k] ELSE Parsed(k, OperandOf(Max(W)))

ConfigWords == { n \in Starts : argv[n] = << "--config" >> }

Named(C) == IF C = {} THEN Empty ELSE OperandOf(Max(C))

BadWord(n) ==
  \/ ~ TakesValue(argv[n]) /\ argv[n] \notin { << "--quiet" >>, << "--help" >> }
  \/ argv[n] \in ValueOptions /\ Throws(KeyOf[Head(argv[n])], OperandOf(n))

\* The value a line of the set L leaves in kv_.
Trimmed(v) == IF v = << " " >> THEN Empty ELSE v

UpTo(L, b) == { n \in L : n <= b }

BadFile == file = NoFile \/ \E n \in DOMAIN file : file[n].kind = "bad"

\* What the gateway is to start with.
Setting(k) ==
  IF k = "units"
    THEN IF FileUsed /\ LinesFor(k) # {} /\ InFile(k) # << >>
           THEN InFile(k) ELSE OnCommandLine(k)
    ELSE IF OnCommandLine(k) # Default[k] THEN OnCommandLine(k) ELSE InFile(k)

(***************************************************************************)
(* The inductive invariant, by the loop it is about.                       *)
(***************************************************************************)
\* The option loop is at a word that is read as an option, has come past every
\* such word before it, and none of them was a reason to stop.
AtStart ==
  /\ argv \in Argvs /\ file \in Files
  /\ phase \in {"args", "load", "merge", "build", "up", "exit"}
  /\ i \in Nat \ {0}
  /\ phase = "args" => (i \in DOMAIN argv => i \in Starts)
  /\ phase \in {"load", "merge", "build", "up"} => i > Len(argv)
  /\ \A n \in Starts : n < i => After(n) <= i
  /\ \A n \in Starts : n < i => ~ BadWord(n) /\ argv[n] # << "--help" >>
  /\ phase = "exit" /\ status = 0 => i \in Starts /\ argv[i] = << "--help" >>

\* The options and the file are what those words say.
AsSaid ==
  /\ config_file = Named(Below(ConfigWords, i))
  /\ DOMAIN opt = Keys
  /\ phase \in {"args", "load", "merge"} =>
       \A k \in Keys : opt[k] = Said(k, Below(WordsFor(k), i))

\* kv_ holds the last pair of each key, of the lines read, and none of those was bad.
AsRead ==
  /\ lineno \in Nat
  /\ phase = "args" => lineno = 0 /\ DOMAIN kv = {}
  /\ phase \in {"load", "merge"} => config_file # Empty
  /\ phase = "load" /\ file = NoFile => lineno = 0 /\ DOMAIN kv = {}
  /\ phase = "merge" => file # NoFile /\ lineno = Len(file)
  /\ phase \in {"load", "merge"} /\ file # NoFile =>
       /\ lineno <= Len(file)
       /\ \A n \in 1 .. lineno : file[n].kind # "bad"
       /\ \A k : k \in DOMAIN kv <=> UpTo(LinesFor(k), lineno) # {}
       /\ \A k \in DOMAIN kv : kv[k] = Trimmed(file[Max(UpTo(LinesFor(k), lineno))].value)

\* Once merged, the options are the settings, and the file was good if it was read.
AsMerged ==
  phase \in {"build", "up"} =>
    /\ \A k \in Keys : opt[k] = Setting(k)
    /\ FileUsed => ~ BadFile

ConfigInv == AtStart /\ AsSaid /\ AsRead /\ AsMerged
-----------------------------------------------------------------------------
(***************************************************************************)
(* The recursive function in Starts exists: the least set of words that    *)
(* has the first, and after a word the one the loop goes to, is one.       *)
(***************************************************************************)
IsStart(f) ==
  f = [n \in DOMAIN argv |->
         \/ n = 1
         \/ f[n - 1] /\ ~ TakesValue(argv[n - 1])
         \/ n > 2 /\ f[n - 2] /\ TakesValue(argv[n - 2])]

Closed(S) == \A n \in DOMAIN argv : From(S, n) => n \in S

LeastClosed == { n \in DOMAIN argv : \A S \in SUBSET DOMAIN argv : Closed(S) => n \in S }

\* The least closed set has nothing it need not have.
LEMMA LeastIsFixed ==
  ASSUME NEW n \in DOMAIN argv
  PROVE  n \in LeastClosed <=> From(LeastClosed, n)
<1> DEFINE G == LeastClosed
           D == DOMAIN argv
<1>1. \A S, T : \A k \in D : S \subseteq T /\ From(S, k) => From(T, k)
  BY DEF From
<1>2. \A S \in SUBSET D : Closed(S) => G \subseteq S
  BY DEF LeastClosed
<1>3. Closed(G)
  <2> SUFFICES ASSUME NEW k \in D, From(G, k), NEW S \in SUBSET D, Closed(S) PROVE k \in S
    BY DEF Closed, LeastClosed
  <2>1. From(S, k)
    BY <1>1, <1>2
  <2> QED BY <2>1 DEF Closed
<1>4. ASSUME n \in G, ~ From(G, n) PROVE FALSE
  <2> DEFINE S == G \ {n}
  <2>1. S \in SUBSET D /\ S \subseteq G
    BY DEF LeastClosed
  <2>2. Closed(S)
    <3> SUFFICES ASSUME NEW k \in D, From(S, k) PROVE k \in S
      BY DEF Closed
    <3>1. From(G, k)
      BY <1>1, <2>1
    <3>2. k \in G /\ k # n
      BY <1>3, <1>4, <3>1 DEF Closed
    <3> QED BY <3>2
  <2> QED BY <1>2, <1>4, <2>1, <2>2
<1> QED BY <1>3, <1>4 DEF Closed

\* There is such a function.
LEMMA StartExists ==
  ASSUME argv \in Argvs, file \in Files
  PROVE  \E f : IsStart(f)
<1> DEFINE f == [n \in DOMAIN argv |-> n \in LeastClosed]
           B(n) == \/ n = 1
                   \/ f[n - 1] /\ ~ TakesValue(argv[n - 1])
                   \/ n > 2 /\ f[n - 2] /\ TakesValue(argv[n - 2])
<1>1. ASSUME NEW n \in DOMAIN argv PROVE (n \in LeastClosed) = B(n)
  <2>1. n \in Nat /\ (n # 1 => n - 1 \in DOMAIN argv) /\ (n > 2 => n - 2 \in DOMAIN argv)
    BY Inputs
  <2>2. n # 1 => f[n - 1] = (n - 1 \in LeastClosed)
    BY <2>1, Zenon
  <2>3. n > 2 => f[n - 2] = (n - 2 \in LeastClosed)
    BY <2>1, Zenon
  <2>4. n \in LeastClosed <=> From(LeastClosed, n)
    BY LeastIsFixed
  <2> HIDE DEF f
  <2>5. n \in LeastClosed <=> B(n)
    BY <2>1, <2>2, <2>3, <2>4 DEF From
  <2>6. \A x, y \in BOOLEAN : (x <=> y) => x = y
    OBVIOUS
  <2>7. (n \in LeastClosed) \in BOOLEAN /\ B(n) \in BOOLEAN
    BY SMT
  <2> HIDE DEF B
  <2> QED BY <2>5, <2>6, <2>7, Zenon
<1>2. f = [n \in DOMAIN argv |-> B(n)]
  BY <1>1, Zenon
<1> QED BY <1>2, Zenon DEF IsStart

(***************************************************************************)
(* A word is read as an option if it is the first, or if the loop of main  *)
(* comes to it from one that is.                                           *)
(***************************************************************************)
LEMMA StartsUnfolded ==
  ASSUME argv \in Argvs, file \in Files
  PROVE  /\ Starts \subseteq DOMAIN argv
         /\ \A n \in DOMAIN argv : n \in Starts <=> From(Starts, n)
<1> DEFINE f == CHOOSE g : IsStart(g)
<1>1. IsStart(f)
  BY StartExists, Zenon
<1>2. Starts = { n \in DOMAIN argv : f[n] }
  BY Zenon DEF Starts, IsStart
<1> HIDE DEF f
<1>3. ASSUME NEW n \in DOMAIN argv PROVE n \in Starts <=> From(Starts, n)
  <2>1. n \in Nat /\ (n # 1 => n - 1 \in DOMAIN argv) /\ (n > 2 => n - 2 \in DOMAIN argv)
    BY Inputs
  <2>2. f[n] = \/ n = 1
               \/ f[n - 1] /\ ~ TakesValue(argv[n - 1])
               \/ n > 2 /\ f[n - 2] /\ TakesValue(argv[n - 2])
    BY <1>1, Zenon DEF IsStart
  <2>3. n # 1 => (n - 1 \in Starts <=> f[n - 1])
    BY <1>2, <2>1, Zenon
  <2>4. n > 2 => (n - 2 \in Starts <=> f[n - 2])
    BY <1>2, <2>1, Zenon
  <2>5. n \in Starts <=> f[n]
    BY <1>2, Zenon
  <2> QED BY <2>2, <2>3, <2>4, <2>5, Zenon DEF From
<1>4. Starts \subseteq DOMAIN argv
  BY <1>2, Zenon
<1> QED BY <1>3, <1>4

\* The loop leaves the word at b, having come past those before: it goes to a word
\* that is read as an option, if there is one, and there is none in between.
LEMMA NextStart ==
  ASSUME argv \in Argvs, file \in Files, NEW b \in Starts,
         \A n \in Starts : n < b => After(n) <= b
  PROVE  /\ After(b) \in Nat \ {0}
         /\ After(b) \in DOMAIN argv => After(b) \in Starts
         /\ \A n \in Starts : n < After(b) <=> n < b \/ n = b
         /\ \A n \in Starts : n < After(b) => After(n) <= After(b)
<1>1. /\ Len(argv) \in Nat /\ DOMAIN argv = 1 .. Len(argv)
      /\ Starts \subseteq DOMAIN argv /\ \A n \in DOMAIN argv : n \in Starts <=> From(Starts, n)
  BY Inputs, StartsUnfolded
<1>2. b \in Nat \ {0} /\ \A n \in Starts : n \in Nat \ {0}
  BY <1>1
<1>3. After(b) \in {b + 1, b + 2} /\ After(b) \in Nat \ {0} /\ After(b) > b
  BY <1>2 DEF After
<1>4. ASSUME After(b) \in DOMAIN argv PROVE After(b) \in Starts
  <2>1. From(Starts, After(b))
    <3>1. CASE TakesValue(argv[b])
      <4>1. After(b) = b + 2 /\ After(b) - 2 = b /\ After(b) > 2
        BY <1>2, <3>1 DEF After
      <4> QED BY <3>1, <4>1 DEF From
    <3>2. CASE ~ TakesValue(argv[b])
      <4>1. After(b) = b + 1 /\ After(b) - 1 = b
        BY <1>2, <3>2 DEF After
      <4> QED BY <3>2, <4>1 DEF From
    <3> QED BY <3>1, <3>2
  <2> QED BY <1>1, <1>4, <2>1
<1>5. ASSUME NEW n \in Starts, n < After(b), n > b PROVE FALSE
  <2>1. n = b + 1 /\ TakesValue(argv[b]) /\ n \in DOMAIN argv
    BY <1>1, <1>2, <1>5 DEF After
  <2>2. From(Starts, n) /\ n - 1 = b /\ n # 1
    BY <1>1, <1>2, <2>1
  <2>3. n > 2 /\ (n - 2) \in Starts /\ TakesValue(argv[n - 2])
    BY <2>1, <2>2 DEF From
  <2>4. n - 2 < b /\ After(n - 2) = n
    BY <1>2, <2>1, <2>3 DEF After
  <2> QED BY <1>2, <2>1, <2>3, <2>4
<1>6. \A n \in Starts : n < After(b) <=> n < b \/ n = b
  BY <1>2, <1>3, <1>5
<1>7. ASSUME NEW n \in Starts, n < After(b) PROVE After(n) <= After(b)
  <2>1. CASE n = b
    BY <1>3, <2>1
  <2>2. CASE n < b
    <3>1. After(n) <= b /\ After(n) \in Nat
      BY <1>2, <2>2 DEF After
    <3> QED BY <1>2, <1>3, <3>1
  <2> QED BY <1>6, <1>7, <2>1, <2>2
<1> QED BY <1>3, <1>4, <1>6, <1>7


-----------------------------------------------------------------------------
\* What the inputs say does not change.
LEMMA ReferenceKept ==
  ASSUME argv' = argv, file' = file
  PROVE  /\ Starts' = Starts /\ ConfigWords' = ConfigWords
         /\ \A n : OperandOf(n)' = OperandOf(n) /\ After(n)' = After(n)
         /\ \A n : BadWord(n)' <=> BadWord(n)
         /\ \A k : WordsFor(k)' = WordsFor(k) /\ LinesFor(k)' = LinesFor(k)
         /\ (FileUsed' <=> FileUsed) /\ (BadFile' <=> BadFile)
         /\ \A k : Setting(k)' = Setting(k)
<1>1. Starts' = Starts
  BY DEF Starts
<1>2. \A n : OperandOf(n)' = OperandOf(n) /\ After(n)' = After(n)
  BY DEF OperandOf, After
<1>3. \A n : BadWord(n)' <=> BadWord(n)
  BY <1>2 DEF BadWord
<1>4. ConfigWords' = ConfigWords /\ \A k : WordsFor(k)' = WordsFor(k) /\ LinesFor(k)' = LinesFor(k)
  BY <1>1 DEF ConfigWords, WordsFor, LinesFor
<1>5. (FileUsed' <=> FileUsed) /\ (BadFile' <=> BadFile)
  BY <1>1, <1>2 DEF FileUsed, BadFile
<1>6. \A k : InFile(k)' = InFile(k) /\ OnCommandLine(k)' = OnCommandLine(k)
  BY <1>2, <1>4, <1>5, Zenon DEF InFile, OnCommandLine
<1>7. \A k : Setting(k)' = Setting(k)
  BY <1>4, <1>5, <1>6, Zenon DEF Setting
<1> QED BY <1>1, <1>2, <1>3, <1>4, <1>5, <1>7


\* The greatest of a set and of a number above it.
LEMMA MaxOfNext ==
  ASSUME NEW S \in SUBSET Nat, NEW n \in Nat, \A m \in S : m < n
  PROVE  Max(S \cup {n}) = n
<1> DEFINE P(x) == x \in S \cup {n} /\ \A y \in S \cup {n} : x >= y
<1>1. P(n)
  OBVIOUS
<1>2. ASSUME NEW x, P(x) PROVE x = n
  BY <1>2
<1>3. Max(S \cup {n}) = CHOOSE x : P(x)
  BY DEF Max
<1> HIDE DEF P
<1> QED BY <1>1, <1>2, <1>3, Zenon

\* The words read as options are numbers of words.
LEMMA StartNumbers ==
  ASSUME AtStart
  PROVE  /\ Len(argv) \in Nat /\ DOMAIN argv = 1 .. Len(argv)
         /\ Starts \subseteq DOMAIN argv /\ Starts \in SUBSET Nat
         /\ ConfigWords \subseteq Starts /\ \A k : WordsFor(k) \subseteq Starts
<1>1. argv \in Argvs /\ file \in Files
  BY DEF AtStart
<1>2. Len(argv) \in Nat /\ DOMAIN argv = 1 .. Len(argv) /\ Starts \subseteq DOMAIN argv
  BY <1>1, Inputs, StartsUnfolded
<1> QED BY <1>2 DEF ConfigWords, WordsFor

\* One word further, the words before the loop's place are one more.
LEMMA OneWordMore ==
  ASSUME AtStart, phase = "args", i \in DOMAIN argv, NEW S \in SUBSET Starts
  PROVE  /\ i \in S => /\ Below(S, After(i)) # {} /\ Max(Below(S, After(i))) = i
         /\ i \notin S => Below(S, After(i)) = Below(S, i)
<1>0. argv \in Argvs /\ file \in Files /\ i \in Starts /\ i \in Nat
      /\ \A n \in Starts : n < i => After(n) <= i
  BY DEF AtStart
<1>1. \A n \in Starts : n < After(i) <=> n < i \/ n = i
  BY <1>0, NextStart
<1>2. Below(S, i) \in SUBSET Nat /\ \A n \in Below(S, i) : n < i
  BY StartNumbers DEF Below
<1>3. ASSUME i \in S PROVE Below(S, After(i)) = Below(S, i) \cup {i}
  BY <1>1, <1>3 DEF Below
<1>4. i \notin S => Below(S, After(i)) = Below(S, i)
  BY <1>1 DEF Below
<1>5. Max(Below(S, i) \cup {i}) = i
  BY <1>0, <1>2, MaxOfNext
<1> QED BY <1>3, <1>4, <1>5

\* At the end of the command line, they are all the words.
LEMMA AllWords ==
  ASSUME AtStart, i > Len(argv), NEW S \in SUBSET Starts
  PROVE  Below(S, i) = S
<1>1. i \in Nat
  BY DEF AtStart
<1> QED BY <1>1, StartNumbers DEF Below

\* What is said then is what the reference says.
LEMMA AllSaid ==
  ASSUME AtStart, i > Len(argv)
  PROVE  /\ FileUsed <=> Named(Below(ConfigWords, i)) # Empty
         /\ \A k : Said(k, Below(WordsFor(k), i)) = OnCommandLine(k)
<1>1. Below(ConfigWords, i) = ConfigWords /\ \A k : Below(WordsFor(k), i) = WordsFor(k)
  BY AllWords, StartNumbers
<1>2. FileUsed <=> Named(ConfigWords) # Empty
  BY DEF FileUsed, Named, ConfigWords
<1>3. \A k : Said(k, WordsFor(k)) = OnCommandLine(k)
  BY DEF Said, OnCommandLine
<1> QED BY <1>1, <1>2, <1>3

-----------------------------------------------------------------------------
\* The loop goes on from a word that is good.
LEMMA StartMoves ==
  ASSUME AtStart, phase = "args", i \in DOMAIN argv, UNCHANGED <<argv, file, phase>>,
         i' = After(i), ~ BadWord(i), argv[i] # << "--help" >>
  PROVE  AtStart'
<1>0. /\ argv \in Argvs /\ file \in Files /\ i \in Starts /\ i \in Nat \ {0}
      /\ \A n \in Starts : n < i => After(n) <= i
      /\ \A n \in Starts : n < i => ~ BadWord(n) /\ argv[n] # << "--help" >>
  BY DEF AtStart
<1>1. /\ After(i) \in Nat \ {0} /\ (After(i) \in DOMAIN argv => After(i) \in Starts)
      /\ \A n \in Starts : n < After(i) <=> n < i \/ n = i
      /\ \A n \in Starts : n < After(i) => After(n) <= After(i)
  BY <1>0, NextStart
<1>2. \A n \in Starts : n < After(i) => ~ BadWord(n) /\ argv[n] # << "--help" >>
  BY <1>0, <1>1
<1>3. Starts' = Starts /\ \A n : After(n)' = After(n) /\ (BadWord(n)' <=> BadWord(n))
  BY ReferenceKept
<1>4. phase' = "args"
  OBVIOUS
<1>5. \A n \in Starts' : n < i' => After(n)' <= i'
  BY <1>1, <1>3
<1>6. \A n \in Starts' : n < i' => ~ BadWord(n)' /\ argv'[n] # << "--help" >>
  BY <1>2, <1>3
<1> QED BY <1>0, <1>1, <1>3, <1>4, <1>5, <1>6 DEF AtStart

\* main ends: by the words and lines so far there is nothing more to keep.
LEMMA ExitKeeps ==
  ASSUME ConfigInv, UNCHANGED <<argv, file, i, opt, config_file>>, lineno' \in Nat,
         phase' = "exit", status' = 0 => i \in Starts /\ argv[i] = << "--help" >>
  PROVE  ConfigInv'
<1>1. /\ Starts' = Starts /\ ConfigWords' = ConfigWords
      /\ \A n : OperandOf(n)' = OperandOf(n) /\ After(n)' = After(n)
      /\ \A n : BadWord(n)' <=> BadWord(n)
  BY ReferenceKept
<1>2. AtStart'
  BY <1>1 DEF ConfigInv, AtStart
<1>3. AsSaid'
  BY <1>1 DEF ConfigInv, AsSaid, Named
<1>4. AsRead' /\ AsMerged'
  BY DEF AsRead, AsMerged
<1> QED BY <1>2, <1>3, <1>4 DEF ConfigInv


\* The words of the options, told apart.
LEMMA OptionWords ==
  /\ TakesValue(<< "--config" >>) /\ << "--config" >> \notin ValueOptions
  /\ << "--config" >> # << "--help" >>
  /\ ~ TakesValue(<< "--quiet" >>) /\ << "--quiet" >> # << "--help" >>
  /\ \A w \in ValueOptions : /\ TakesValue(w) /\ w # << "--config" >> /\ w # << "--help" >>
<1>1. DOMAIN KeyOf = {"--port", "--serial", "--baud", "--timeout", "--drop", "--corrupt",
                      "--seed", "--units"}
  BY DEF KeyOf
<1> QED BY <1>1 DEF TakesValue, ValueOptions

\* A word that is read as an option, whatever it is, but for what follows from it.
LEMMA WordStep ==
  ASSUME ConfigInv, phase = "args", i \in DOMAIN argv,
         UNCHANGED <<argv, file, phase, lineno, kv>>, i' = After(i),
         ~ BadWord(i), argv[i] # << "--help" >>,
         config_file' = IF argv[i] = << "--config" >> THEN OperandOf(i) ELSE config_file,
         DOMAIN opt' = Keys,
         \A k \in Keys : opt'[k] = IF i \in WordsFor(k) THEN Parsed(k, OperandOf(i)) ELSE opt[k]
  PROVE  ConfigInv'
<1>0. AtStart /\ AsSaid /\ AsRead /\ i \in Starts
  BY DEF ConfigInv, AtStart
<1>1. /\ ConfigWords' = ConfigWords
      /\ \A n : OperandOf(n)' = OperandOf(n)
      /\ \A k : WordsFor(k)' = WordsFor(k)
  BY ReferenceKept
<1>2. AtStart'
  BY <1>0, StartMoves
<1>3. ConfigWords \in SUBSET Starts /\ \A k : WordsFor(k) \in SUBSET Starts
  BY <1>0, StartNumbers
<1>4. config_file' = Named(Below(ConfigWords, After(i)))
  <2>1. i \in ConfigWords <=> argv[i] = << "--config" >>
    BY <1>0 DEF ConfigWords
  <2>2. CASE i \in ConfigWords
    BY <1>0, <1>3, <2>1, <2>2, OneWordMore DEF Named
  <2>3. CASE i \notin ConfigWords
    BY <1>0, <1>3, <2>1, <2>3, OneWordMore DEF AsSaid
  <2> QED BY <2>2, <2>3
<1>5. ASSUME NEW k \in Keys PROVE opt'[k] = Said(k, Below(WordsFor(k), After(i)))
  <2>1. CASE i \in WordsFor(k)
    BY <1>0, <1>3, <2>1, OneWordMore DEF Said
  <2>2. CASE i \notin WordsFor(k)
    BY <1>0, <1>3, <2>2, OneWordMore DEF AsSaid
  <2> QED BY <2>1, <2>2
<1>6. AsSaid'
  <2>1. Named(Below(ConfigWords, i))' = Named(Below(ConfigWords, After(i)))
    BY <1>1 DEF Named
  <2>2. \A k : Said(k, Below(WordsFor(k), i))' = Said(k, Below(WordsFor(k), After(i)))
    BY <1>1 DEF Said
  <2> QED BY <1>4, <1>5, <2>1, <2>2 DEF AsSaid
<1>7. AsRead' /\ AsMerged'
  BY <1>0 DEF AsRead, AsMerged
<1> QED BY <1>2, <1>6, <1>7 DEF ConfigInv

\* The option loop of main.
LEMMA ArgsStep ==
  ASSUME ConfigInv, ParseValue \/ ParseConfig \/ ParseQuiet \/ ParseLast
  PROVE  ConfigInv'
<1>0. /\ AtStart /\ AsSaid /\ AsRead /\ phase = "args" /\ i <= Len(argv)
      /\ UNCHANGED <<argv, file, lineno, kv>> /\ lineno \in Nat /\ DOMAIN opt = Keys
  BY DEF ConfigInv, AsSaid, AsRead, ParseValue, ParseConfig, ParseQuiet, ParseLast, AtWord
<1>1. i \in DOMAIN argv /\ i \in Starts
  BY <1>0, StartNumbers DEF AtStart
<1>2. Operand = OperandOf(i)
  BY DEF Operand, OperandOf
<1>3. \A k : i \in WordsFor(k) <=> argv[i] \in ValueOptions /\ KeyOf[Head(argv[i])] = k
  BY <1>1 DEF WordsFor
<1>4. CASE ParseValue
  <2> DEFINE k == KeyOf[Head(argv[i])]
  <2>1. argv[i] \in ValueOptions /\ config_file' = config_file
    BY <1>4 DEF ParseValue, AtWord
  <2>2. CASE Throws(k, Operand)
    <3>1. phase' = "exit" /\ status' # 0 /\ UNCHANGED <<i, opt>>
      BY <1>4, <2>2 DEF ParseValue, Exit, Abort
    <3> QED BY <1>0, <2>1, <3>1, ExitKeeps
  <2>3. CASE ~ Throws(k, Operand)
    <3>1. opt' = [opt EXCEPT ![k] = Parsed(k, Operand)] /\ i' = i + 2 /\ phase' = phase
      BY <1>4, <2>3 DEF ParseValue
    <3>2. i' = After(i) /\ ~ BadWord(i) /\ argv[i] # << "--help" >> /\ argv[i] # << "--config" >>
      BY <1>2, <2>1, <2>3, <3>1, OptionWords DEF After, BadWord
    <3>3. \A x \in Keys : opt'[x] = IF i \in WordsFor(x) THEN Parsed(x, OperandOf(i)) ELSE opt[x]
      BY <1>0, <1>2, <1>3, <2>1, <3>1
    <3>4. DOMAIN opt' = Keys
      BY <1>0, <3>1
    <3> QED BY <1>0, <1>1, <2>1, <3>1, <3>2, <3>3, <3>4, WordStep
  <2> QED BY <2>2, <2>3
<1>5. CASE ParseConfig
  <2>1. argv[i] = << "--config" >> /\ config_file' = OperandOf(i) /\ i' = i + 2
        /\ UNCHANGED <<opt, phase>>
    BY <1>2, <1>5 DEF ParseConfig, AtWord
  <2>2. i' = After(i) /\ ~ BadWord(i) /\ argv[i] # << "--help" >> /\ argv[i] \notin ValueOptions
    BY <2>1, OptionWords DEF After, BadWord
  <2>3. DOMAIN opt' = Keys
        /\ \A x \in Keys : opt'[x] = IF i \in WordsFor(x) THEN Parsed(x, OperandOf(i)) ELSE opt[x]
    BY <1>0, <1>3, <2>1, <2>2
  <2> QED BY <1>0, <1>1, <2>1, <2>2, <2>3, WordStep
<1>6. CASE ParseQuiet
  <2>1. argv[i] = << "--quiet" >> /\ i' = i + 1 /\ UNCHANGED <<opt, phase, config_file>>
    BY <1>6 DEF ParseQuiet, AtWord
  <2>2. /\ i' = After(i) /\ ~ BadWord(i) /\ argv[i] # << "--help" >>
        /\ argv[i] \notin ValueOptions /\ argv[i] # << "--config" >>
    BY <2>1, OptionWords DEF After, BadWord, TakesValue
  <2>3. DOMAIN opt' = Keys
        /\ \A x \in Keys : opt'[x] = IF i \in WordsFor(x) THEN Parsed(x, OperandOf(i)) ELSE opt[x]
    BY <1>0, <1>3, <2>1, <2>2
  <2> QED BY <1>0, <1>1, <2>1, <2>2, <2>3, WordStep
<1>7. CASE ParseLast
  <2>1. /\ phase' = "exit" /\ UNCHANGED <<i, opt, config_file>>
        /\ status' = 0 => argv[i] = << "--help" >>
    BY <1>7 DEF ParseLast, Exit
  <2> QED BY <1>0, <1>1, <2>1, ExitKeeps
<1> QED BY <1>4, <1>5, <1>6, <1>7

-----------------------------------------------------------------------------
\* Nothing the command line said is lost when main goes on to another stage.
LEMMA LaterStage ==
  ASSUME ConfigInv, phase # "exit", phase = "args" => i > Len(argv),
         UNCHANGED <<argv, file, i, config_file>>,
         phase' \in {"load", "merge", "build", "up"},
         DOMAIN opt' = Keys, phase' \in {"load", "merge"} => phase # "build" /\ phase # "up"
                                                            /\ opt' = opt
  PROVE  AtStart' /\ AsSaid'
<1>1. /\ Starts' = Starts /\ ConfigWords' = ConfigWords
      /\ \A n : OperandOf(n)' = OperandOf(n) /\ After(n)' = After(n)
      /\ \A n : BadWord(n)' <=> BadWord(n)
      /\ \A k : WordsFor(k)' = WordsFor(k)
  BY ReferenceKept
<1>2. i > Len(argv)
  BY DEF ConfigInv, AtStart
<1>3. AtStart'
  BY <1>1, <1>2 DEF ConfigInv, AtStart
<1>4. Named(Below(ConfigWords, i))' = Named(Below(ConfigWords, i))
  BY <1>1 DEF Named
<1>5. \A k : Said(k, Below(WordsFor(k), i))' = Said(k, Below(WordsFor(k), i))
  BY <1>1 DEF Said
<1>6. phase \in {"args", "load", "merge", "build", "up"}
  BY DEF ConfigInv, AtStart
<1>7. AsSaid'
  BY <1>4, <1>5, <1>6 DEF ConfigInv, AsSaid
<1> QED BY <1>3, <1>7

\* The lines are numbered from 1.
LEMMA LineNumbers ==
  ASSUME AtStart, file # NoFile
  PROVE  /\ Len(file) \in Nat /\ DOMAIN file = 1 .. Len(file)
         /\ \A k : LinesFor(k) \subseteq 1 .. Len(file)
         /\ \A k : LinesFor(k) \in SUBSET Nat
<1>1. Len(file) \in Nat /\ DOMAIN file = 1 .. Len(file)
  BY Inputs DEF AtStart
<1> QED BY <1>1 DEF LinesFor

\* The end of the command line: on to the file, or straight to the transport.
LEMMA EndOfArgsStep ==
  ASSUME ConfigInv, EndOfArgs
  PROVE  ConfigInv'
<1>0. /\ AtStart /\ AsSaid /\ AsRead /\ phase = "args" /\ i > Len(argv)
      /\ UNCHANGED <<argv, file, i, opt, config_file, lineno, kv>> /\ DOMAIN opt = Keys
      /\ phase' = IF config_file = Empty THEN "build" ELSE "load"
  BY DEF ConfigInv, EndOfArgs, AsSaid
<1>1. AtStart' /\ AsSaid'
  BY <1>0, LaterStage
<1>2. /\ FileUsed <=> config_file # Empty
      /\ \A k \in Keys : opt[k] = OnCommandLine(k)
  BY <1>0, AllSaid DEF AsSaid
<1>3. lineno = 0 /\ DOMAIN kv = {}
  BY <1>0 DEF AsRead
<1>4. CASE config_file = Empty
  <2>1. ~ FileUsed /\ phase' = "build"
    BY <1>0, <1>2, <1>4
  <2>2. \A k : InFile(k) = Default[k]
    BY <2>1 DEF InFile
  <2>3. \A k \in Keys : opt[k] = Setting(k)
    BY <1>2, <2>1, <2>2 DEF Setting
  <2>4. (FileUsed' <=> FileUsed) /\ \A k : Setting(k)' = Setting(k)
    BY <1>0, ReferenceKept
  <2>5. AsMerged'
    BY <1>0, <2>1, <2>3, <2>4 DEF AsMerged
  <2>6. AsRead'
    BY <1>0, <1>3, <2>1 DEF AsRead
  <2> QED BY <1>1, <2>5, <2>6 DEF ConfigInv
<1>5. CASE config_file # Empty
  <2>1. phase' = "load"
    BY <1>0, <1>5
  <2>2. ASSUME file # NoFile PROVE Len(file) \in Nat /\ \A k : UpTo(LinesFor(k), 0) = {}
    BY <1>0, <2>2, LineNumbers DEF UpTo
  <2>3. \A k : LinesFor(k)' = LinesFor(k)
    BY <1>0, ReferenceKept
  <2>4. ASSUME file # NoFile PROVE \A k : k \in DOMAIN kv' <=> UpTo(LinesFor(k), lineno)' # {}
    BY <1>0, <1>3, <2>2, <2>3, <2>4
  <2>5. AsRead'
    BY <1>0, <1>3, <1>5, <2>1, <2>2, <2>4 DEF AsRead
  <2>6. AsMerged'
    BY <2>1 DEF AsMerged
  <2> QED BY <1>1, <2>5, <2>6 DEF ConfigInv
<1> QED BY <1>4, <1>5

\* One line further, the lines read are one more.
LEMMA OneLineMore ==
  ASSUME NEW L \in SUBSET Nat, NEW b \in Nat
  PROVE  /\ b + 1 \in L => UpTo(L, b + 1) # {} /\ Max(UpTo(L, b + 1)) = b + 1
         /\ b + 1 \notin L => UpTo(L, b + 1) = UpTo(L, b)
<1> DEFINE c == b + 1
<1>1. c \in Nat /\ \A n \in L : n \in Nat /\ (n <= c <=> n <= b \/ n = c) /\ (n <= b => n < c)
  OBVIOUS
<1> HIDE DEF c
<1>2. UpTo(L, b) \in SUBSET Nat /\ \A n \in UpTo(L, b) : n < c
  BY <1>1, Zenon DEF UpTo
<1>3. c \in L => UpTo(L, c) = UpTo(L, b) \cup {c}
  BY <1>1, Zenon DEF UpTo
<1>4. c \notin L => UpTo(L, c) = UpTo(L, b)
  BY <1>1, Zenon DEF UpTo
<1>5. Max(UpTo(L, b) \cup {c}) = c
  BY <1>1, <1>2, MaxOfNext, Zenon
<1> QED BY <1>3, <1>4, <1>5, Zenon DEF c

\* Config::load reads a line.
LEMMA LineStep ==
  ASSUME ConfigInv, LoadBlank \/ LoadPair
  PROVE  ConfigInv'
<1> DEFINE n == lineno + 1
           l == file[n]
<1>0. /\ AtStart /\ AsSaid /\ AsRead /\ phase = "load" /\ file # NoFile /\ lineno < Len(file)
      /\ UNCHANGED <<argv, file, phase, i, opt, config_file>> /\ lineno' = n
      /\ DOMAIN opt = Keys
      /\ \/ l.kind = "blank" /\ kv' = kv
         \/ /\ l.kind = "pair"
            /\ kv' = [k \in DOMAIN kv \cup {l.key} |-> IF k = l.key THEN Trimmed(l.value)
                                                      ELSE kv[k]]
  BY DEF ConfigInv, AsSaid, LoadBlank, LoadPair, AtLine, Trimmed
<1>1. /\ lineno \in Nat /\ config_file # Empty
      /\ \A m \in 1 .. lineno : file[m].kind # "bad"
      /\ \A k : k \in DOMAIN kv <=> UpTo(LinesFor(k), lineno) # {}
      /\ \A k \in DOMAIN kv : kv[k] = Trimmed(file[Max(UpTo(LinesFor(k), lineno))].value)
  BY <1>0 DEF AsRead
<1>2. /\ Len(file) \in Nat /\ DOMAIN file = 1 .. Len(file)
      /\ \A k : LinesFor(k) \in SUBSET Nat
  BY <1>0, LineNumbers
<1>3. n \in DOMAIN file /\ n \in Nat /\ n <= Len(file)
  BY <1>0, <1>1, <1>2
<1>4. \A k : n \in LinesFor(k) <=> l.kind = "pair" /\ l.key = k
  BY <1>3 DEF LinesFor
<1>5. \A k : /\ n \in LinesFor(k) => /\ UpTo(LinesFor(k), n) # {}
                                     /\ Max(UpTo(LinesFor(k), n)) = n
             /\ n \notin LinesFor(k) => UpTo(LinesFor(k), n) = UpTo(LinesFor(k), lineno)
  BY <1>1, <1>2, OneLineMore
<1>6. \A m \in 1 .. n : file[m].kind # "bad"
  <2>1. \A m \in 1 .. n : m \in 1 .. lineno \/ m = n
    BY <1>1
  <2> QED BY <1>0, <1>1, <2>1
<1>7. /\ \A k : k \in DOMAIN kv' <=> UpTo(LinesFor(k), n) # {}
      /\ \A k \in DOMAIN kv' : kv'[k] = Trimmed(file[Max(UpTo(LinesFor(k), n))].value)
  <2> HIDE DEF n
  <2>1. CASE l.kind = "blank" /\ kv' = kv
    <3>1. \A k : UpTo(LinesFor(k), n) = UpTo(LinesFor(k), lineno)
      BY <1>4, <1>5, <2>1
    <3> QED BY <1>1, <2>1, <3>1
  <2>2. CASE /\ l.kind = "pair"
             /\ kv' = [k \in DOMAIN kv \cup {l.key} |-> IF k = l.key THEN Trimmed(l.value)
                                                        ELSE kv[k]]
    <3>1. DOMAIN kv' = DOMAIN kv \cup {l.key}
      BY <2>2
    <3>2. ASSUME NEW k PROVE k \in DOMAIN kv' <=> UpTo(LinesFor(k), n) # {}
      <4>1. CASE k = l.key
        BY <1>4, <1>5, <2>2, <3>1, <4>1
      <4>2. CASE k # l.key
        BY <1>1, <1>4, <1>5, <3>1, <4>2
      <4> QED BY <4>1, <4>2
    <3>3. ASSUME NEW k \in DOMAIN kv'
          PROVE  kv'[k] = Trimmed(file[Max(UpTo(LinesFor(k), n))].value)
      <4>1. CASE k = l.key
        <5>1. kv'[k] = Trimmed(l.value)
          BY <2>2, <3>1, <4>1
        <5>2. Max(UpTo(LinesFor(k), n)) = n
          BY <1>4, <1>5, <2>2, <4>1
        <5> QED BY <5>1, <5>2
      <4>2. CASE k # l.key
        <5>1. kv'[k] = kv[k] /\ k \in DOMAIN kv
          BY <2>2, <3>1, <4>2
        <5>2. UpTo(LinesFor(k), n) = UpTo(LinesFor(k), lineno)
          BY <1>4, <1>5, <4>2
        <5> QED BY <1>1, <5>1, <5>2
      <4> QED BY <4>1, <4>2
    <3> QED BY <3>2, <3>3
  <2> QED BY <1>0, <2>1, <2>2
<1> HIDE DEF n
<1>8. AtStart' /\ AsSaid'
  BY <1>0, LaterStage
<1>9. \A k : UpTo(LinesFor(k), lineno)' = UpTo(LinesFor(k), n)
  BY <1>0, ReferenceKept
<1>10. AsRead'
  <2>1. phase' = "load" /\ lineno' \in Nat /\ config_file' # Empty /\ file' # NoFile
        /\ lineno' <= Len(file')
    BY <1>0, <1>1, <1>3
  <2>2. \A m \in 1 .. lineno' : file'[m].kind # "bad"
    BY <1>0, <1>6
  <2>3. \A k : k \in DOMAIN kv' <=> UpTo(LinesFor(k), lineno)' # {}
    BY <1>7, <1>9
  <2>4. \A k \in DOMAIN kv' : kv'[k] = Trimmed(file'[Max(UpTo(LinesFor(k), lineno)')].value)
    BY <1>0, <1>7, <1>9
  <2> QED BY <2>1, <2>2, <2>3, <2>4 DEF AsRead
<1>11. AsMerged'
  BY <1>0 DEF AsMerged
<1> QED BY <1>8, <1>10, <1>11 DEF ConfigInv

\* It has come to the end of the file.
LEMMA EndOfFileStep ==
  ASSUME ConfigInv, EndOfFile
  PROVE  ConfigInv'
<1>0. /\ AtStart /\ AsSaid /\ AsRead /\ phase = "load" /\ file # NoFile /\ lineno = Len(file)
      /\ UNCHANGED <<argv, file, i, opt, config_file, lineno, kv>> /\ phase' = "merge"
      /\ DOMAIN opt = Keys
  BY DEF ConfigInv, AsSaid, EndOfFile
<1>1. AtStart' /\ AsSaid'
  BY <1>0, LaterStage
<1>2. \A k : UpTo(LinesFor(k), lineno)' = UpTo(LinesFor(k), lineno)
  BY <1>0, ReferenceKept
<1>3. AsRead'
  BY <1>0, <1>2 DEF AsRead
<1>4. AsMerged'
  BY <1>0 DEF AsMerged
<1> QED BY <1>1, <1>3, <1>4 DEF ConfigInv

\* The command line and the file are merged.
LEMMA MergeStep ==
  ASSUME ConfigInv, Merge
  PROVE  ConfigInv'
<1>0. /\ AtStart /\ AsSaid /\ AsRead /\ phase = "merge"
      /\ UNCHANGED <<argv, file, i, config_file, lineno, kv>> /\ phase' = "build"
      /\ opt' = [k \in Keys |-> IF k = "units" THEN UnitsFromFile
                                ELSE IF opt[k] = Default[k] THEN FromFile(k) ELSE opt[k]]
  BY DEF ConfigInv, Merge
<1>1. AtStart' /\ AsSaid'
  BY <1>0, LaterStage
<1>2. AsRead'
  BY <1>0 DEF AsRead
<1>3. i > Len(argv) /\ \A k \in Keys : opt[k] = Said(k, Below(WordsFor(k), i))
  BY <1>0 DEF AtStart, AsSaid
<1>4. FileUsed /\ \A k \in Keys : opt[k] = OnCommandLine(k)
  <2>1. config_file # Empty
    BY <1>0 DEF AsRead
  <2> QED BY <1>0, <1>3, <2>1, AllSaid DEF AsSaid
<1>5. /\ file # NoFile /\ lineno = Len(file)
      /\ \A m \in 1 .. lineno : file[m].kind # "bad"
      /\ \A k : k \in DOMAIN kv <=> UpTo(LinesFor(k), lineno) # {}
      /\ \A k \in DOMAIN kv : kv[k] = Trimmed(file[Max(UpTo(LinesFor(k), lineno))].value)
  BY <1>0 DEF AsRead
<1>6. ~ BadFile
  BY <1>0, <1>5, LineNumbers DEF BadFile
<1>7. \A k : UpTo(LinesFor(k), lineno) = LinesFor(k)
  BY <1>0, <1>5, LineNumbers DEF UpTo
<1>8. \A k : InFile(k) = IF k \in DOMAIN kv THEN Read(k, kv[k]) ELSE Default[k]
  <2> SUFFICES ASSUME NEW k
               PROVE  InFile(k) = IF k \in DOMAIN kv THEN Read(k, kv[k]) ELSE Default[k]
    OBVIOUS
  <2>1. k \in DOMAIN kv <=> LinesFor(k) # {}
    BY <1>5, <1>7
  <2>2. k \in DOMAIN kv => kv[k] = Trimmed(file[Max(LinesFor(k))].value)
    BY <1>5, <1>7
  <2> QED BY <1>4, <2>1, <2>2, Zenon DEF InFile, Trimmed
<1>9. \A t : Read("units", t) = units(t)
  BY DEF Read, Rates
<1>10. ASSUME NEW k \in Keys PROVE opt'[k] = Setting(k)
  <2>1. k \in DOMAIN kv <=> LinesFor(k) # {}
    BY <1>5, <1>7
  <2>2. CASE k = "units"
    <3>1. opt'[k] = UnitsFromFile
      BY <1>0, <2>2
    <3>2. "units" \in DOMAIN kv => InFile("units") = units(kv["units"])
      BY <1>8, <1>9
    <3> QED BY <1>4, <2>1, <2>2, <3>1, <3>2, Zenon DEF UnitsFromFile, Setting
  <2>3. CASE k # "units"
    <3>1. opt'[k] = IF opt[k] = Default[k] THEN FromFile(k) ELSE opt[k]
      BY <1>0, <2>3
    <3>2. FromFile(k) = InFile(k)
      BY <1>8 DEF FromFile
    <3> QED BY <1>4, <2>3, <3>1, <3>2, Zenon DEF Setting
  <2> QED BY <2>2, <2>3
<1>11. AsMerged'
  <2>1. (BadFile' <=> BadFile) /\ \A k : Setting(k)' = Setting(k)
    BY <1>0, ReferenceKept
  <2> QED BY <1>6, <1>10, <2>1 DEF AsMerged
<1> QED BY <1>1, <1>2, <1>11 DEF ConfigInv

\* The transport is built.
LEMMA BuildStep ==
  ASSUME ConfigInv, Build
  PROVE  ConfigInv'
<1>0. /\ AtStart /\ AsSaid /\ AsRead /\ AsMerged /\ phase = "build" /\ phase' = "up"
      /\ UNCHANGED <<argv, file, i, opt, config_file, lineno, kv>> /\ DOMAIN opt = Keys
  BY DEF ConfigInv, AsSaid, Build
<1>1. AtStart' /\ AsSaid'
  BY <1>0, LaterStage
<1>2. AsRead'
  BY <1>0 DEF AsRead
<1>3. AsMerged'
  <2>1. (FileUsed' <=> FileUsed) /\ (BadFile' <=> BadFile) /\ \A k : Setting(k)' = Setting(k)
    BY <1>0, ReferenceKept
  <2> QED BY <1>0, <2>1 DEF AsMerged
<1> QED BY <1>1, <1>2, <1>3 DEF ConfigInv

-----------------------------------------------------------------------------
\* main starts.
LEMMA ConfigInit == Init => ConfigInv
<1> SUFFICES ASSUME Init PROVE ConfigInv
  OBVIOUS
<1>0. /\ argv \in Argvs /\ file \in Files /\ phase = "args" /\ i = 1 /\ opt = Default
      /\ config_file = Empty /\ lineno = 0 /\ kv = << >>
  BY DEF Init
<1>1. Starts \subseteq DOMAIN argv /\ DOMAIN argv = 1 .. Len(argv) /\ Len(argv) \in Nat
      /\ \A n \in DOMAIN argv : n \in Starts <=> From(Starts, n)
  BY <1>0, Inputs, StartsUnfolded
<1>2. \A n \in Starts : ~ (n < i)
  BY <1>0, <1>1
<1>3. AtStart
  <2>1. i \in DOMAIN argv => i \in Starts
    BY <1>0, <1>1 DEF From
  <2> QED BY <1>0, <1>2, <2>1 DEF AtStart
<1>4. Below(ConfigWords, i) = {} /\ \A k : Below(WordsFor(k), i) = {}
  BY <1>2 DEF Below, ConfigWords, WordsFor
<1>5. AsSaid
  BY <1>0, <1>4 DEF AsSaid, Named, Said, Keys
<1>6. AsRead /\ AsMerged
  BY <1>0 DEF AsRead, AsMerged
<1> QED BY <1>3, <1>5, <1>6 DEF ConfigInv

\* The invariant is inductive.
LEMMA ConfigStep == ConfigInv /\ [Next]_vars => ConfigInv'
<1> SUFFICES ASSUME ConfigInv, [Next]_vars PROVE ConfigInv'
  OBVIOUS
<1>1. CASE ParseValue \/ ParseConfig \/ ParseQuiet \/ ParseLast
  BY <1>1, ArgsStep
<1>2. CASE EndOfArgs
  BY <1>2, EndOfArgsStep
<1>3. CASE CannotOpen \/ LoadBad
  <2>1. lineno \in Nat
    BY DEF ConfigInv, AsRead
  <2>2. /\ UNCHANGED <<argv, file, i, opt, config_file>> /\ lineno' \in Nat
        /\ phase' = "exit" /\ status' # 0
    BY <1>3, <2>1 DEF CannotOpen, LoadBad, AtLine, Exit
  <2> QED BY <2>2, ExitKeeps
<1>4. CASE LoadBlank \/ LoadPair
  BY <1>4, LineStep
<1>5. CASE EndOfFile
  BY <1>5, EndOfFileStep
<1>6. CASE Merge
  BY <1>6, MergeStep
<1>7. CASE Build
  BY <1>7, BuildStep
<1>8. CASE UNCHANGED vars
  <2>1. UNCHANGED <<argv, file, phase, i, opt, config_file, lineno, kv, transport, status>>
    BY <1>8 DEF vars
  <2>2. /\ Starts' = Starts /\ ConfigWords' = ConfigWords
        /\ \A n : OperandOf(n)' = OperandOf(n) /\ After(n)' = After(n)
        /\ \A n : BadWord(n)' <=> BadWord(n)
        /\ \A k : WordsFor(k)' = WordsFor(k) /\ LinesFor(k)' = LinesFor(k)
        /\ (FileUsed' <=> FileUsed) /\ (BadFile' <=> BadFile)
        /\ \A k : Setting(k)' = Setting(k)
    BY <2>1, ReferenceKept
  <2>3. AtStart'
    BY <2>1, <2>2 DEF ConfigInv, AtStart
  <2>4. AsSaid'
    BY <2>1, <2>2 DEF ConfigInv, AsSaid, Named, Said
  <2>5. AsRead'
    BY <2>1, <2>2 DEF ConfigInv, AsRead
  <2>6. AsMerged'
    BY <2>1, <2>2 DEF ConfigInv, AsMerged
  <2> QED BY <2>3, <2>4, <2>5, <2>6 DEF ConfigInv
<1> QED BY <1>1, <1>2, <1>3, <1>4, <1>5, <1>6, <1>7, <1>8 DEF Next

\* Hence it holds throughout.
LEMMA ConfigInvariant == Spec => []ConfigInv
  BY ConfigInit, ConfigStep, PTL DEF Spec

(***************************************************************************)
(* main.cpp:184-206, for every command line and every file: the gateway    *)
(* starts with the last value the command line gives a setting if that is  *)
(* not the default, with the last of the file otherwise; of units, with    *)
(* the list of the file if there is one.                                   *)
(***************************************************************************)
THEOREM AlwaysStartsAsConfigured == Spec => []StartsAsConfigured
<1>1. ConfigInv => StartsAsConfigured
  BY DEF ConfigInv, AsMerged, StartsAsConfigured, Setting
<1> QED BY <1>1, ConfigInvariant, PTL

(***************************************************************************)
(* main.cpp:181, 191 and config.hpp:27, 39, for every command line and     *)
(* every file: no gateway starts on an option, a number, a file or a line  *)
(* it cannot read, and status 0 means that --help was met before a bad     *)
(* word.                                                                   *)
(***************************************************************************)
THEOREM BadInputStops == Spec => []BadInputNeverStarts
<1>1. ConfigInv => BadInputNeverStarts
  <2> SUFFICES ASSUME ConfigInv PROVE BadInputNeverStarts
    OBVIOUS
  <2>1. phase = "up" => \A n \in Starts : ~ BadWord(n)
    <3>1. AtStart
      BY DEF ConfigInv
    <3>2. phase = "up" => \A n \in Starts : n < i
      BY <3>1, StartNumbers DEF AtStart
    <3> QED BY <3>1, <3>2 DEF AtStart
  <2>2. phase = "up" => ~ (FileUsed /\ BadFile)
    BY DEF ConfigInv, AsMerged
  <2>3. phase = "exit" /\ status = 0 =>
          \E h \in Starts : argv[h] = << "--help" >> /\ \A n \in Starts : n < h => ~ BadWord(n)
    BY DEF ConfigInv, AtStart
  <2> QED BY <2>1, <2>2, <2>3, Zenon DEF BadInputNeverStarts, BadWord, BadFile
<1> QED BY <1>1, ConfigInvariant, PTL


=============================================================================
