------------------------------- MODULE Config -------------------------------
(***************************************************************************)
(* The configuration file of src/echo_svr/config.cpp: read line by line    *)
(* into a dictionary, from which src/echo_svr/server_config.cpp takes the  *)
(* settings of the server.  A character is a model value or a digit; a tab *)
(* is a blank as any other, and carriage returns are left out.             *)
(***************************************************************************)
EXTENDS Integers, Sequences, SequencesExt, FiniteSets, FiniteSetsExt, Functions

CONSTANTS
  Blank, NewLine, Hash, Minus,   (* the characters that mean something     *)
  Letter,                        (* those that do not                      *)
  MAX_LINE_SIZE,                 (* characters read as a line at most      *)
  Files,                         (* the files checked                      *)
  Default                        (* the default of each number the server  *)
                                 (* asks for, by name                      *)

Digit == 0 .. 9
Char == Digit \cup Letter \cup {Blank, NewLine, Hash, Minus}

ASSUME ConfigAssumption ==
  /\ MAX_LINE_SIZE \in Nat \ {0}
  /\ \A f \in Files : f \in Seq(Char)
  /\ \A name \in DOMAIN Default : Default[name] \in Int

VARIABLES
  file,      (* the file's characters                                      *)
  exists,    (* can it be opened                                           *)
  fp,        (* how much of it has been read                               *)
  dict,      (* dict_: the lines by their first words                      *)
  reading    (* has ServerConfig::Init not returned                        *)

confVars == <<file, exists, fp, dict, reading>>

-----------------------------------------------------------------------------
(* Strings *)

(* The first place from i on of a character in S, or one of none in S; one *)
(* past the end if there is none.                                          *)
FindFirst(s, i, S)    == Min({j \in i .. Len(s) : s[j] \in S} \cup {Len(s) + 1})
FindFirstNot(s, i, S) == Min({j \in i .. Len(s) : s[j] \notin S} \cup {Len(s) + 1})

StrTrim(s) ==
  LET sp == FindFirstNot(s, 1, {Blank, NewLine})
      ep == Max({sp - 1} \cup {j \in sp .. Len(s) : s[j] \notin {Blank, NewLine}})
  IN  SubSeq(s, sp, ep)

StrSplit(s) ==
  LET from[i \in 1 .. Len(s) + 1] ==
        LET sp == FindFirstNot(s, i, {Blank})
            np == FindFirst(s, sp, {Blank})
        IN  IF sp > Len(s) THEN << >>
            ELSE IF np > Len(s) THEN <<SubSeq(s, sp, Len(s))>>
            ELSE <<SubSeq(s, sp, np - 1)>> \o from[np]
  IN  from[1]

(* A sign, digits, and what follows is ignored; no digits are 0. *)
Atoi(s) ==
  LET neg == s # << >> /\ s[1] = Minus
      first == IF neg THEN 2 ELSE 1
      digits == SubSeq(s, first, FindFirstNot(s, first, Digit) - 1)
      val == FoldLeft(LAMBDA n, d : 10 * n + d, 0, digits)
  IN  IF neg THEN - val ELSE val

-----------------------------------------------------------------------------
(* CConfig *)

(* fgets: up to the end of the line, but no more than the buffer takes.    *)
Fgets(s) == SubSeq(s, 1, Min({FindFirst(s, 1, {NewLine}), MAX_LINE_SIZE, Len(s)}))

(* Fault: a later line replaces an earlier one. *)
InsertLast(d, line) ==
  LET words == StrSplit(line)
  IN  IF line = << >> \/ line[1] = Hash THEN d
      ELSE [w \in DOMAIN d \cup {words[1]} |-> IF w = words[1] THEN line ELSE d[w]]

(* Comments and empty lines are skipped, and so is a word that is there.   *)
Insert(d, line) ==
  LET words == StrSplit(line)
  IN  IF line = << >> \/ line[1] = Hash \/ words[1] \in DOMAIN d THEN d
      ELSE [w \in DOMAIN d \cup {words[1]} |-> IF w = words[1] THEN line ELSE d[w]]

Rest == SubSeq(file, fp + 1, Len(file))

ReadLine ==
  /\ reading /\ exists
  /\ fp < Len(file)
  /\ fp' = fp + Len(Fgets(Rest))
  /\ dict' = Insert(dict, StrTrim(Fgets(Rest)))
  /\ UNCHANGED <<file, exists, reading>>

(* The end of the file, or none: the server does not ask which it was.     *)
Loaded ==
  /\ reading
  /\ exists => fp = Len(file)
  /\ reading' = FALSE
  /\ UNCHANGED <<file, exists, fp, dict>>

(* GetString, and GetInt on top of it: the second word of the line, or     *)
(* else the default.  GetStringArray: all but the first.                   *)
GetString(name, default) ==
  LET words == IF name \in DOMAIN dict THEN StrSplit(dict[name]) ELSE << >>
  IN  IF Len(words) < 2 THEN default ELSE words[2]

GetInt(name) ==
  LET word == GetString(name, << >>)
  IN  IF word = << >> THEN Default[name] ELSE Atoi(word)

GetStringArray(name) ==
  IF name \in DOMAIN dict THEN Tail(StrSplit(dict[name])) ELSE << >>

GetIntArray(name) ==
  LET words == GetStringArray(name) IN [i \in DOMAIN words |-> Atoi(words[i])]

-----------------------------------------------------------------------------
ConfInit ==
  /\ file \in Files
  /\ exists \in BOOLEAN
  /\ fp = 0
  /\ dict = << >>
  /\ reading = TRUE

ConfNext == ReadLine \/ Loaded

ConfSpec == ConfInit /\ [][ConfNext]_confVars

-----------------------------------------------------------------------------
(* What a file means *)

(* The members of a set of numbers, the least first. *)
InOrder(S) ==
  [k \in 1 .. Cardinality(S) |-> CHOOSE i \in S : Cardinality({j \in S : j <= i}) = k]

(* Where the line begins that the i-th character of a file is on.          *)
LineStart(f, i) == Max({1} \cup {j + 1 : j \in {j \in 1 .. i - 1 : f[j] = NewLine}})

(* The pieces of a line are as long as the buffer takes, but for the last: *)
(* where they begin, the end of a line being a piece of its own when it    *)
(* does not fit in with the rest; and what they hold but that end.         *)
PieceStarts(f) ==
  {i \in DOMAIN f : \E k \in 0 .. Len(f) : i = LineStart(f, i) + k * MAX_LINE_SIZE}
Piece(f, i) == SubSeq(f, i, Min({FindFirst(f, i, {NewLine}) - 1, i + MAX_LINE_SIZE - 1}))

(* The words of a line: between blanks, in their order. *)
WordsOf(line) ==
  LET begins == InOrder({i \in DOMAIN line : /\ line[i] # Blank
                                             /\ i = 1 \/ line[i - 1] = Blank})
  IN  [k \in DOMAIN begins |->
         SubSeq(line, begins[k], FindFirst(line, begins[k], {Blank}) - 1)]

(* What a file says of a name: the words after it on the first line, or    *)
(* piece of one, that begins with it.                                      *)
Says(f, i, name) ==
  LET words == WordsOf(Piece(f, i))
  IN  words # << >> /\ words[1] = name /\ words[1][1] # Hash

Meaning(f, name) ==
  LET at == {i \in PieceStarts(f) : Says(f, i, name)}
  IN  IF at = {} THEN << >> ELSE Tail(WordsOf(Piece(f, Min(at))))

Means(f, name) ==
  LET words == Meaning(f, name)
  IN  /\ GetStringArray(name) = words
      /\ GetString(name, << >>) = (IF words = << >> THEN << >> ELSE words[1])
      /\ GetInt(name) = (IF words = << >> THEN Default[name] ELSE Atoi(words[1]))
      /\ GetIntArray(name) = [i \in DOMAIN words |-> Atoi(words[i])]

-----------------------------------------------------------------------------
(* Properties *)

ConfTypeOK ==
  /\ file \in Seq(Char) /\ exists \in BOOLEAN /\ reading \in BOOLEAN
  /\ fp \in 0 .. Len(file)
  /\ \A w \in DOMAIN dict : /\ Range(w) \subseteq Char \ {Blank, NewLine}
                            /\ dict[w] # << >> /\ StrSplit(dict[w])[1] = w

(* Every setting is what its first line says, or its default: blanks       *)
(* before, between and after the words make no difference, nor do comments *)
(* and empty lines, nor a last line without an end.  Only a line longer    *)
(* than MAX_LINE_SIZE is not one line, but as many as it has pieces of     *)
(* that length: the end of a long comment can be a setting.                *)
SettingsAreRead ==
  ~ reading => \A name \in DOMAIN Default : Means(IF exists THEN file ELSE << >>, name)

=============================================================================
