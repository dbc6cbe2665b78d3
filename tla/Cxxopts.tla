------------------------------ MODULE Cxxopts ------------------------------
(***************************************************************************)
(* cxxopts.hpp as the two programs use it: the loop over the arguments,    *)
(* the values options get, and the parser of integers, one digit a step.   *)
(*                                                                         *)
(* An argument is given as option_matcher sees it: its form, the options   *)
(* it names (a letter each in a short one), the text after its "=", and    *)
(* its own text, for when it is taken as the value of the option before.   *)
(* A text is its word and, if it looks like an integer, its sign, base and *)
(* digits; a letter is a digit of 10 or more.                              *)
(***************************************************************************)
EXTENDS Integers, Sequences, FiniteSets

CONSTANTS
  Programs,
  OptionsOf,       \* of a program: [short, long, type, default]
  CommandLines,    \* of the programs: what may be typed
  MaxInt           \* the largest int

ASSUME MaxIntAssumption == MaxInt \in Nat /\ MaxInt >= 32767   \* the least of C++

Texts == [word : STRING, negative : BOOLEAN, base : {10, 16}, digits : Seq(Nat)]
Arguments == [form : {"long", "short", "word", "separator", "malformed"},
              names : Seq(STRING), equals : Seq(Texts), text : Texts]
ASSUME CommandLinesAssumption == CommandLines \subseteq [Programs -> Seq(Arguments)]

VARIABLES
  pc,              \* where a program is
  argv,            \* its arguments, without its own name
  current,         \* the argument at hand
  letter,          \* the option of this argument at hand
  values,          \* what an option has: <<>> or its value
  given,           \* the options given so far, with their texts
  number,          \* the integer that is read
  status           \* the exit status, or Running

parseVars == <<pc, argv, current, letter, values, given, number, status>>

Running == 256
NoNumber == [option |-> "", text |-> <<>>, k |-> 0, result |-> 0, written |-> 0]
Options(p) == {o.long : o \in OptionsOf[p]}

ParseInit ==
  /\ pc = [p \in Programs |-> "parse"]
  /\ argv \in CommandLines
  /\ current = [p \in Programs |-> 1] /\ letter = [p \in Programs |-> 1]
  /\ values = [p \in Programs |-> [option \in Options(p) |-> <<>>]]
  /\ given = [p \in Programs |-> <<>>]
  /\ number = [p \in Programs |-> NoNumber]
  /\ status = [p \in Programs |-> Running]

Goto(p, label) == pc' = [pc EXCEPT ![p] = label]

(* An exception, which main catches.                                       *)
Throw(p) ==
  /\ Goto(p, "exit")
  /\ status' = [status EXCEPT ![p] = 1]
  /\ UNCHANGED <<argv, current, letter, values, given, number>>

------------------------------------------------------------------------------
(* The values.                                                             *)

Truthy == {"t", "T", "true", "True", "1"}
Falsy  == {"f", "F", "false", "False", "0"}

OptionNamed(p, option) == CHOOSE o \in OptionsOf[p] : o.long = option
IsInteger(o) == o.type \in {"uint16_t", "int"}
IsSigned(o)  == o.type = "int"
Modulus(o)   == IF o.type = "int" THEN 2 * (MaxInt + 1) ELSE 65536

HasImplicit(o) == o.type = "bool"
ImplicitText == [word |-> "true", negative |-> FALSE, base |-> 10, digits |-> <<>>]

(* Whether the parser of the option's type throws before any digit.        *)
Unreadable(o, text) ==
  CASE o.type = "bool"   -> text.word \notin Truthy \cup Falsy
    [] o.type = "string" -> FALSE
    [] IsInteger(o)      -> text.digits = <<>>

ValueOf(o, text) == IF o.type = "bool" THEN text.word \in Truthy ELSE text

(* Bug: an option that has a value keeps it.                               *)
StoreFirst(p, o, value) ==
  values' = [values EXCEPT ![p][o.long] = IF @ = <<>> THEN <<value>> ELSE @]

Store(p, o, value) == values' = [values EXCEPT ![p][o.long] = <<value>>]

(* parse_option: the last text given for an option wins.                   *)
ParseOption(p, o, text) ==
  /\ given' = [given EXCEPT ![p] = Append(@, [option |-> o.long, text |-> text])]
  /\ IF IsInteger(o)
       THEN /\ Goto(p, "number")
            /\ number' = [number EXCEPT ![p] = [option |-> o.long, text |-> text,
                                                k |-> 0, result |-> 0, written |-> 0]]
            /\ UNCHANGED values
       ELSE Store(p, o, ValueOf(o, text)) /\ UNCHANGED <<pc, number>>

------------------------------------------------------------------------------
(* integer_parser.                                                         *)

NumberOption(p) == OptionNamed(p, number[p].option)
Digit(p) == number[p].text.digits[number[p].k + 1]
NextResult(p) ==
  (number[p].result * number[p].text.base + Digit(p)) % Modulus(NumberOption(p))
(* Bug: a digit that leaves the result as it is counts as an overflow.     *)
OverflowsEqual(p) == number[p].result >= NextResult(p)

Overflows(p) == number[p].result > NextResult(p)

AtDigit(p) == pc[p] = "number" /\ number[p].k < Len(number[p].text.digits)
BadDigit(p) == Digit(p) >= number[p].text.base \/ Overflows(p)

TakeDigit(p) ==
  /\ AtDigit(p) /\ ~BadDigit(p)
  /\ number' = [number EXCEPT ![p].k = @ + 1, ![p].result = NextResult(p),
                              ![p].written = @ * number[p].text.base + Digit(p)]
  /\ UNCHANGED <<pc, argv, current, letter, values, given, status>>

RefuseDigit(p) == AtDigit(p) /\ BadDigit(p) /\ Throw(p)

AtEndOfNumber(p) == pc[p] = "number" /\ number[p].k = Len(number[p].text.digits)

(* Bug: the largest int is taken to be as large as the smallest.           *)
OutOfRangeSymmetric(p) ==
  IF IsSigned(NumberOption(p))
    THEN number[p].result > Modulus(NumberOption(p)) \div 2
    ELSE number[p].text.negative

(* check_signed_range and checked_negate.                                  *)
OutOfRange(p) ==
  LET half == Modulus(NumberOption(p)) \div 2
  IN  IF IsSigned(NumberOption(p))
        THEN number[p].result > (IF number[p].text.negative THEN half ELSE half - 1)
        ELSE number[p].text.negative

Signed(text, n) == IF text.negative THEN -n ELSE n

FinishNumber(p) ==
  /\ AtEndOfNumber(p) /\ ~OutOfRange(p)
  /\ Store(p, NumberOption(p), Signed(number[p].text, number[p].result))
  /\ Goto(p, "parse")
  /\ UNCHANGED <<argv, current, letter, given, number, status>>

RefuseNumber(p) == AtEndOfNumber(p) /\ OutOfRange(p) /\ Throw(p)

------------------------------------------------------------------------------
(* OptionParser::parse.                                                    *)

AtArgument(p) == pc[p] = "parse" /\ current[p] <= Len(argv[p])
Argument(p) == argv[p][current[p]]
AtOption(p) == AtArgument(p) /\ Argument(p).form \in {"long", "short"}

Word(p) ==                    \* neither program has positional arguments
  /\ AtArgument(p) /\ Argument(p).form = "word"
  /\ current' = [current EXCEPT ![p] = @ + 1]
  /\ UNCHANGED <<pc, argv, letter, values, given, number, status>>

Malformed(p) == AtArgument(p) /\ Argument(p).form = "malformed" /\ Throw(p)

OptionName(p) == Argument(p).names[letter[p]]
Matching(p) == {o \in OptionsOf[p] : OptionName(p) \in {o.short, o.long}}
Details(p) == CHOOSE o \in Matching(p) : TRUE
IsLastLetter(p) == letter[p] = Len(Argument(p).names)

(* checked_parse_arg takes the next argument whatever it looks like.       *)
TakesNext(p) == ~HasImplicit(Details(p)) /\ Argument(p).equals = <<>>
LacksArgument(p) == TakesNext(p) /\ (~IsLastLetter(p) \/ current[p] = Len(argv[p]))
TextFor(p) ==
  IF Argument(p).equals # <<>> THEN Argument(p).equals[1]
  ELSE IF HasImplicit(Details(p)) THEN ImplicitText
  ELSE argv[p][current[p] + 1].text

Acceptable(p) ==
  Matching(p) # {} /\ ~LacksArgument(p) /\ ~Unreadable(Details(p), TextFor(p))

RefuseOption(p) == AtOption(p) /\ ~Acceptable(p) /\ Throw(p)

TakeOption(p) ==
  /\ AtOption(p) /\ Acceptable(p)
  /\ ParseOption(p, Details(p), TextFor(p))
  /\ IF IsLastLetter(p)
       THEN /\ current' = [current EXCEPT ![p] = @ + IF TakesNext(p) THEN 2 ELSE 1]
            /\ letter' = [letter EXCEPT ![p] = 1]
       ELSE /\ letter' = [letter EXCEPT ![p] = @ + 1]
            /\ UNCHANGED current
  /\ UNCHANGED <<argv, status>>

(* What follows "--" is left over.  Then an option that was not given gets *)
(* its default.                                                            *)
GivenAt(p, option) == {i \in DOMAIN given[p] : given[p][i].option = option}
Count(p, option) == Cardinality(GivenAt(p, option))

AtEndOfArguments(p) ==
  pc[p] = "parse" /\ ~(AtArgument(p) /\ Argument(p).form # "separator")

ParseDefaults(p) ==
  /\ AtEndOfArguments(p)
  /\ values' = [values EXCEPT ![p] =
       [option \in Options(p) |->
          IF Count(p, option) = 0 THEN OptionNamed(p, option).default ELSE @[option]]]
  /\ Goto(p, "parsed")
  /\ UNCHANGED <<argv, current, letter, given, number, status>>

Parse(p) ==
  \/ TakeDigit(p) \/ RefuseDigit(p) \/ FinishNumber(p) \/ RefuseNumber(p)
  \/ Word(p) \/ Malformed(p) \/ TakeOption(p) \/ RefuseOption(p) \/ ParseDefaults(p)

ParseNext == \E p \in Programs : Parse(p)

------------------------------------------------------------------------------
LastAt(p, option) == CHOOSE i \in GivenAt(p, option) : \A j \in GivenAt(p, option) : j <= i
LastText(p, option) == given[p][LastAt(p, option)].text

(* What a text says, digit by digit, and whether its option can hold that. *)
Written(text) ==
  LET upTo[k \in 0 .. Len(text.digits)] ==
        IF k = 0 THEN 0 ELSE upTo[k - 1] * text.base + text.digits[k]
  IN  Signed(text, upTo[Len(text.digits)])
Fits(o, text) ==
  LET low == IF IsSigned(o) THEN -(Modulus(o) \div 2) ELSE 0
  IN  /\ Written(text) \in low .. low + Modulus(o) - 1
      /\ text.negative => IsSigned(o)
      /\ \A k \in DOMAIN text.digits : text.digits[k] < text.base
Tells(o, value, text) ==
  IF IsInteger(o)
    THEN /\ (value - Written(text)) % Modulus(o) = 0
         /\ Fits(o, text) => value = Written(text)
    ELSE value = ValueOf(o, text)

(* When the arguments have been read, each option has what the last text   *)
(* given for it says, a number perhaps modulo its width, or its default.   *)
ValuesAsGiven ==
  \A p \in Programs : pc[p] \notin {"parse", "number", "exit"} =>
    \A o \in OptionsOf[p] :
      IF Count(p, o.long) = 0 THEN values[p][o.long] = o.default
        ELSE Tells(o, values[p][o.long][1], LastText(p, o.long))

(* The parser of integers: the result is what the digits so far say modulo *)
(* the width of the type, and no digit is refused for an overflow as long  *)
(* as they say less than that.  Beyond, one may or may not be: of 99999 a  *)
(* port of 16 bits gets 34463, and 70000 is refused.                       *)
NumbersRead ==
  \A p \in Programs : pc[p] = "number" =>
    LET n == number[p]
        modulus == Modulus(NumberOption(p))
    IN  /\ n.result = n.written % modulus
        /\ AtDigit(p) /\ n.written * n.text.base + Digit(p) < modulus => ~Overflows(p)
==============================================================================
