-------------------------- MODULE DdtpStartupProofs --------------------------
(***************************************************************************)
(* What holds of the start of the two programs for every command line, any *)
(* width of an int and any set of files and addresses.                     *)
(***************************************************************************)
EXTENDS DdtpStartup, FiniteSetTheorems, TLAPS

------------------------------------------------------------------------------
(* Arithmetic modulo the width of a type.                                  *)

(* A multiple of a number that is smaller than it is 0.                    *)
LEMMA SmallMultiple ==
  ASSUME NEW M \in Nat \ {0}, NEW e \in Int, -M < M * e, M * e < M
  PROVE  e = 0
<1>1. CASE e >= 1
  <2>1. M * e >= M BY <1>1
  <2> QED BY <2>1
<1>2. CASE e <= -1
  <2>1. M * e <= -M BY <1>2
  <2> QED BY <2>1
<1> QED BY <1>1, <1>2

(* Whole turns do not change a remainder.                                  *)
LEMMA ModShift ==
  ASSUME NEW M \in Nat \ {0}, NEW k \in Int, NEW x \in Int
  PROVE  (M * k + x) % M = x % M
<1> DEFINE y == M * k + x
<1> DEFINE e == (y \div M) - k - (x \div M)
<1>1. y \in Int OBVIOUS
<1>2. /\ x = M * (x \div M) + (x % M) /\ x % M \in 0 .. M - 1 /\ x \div M \in Int
      /\ y = M * (y \div M) + (y % M) /\ y % M \in 0 .. M - 1 /\ y \div M \in Int
  BY <1>1
<1>3. M * e = (x % M) - (y % M)
  BY <1>2
<1>4. e = 0
  BY <1>2, <1>3, SmallMultiple
<1> QED BY <1>2, <1>3, <1>4

(* A number may be reduced before it is multiplied and added to.           *)
LEMMA ModStep ==
  ASSUME NEW M \in Nat \ {0}, NEW w \in Nat, NEW b \in Nat, NEW d \in Nat
  PROVE  ((w % M) * b + d) % M = (w * b + d) % M
<1>1. w = M * (w \div M) + (w % M) /\ w % M \in Nat /\ w \div M \in Int
  OBVIOUS
<1>2. w * b = M * ((w \div M) * b) + (w % M) * b
  BY <1>1
<1>3. (w * b + d) = M * ((w \div M) * b) + ((w % M) * b + d)
  BY <1>2, <1>1
<1>4. (w \div M) * b \in Int /\ (w % M) * b + d \in Int
  BY <1>1
<1> QED BY <1>3, <1>4, ModShift
(* Every type of a number has a width.                                     *)
LEMMA ModulusPositive ==
  ASSUME NEW o
  PROVE  Modulus(o) \in Nat \ {0}
BY MaxIntAssumption DEF Modulus

------------------------------------------------------------------------------
(* The parser of integers.                                                 *)

Labels == {"parse", "number", "parsed", "create", "listening", "connect", "load",
           "reading", "exit"}
OptionNames == (UNION {Options(p) : p \in Programs}) \cup {""}
Numbers == [option : OptionNames, text : Texts \cup {<<>>}, k : Nat, result : Nat, written : Nat]

ArgumentsOK ==
  /\ argv \in [Programs -> Seq(Arguments)]
  /\ current \in [Programs -> Nat \ {0}]
  /\ letter \in [Programs -> Nat \ {0}]
  /\ pc \in [Programs -> Labels]
  /\ number \in [Programs -> Numbers]

NumberSoFar(p) ==
  /\ number[p].text \in Texts
  /\ number[p].k <= Len(number[p].text.digits)
  /\ number[p].result = number[p].written % Modulus(NumberOption(p))

NumberInv == ArgumentsOK /\ \A p \in Programs : pc[p] = "number" => NumberSoFar(p)

(* The text of an option that has no implicit one is of the command line.  *)
LEMMA TextForType ==
  ASSUME ArgumentsOK, NEW p \in Programs, AtOption(p), ~LacksArgument(p),
         ~HasImplicit(Details(p))
  PROVE  TextFor(p) \in Texts
<1>1. /\ argv[p] \in Seq(Arguments) /\ current[p] \in 1 .. Len(argv[p])
      /\ Argument(p) \in Arguments
  BY DEF AtOption, AtArgument, Argument, ArgumentsOK
<1>2. CASE Argument(p).equals # <<>>
  <2>1. Argument(p).equals \in Seq(Texts)
    BY <1>1 DEF Arguments
  <2>2. Argument(p).equals[1] \in Texts
    BY <2>1, <1>2
  <2> QED BY <2>2, <1>2 DEF TextFor
<1>3. CASE Argument(p).equals = <<>>
  <2>1. current[p] + 1 \in 1 .. Len(argv[p])
    BY <1>1, <1>3 DEF LacksArgument, TakesNext
  <2>2. argv[p][current[p] + 1] \in Arguments
    BY <1>1, <2>1
  <2>3. argv[p][current[p] + 1].text \in Texts
    BY <2>2 DEF Arguments
  <2> QED BY <2>3, <1>3 DEF TextFor
<1> QED BY <1>2, <1>3

(* What an update of a number leaves.                                      *)
Updated(n, k, r, w) == [n EXCEPT !.k = k, !.result = r, !.written = w]
LEMMA NumberUpdate ==
  ASSUME NEW n \in Numbers, NEW k \in Nat, NEW r \in Nat, NEW w \in Nat
  PROVE  /\ Updated(n, k, r, w) \in Numbers
         /\ Updated(n, k, r, w).text = n.text /\ Updated(n, k, r, w).option = n.option
         /\ Updated(n, k, r, w).k = k
         /\ Updated(n, k, r, w).result = r /\ Updated(n, k, r, w).written = w
BY DEF Numbers, Updated

(* At a digit, everything that is computed with is a number.               *)
LEMMA AtDigitTypes ==
  ASSUME NumberInv, NEW p \in Programs, AtDigit(p)
  PROVE  /\ number[p] \in Numbers /\ number[p].text \in Texts
         /\ number[p].k \in Nat /\ number[p].k < Len(number[p].text.digits)
         /\ number[p].written \in Nat /\ number[p].text.base \in {10, 16}
         /\ number[p].text.digits \in Seq(Nat) /\ Digit(p) \in Nat
<1> DEFINE n == number[p]
<1>1. n \in Numbers /\ n.text \in Texts /\ n.k < Len(n.text.digits)
  BY DEF AtDigit, NumberInv, NumberSoFar, ArgumentsOK
<1>2. n.text.digits \in Seq(Nat) /\ n.text.base \in {10, 16} /\ n.k \in Nat /\ n.written \in Nat
  BY <1>1 DEF Texts, Numbers
<1>3. Digit(p) \in Nat
  <2> DEFINE digits == n.text.digits
  <2> DEFINE k == n.k
  <2>1. digits \in Seq(Nat) /\ k \in Nat /\ k < Len(digits)
    BY <1>1, <1>2
  <2> HIDE DEF digits, k
  <2>2. digits[k + 1] \in Nat
    BY <2>1
  <2> QED BY <2>2 DEF Digit, digits, k
<1> QED BY <1>1, <1>2, <1>3

(* A digit takes the number one further.                                   *)
LEMMA TakeDigitKeeps ==
  ASSUME NumberInv, NEW p \in Programs, TakeDigit(p)
  PROVE  NumberInv'
<1> DEFINE n == number[p]
<1> DEFINE M == Modulus(NumberOption(p))
<1>1. /\ n \in Numbers /\ n.text \in Texts /\ n.k < Len(n.text.digits)
      /\ n.result = n.written % M /\ pc[p] = "number" /\ number \in [Programs -> Numbers]
  BY DEF TakeDigit, AtDigit, NumberInv, NumberSoFar, ArgumentsOK
<1>2. n.text.digits \in Seq(Nat) /\ n.text.base \in {10, 16} /\ n.k \in Nat
      /\ n.k + 1 \in Nat /\ n.written \in Nat
  BY <1>1 DEF Texts, Numbers
<1>3. Digit(p) \in Nat
  BY AtDigitTypes DEF TakeDigit
<1>4. n.written * n.text.base + Digit(p) \in Nat
  BY <1>2, <1>3
<1>5. NextResult(p) \in Nat /\ NextResult(p) = (n.written * n.text.base + Digit(p)) % M
  <2>1. M \in Nat \ {0}
    BY ModulusPositive
  <2>2. ((n.written % M) * n.text.base + Digit(p)) % M = (n.written * n.text.base + Digit(p)) % M
    <3> DEFINE w == n.written
    <3> DEFINE b == n.text.base
    <3> DEFINE d == Digit(p)
    <3>1. w \in Nat /\ b \in Nat /\ d \in Nat
      BY <1>2, <1>3
    <3> HIDE DEF M, w, b, d
    <3>2. ((w % M) * b + d) % M = (w * b + d) % M
      BY <2>1, <3>1, ModStep
    <3> QED BY <3>2 DEF w, b, d
  <2>3. NextResult(p) = (n.written * n.text.base + Digit(p)) % M
    BY <1>1, <2>2 DEF NextResult
  <2> QED BY <2>1, <2>3, <1>4
<1> DEFINE next == Updated(n, n.k + 1, NextResult(p), n.written * n.text.base + Digit(p))
<1>6. number' = [number EXCEPT ![p] = next]
  BY DEF TakeDigit, Updated
<1>7. /\ next \in Numbers
      /\ next.text = n.text /\ next.option = n.option /\ next.k = n.k + 1
      /\ next.result = NextResult(p) /\ next.written = n.written * n.text.base + Digit(p)
  <2> DEFINE k == n.k + 1
  <2> DEFINE r == NextResult(p)
  <2> DEFINE w == n.written * n.text.base + Digit(p)
  <2>1. n \in Numbers /\ k \in Nat /\ r \in Nat /\ w \in Nat
    BY <1>1, <1>2, <1>4, <1>5
  <2> HIDE DEF n, k, r, w
  <2>2. /\ Updated(n, k, r, w) \in Numbers
        /\ Updated(n, k, r, w).text = n.text /\ Updated(n, k, r, w).option = n.option
        /\ Updated(n, k, r, w).k = k
        /\ Updated(n, k, r, w).result = r /\ Updated(n, k, r, w).written = w
    BY <2>1, NumberUpdate
  <2> QED BY <2>2 DEF k, r, w
<1>8. number' \in [Programs -> Numbers] /\ number'[p] = next
  BY <1>1, <1>6, <1>7
<1>9. \A q \in Programs : q # p => number'[q] = number[q]
  BY <1>1, <1>6
<1>10. ArgumentsOK'
  BY <1>8 DEF TakeDigit, NumberInv, ArgumentsOK
<1>11. NumberSoFar(p)'
  <2>1. NumberOption(p)' = NumberOption(p)
    BY <1>7, <1>8 DEF NumberOption
  <2> HIDE DEF next
  <2> QED BY <1>1, <1>2, <1>5, <1>7, <1>8, <2>1 DEF NumberSoFar
<1>12. \A q \in Programs \ {p} : pc'[q] = "number" => NumberSoFar(q)'
  BY <1>9 DEF TakeDigit, NumberInv, NumberSoFar, NumberOption
<1> QED BY <1>10, <1>11, <1>12 DEF NumberInv
(* An option that takes a value starts a number, if it is one.             *)
LEMMA TakeOptionKeeps ==
  ASSUME NumberInv, NEW p \in Programs, TakeOption(p)
  PROVE  NumberInv'
<1> DEFINE o == Details(p)
<1> DEFINE text == TextFor(p)
<1> DEFINE start == [option |-> o.long, text |-> text, k |-> 0, result |-> 0, written |-> 0]
<1>1. /\ AtOption(p) /\ Acceptable(p) /\ pc[p] = "parse"
      /\ ParseOption(p, o, text) /\ UNCHANGED argv
  BY DEF TakeOption, AtOption, AtArgument
<1>2. /\ argv \in [Programs -> Seq(Arguments)] /\ current \in [Programs -> Nat \ {0}]
      /\ letter \in [Programs -> Nat \ {0}] /\ pc \in [Programs -> Labels]
      /\ number \in [Programs -> Numbers]
  BY DEF NumberInv, ArgumentsOK
<1>3. current' \in [Programs -> Nat \ {0}] /\ letter' \in [Programs -> Nat \ {0}]
  BY <1>2 DEF TakeOption
<1>4. CASE IsInteger(o)
  <2>1. o \in OptionsOf[p] /\ o.long \in OptionNames
    <3>1. o \in Matching(p)
      BY <1>1 DEF Acceptable, Details
    <3>2. o \in OptionsOf[p]
      BY <3>1 DEF Matching
    <3>3. o.long \in Options(p)
      BY <3>2 DEF Options
    <3> QED BY <3>2, <3>3 DEF OptionNames
  <2>2. text \in Texts
    <3>1. ~HasImplicit(o)
      BY <1>4 DEF IsInteger, HasImplicit
    <3> QED BY <3>1, <1>1, TextForType DEF Acceptable, NumberInv
  <2>3. start \in Numbers
    BY <2>1, <2>2 DEF Numbers
  <2>4. number' = [number EXCEPT ![p] = start] /\ pc' = [pc EXCEPT ![p] = "number"]
    BY <1>1, <1>4 DEF ParseOption, Goto
  <2>5. ArgumentsOK'
    <3> HIDE DEF start
    <3> QED BY <1>1, <1>2, <1>3, <2>3, <2>4 DEF ArgumentsOK, Labels
  <2>6. NumberSoFar(p)'
    <3>1. number'[p] = start
      BY <1>2, <2>4
    <3>2. 0 = 0 % Modulus(NumberOption(p))'
      BY MaxIntAssumption DEF Modulus
    <3>3. Len(text.digits) \in Nat
      BY <2>2 DEF Texts
    <3> HIDE DEF text, o
    <3> QED BY <3>1, <3>2, <3>3, <2>2 DEF NumberSoFar
  <2>7. \A q \in Programs \ {p} : pc'[q] = "number" => NumberSoFar(q)'
    <3> SUFFICES ASSUME NEW q \in Programs \ {p}, pc'[q] = "number" PROVE NumberSoFar(q)'
      OBVIOUS
    <3>1. pc[q] = "number" /\ number'[q] = number[q]
      BY <1>2, <2>4
    <3> QED BY <3>1 DEF NumberInv, NumberSoFar, NumberOption
  <2> QED BY <2>5, <2>6, <2>7 DEF NumberInv
<1>5. CASE ~IsInteger(o)
  <2>1. UNCHANGED <<pc, number>>
    BY <1>1, <1>5 DEF ParseOption
  <2>2. ArgumentsOK'
    BY <1>1, <1>2, <1>3, <2>1 DEF ArgumentsOK
  <2> QED BY <2>1, <2>2 DEF NumberInv, NumberSoFar, NumberOption
<1> QED BY <1>4, <1>5

(* A program that goes elsewhere reads no number there.                    *)
LEMMA LeavesNumber ==
  ASSUME NumberInv, NEW p \in Programs, NEW label \in Labels \ {"number"}, Goto(p, label),
         UNCHANGED <<argv, current, letter, number>>
  PROVE  NumberInv'
<1>1. ArgumentsOK'
  BY DEF NumberInv, ArgumentsOK, Goto
<1>2. \A q \in Programs : pc'[q] = "number" => pc[q] = "number"
  BY DEF NumberInv, ArgumentsOK, Goto
<1> QED BY <1>1, <1>2 DEF NumberInv, NumberSoFar, NumberOption

(* The number at hand is what its digits so far say, from the first of the *)
(* arguments on.                                                           *)
LEMMA ParseKeeps ==
  ASSUME NumberInv, [ParseNext]_parseVars
  PROVE  NumberInv'
<1>1. CASE UNCHANGED parseVars
  BY <1>1 DEF parseVars, NumberInv, ArgumentsOK, NumberSoFar, NumberOption
<1>2. ASSUME NEW p \in Programs, Parse(p)
      PROVE  NumberInv'
  <2>1. CASE TakeDigit(p)
    BY <2>1, TakeDigitKeeps
  <2>2. CASE TakeOption(p)
    BY <2>2, TakeOptionKeeps
  <2>3. CASE Throw(p)
    <3>1. "exit" \in Labels \ {"number"}
      BY DEF Labels
    <3> QED BY <2>3, <3>1, LeavesNumber DEF Throw
  <2>4. CASE FinishNumber(p) \/ ParseDefaults(p)
    <3>1. "parse" \in Labels \ {"number"} /\ "parsed" \in Labels \ {"number"}
      BY DEF Labels
    <3> QED BY <2>4, <3>1, LeavesNumber DEF FinishNumber, ParseDefaults
  <2>5. CASE Word(p)
    BY <2>5 DEF Word, NumberInv, ArgumentsOK, NumberSoFar, NumberOption
  <2> QED BY <1>2, <2>1, <2>2, <2>3, <2>4, <2>5
        DEF Parse, RefuseDigit, RefuseNumber, Malformed, RefuseOption
<1> QED BY <1>1, <1>2 DEF ParseNext
(* The steps after the parser leave the number at hand alone.              *)
LEMMA StartKeepsNumber ==
  ASSUME NumberInv, [StartNext]_startVars
  PROVE  NumberInv'
<1> USE DEF Labels
<1>1. CASE UNCHANGED startVars
  BY <1>1, ParseKeeps DEF startVars
<1>2. CASE ParseNext
  BY <1>2, ParseKeeps
<1>3. ASSUME NEW code, ServerLoad(code)
      PROVE  NumberInv'
  BY <1>3, ParseKeeps DEF ServerLoad
<1>4. ASSUME NEW p \in Programs, NEW label \in Labels \ {"number"}, Continue(p, label)
      PROVE  NumberInv'
  BY <1>4, LeavesNumber DEF Continue, optionVars
<1>5. ASSUME NEW p \in Programs, NEW code, Exit(p, code)
      PROVE  NumberInv'
  BY <1>5, LeavesNumber DEF Exit, optionVars
<1>6. "serve" \in Programs /\ "cli" \in Programs
  BY ProgramsAssumption
<1>7. CASE ServeHelp \/ RunServer
  BY <1>4, <1>5, <1>6, <1>7 DEF ServeHelp, RunServer
<1>8. CASE CliRefuse
  BY <1>6, <1>8, LeavesNumber DEF CliRefuse, Throw
<1>9. CASE RunClient
  BY <1>4, <1>5, <1>6, <1>9 DEF RunClient
<1>10. CASE \E p \in Programs : NoSocket(p)
  BY <1>5, <1>10 DEF NoSocket
<1>11. CASE CreateServer \/ CreateServerFails \/ CreateClient
  BY <1>4, <1>5, <1>6, <1>11 DEF CreateServer, CreateServerFails, CreateClient
<1>12. CASE Connect \/ ConnectFails
  BY <1>4, <1>5, <1>6, <1>12 DEF Connect, ConnectFails
<1>13. CASE ReadSucceed \/ ReadFail
  BY <1>4, <1>5, <1>6, <1>13 DEF ReadSucceed, ReadFail
<1> QED BY <1>1, <1>2, <1>3, <1>7, <1>8, <1>9, <1>10, <1>11, <1>12, <1>13 DEF StartNext

LEMMA StartsWithNoNumber ==
  ASSUME StartInit
  PROVE  NumberInv
<1>1. argv \in [Programs -> Seq(Arguments)]
  BY CommandLinesAssumption DEF StartInit, ParseInit
<1>2. NoNumber \in Numbers
  BY DEF NoNumber, Numbers, OptionNames
<1>3. ArgumentsOK
  BY <1>1, <1>2 DEF StartInit, ParseInit, ArgumentsOK, Labels
<1>4. \A p \in Programs : pc[p] # "number"
  BY DEF StartInit, ParseInit
<1> QED BY <1>3, <1>4 DEF NumberInv

(* While the digits say less than the width of the type, the next result   *)
(* is no smaller than the one before.                                      *)
LEMMA NoFalseOverflow ==
  ASSUME NumberInv
  PROVE  NumbersRead
<1> SUFFICES ASSUME NEW p \in Programs, pc[p] = "number"
             PROVE  LET n == number[p]
                        modulus == Modulus(NumberOption(p))
                    IN  /\ n.result = n.written % modulus
                        /\ AtDigit(p) /\ n.written * n.text.base + Digit(p) < modulus
                             => ~Overflows(p)
  BY DEF NumbersRead
<1> DEFINE n == number[p]
<1> DEFINE M == Modulus(NumberOption(p))
<1>1. n.result = n.written % M
  BY DEF NumberInv, NumberSoFar
<1>2. ASSUME AtDigit(p), n.written * n.text.base + Digit(p) < M
      PROVE  ~Overflows(p)
  <2> DEFINE w == n.written
  <2> DEFINE b == n.text.base
  <2> DEFINE d == Digit(p)
  <2>1. w \in Nat /\ b \in {10, 16} /\ d \in Nat
    BY <1>2, AtDigitTypes
  <2>2. M \in Nat \ {0}
    BY ModulusPositive
  <2>3. n.result = w % M /\ w * b + d < M
    BY <1>1, <1>2
  <2>4. NextResult(p) = (n.result * b + d) % M
    BY DEF NextResult
  <2> HIDE DEF w, b, d, M, n
  <2>5. w * b + d \in Nat /\ w <= w * b + d
    BY <2>1
  <2>6. n.result = w
    BY <2>1, <2>2, <2>3, <2>5
  <2>7. \A x \in Nat : x < M => x % M = x
    BY <2>2
  <2>8. NextResult(p) = w * b + d
    BY <2>3, <2>4, <2>5, <2>6, <2>7
  <2> QED BY <2>1, <2>5, <2>6, <2>8 DEF Overflows, n
<1> QED BY <1>1, <1>2

(* integer_parser reads every number modulo the width of its type and       *)
(* refuses none as long as its digits say less than that: for every command *)
(* line and every width of an int.                                         *)
THEOREM NumbersAreRead == StartSpec => []NumbersRead
<1>1. StartInit => NumberInv
  BY StartsWithNoNumber
<1>2. NumberInv /\ [StartNext]_startVars => NumberInv'
  BY StartKeepsNumber
<1>3. NumberInv => NumbersRead
  BY NoFalseOverflow
<1> QED BY <1>1, <1>2, <1>3, PTL DEF StartSpec
------------------------------------------------------------------------------
(* The numbers in a payload.                                               *)

(* A byte comes back from the char it was stored in.                       *)
LEMMA ByteOfChar ==
  ASSUME NEW byte \in 0 .. 255
  PROVE  Byte(Char(byte)) = byte
BY DEF Byte, Char

(* ddtp_payload_extract_short_data gives every short back that             *)
(* ddtp_payload_fill_short_data has filled in, the negative ones too.      *)
THEOREM ShortRoundTrips ==
  ASSUME NEW type, NEW data \in Int, data >= -32768, data < 32768
  PROVE  ExtractShortData(FillShortData(PayloadInit(type), data)) = data
<1> DEFINE low == data % 256
<1> DEFINE high == (data \div 256) % 256
<1> DEFINE chars == FillShortData(PayloadInit(type), data).chars
<1>1. chars[0] = Char(low) /\ chars[1] = Char(high)
  BY SMT DEF FillShortData, PayloadInit
<1>2. low \in 0 .. 255 /\ high \in 0 .. 255
  BY SMT
<1>3. Byte(chars[0]) = low /\ Byte(chars[1]) = high
  <2> HIDE DEF low, high, chars
  <2> QED BY <1>1, <1>2, ByteOfChar, SMT
<1>4. Short(high * 256 + low) = data
  BY SMT DEF Short
<1>5. ExtractShortData(FillShortData(PayloadInit(type), data)) = Short(high * 256 + low)
  <2> HIDE DEF low, high
  <2> QED BY <1>3, SMT DEF ExtractShortData
<1> QED BY <1>4, <1>5

(* ddtp_payload_extract_ulong_data gives a number of less than 2^31 back,   *)
(* and of any other of 32 bits what its sign extends to.                   *)
THEOREM ULongSignExtended ==
  ASSUME NEW type, NEW data \in Nat, data < TwoTo32(32768)
  PROVE  ExtractULongData(FillULongData(PayloadInit(type), data)) =
           IF data < 32768 * 65536 THEN data
           ELSE data + TwoTo32(32768) * TwoTo32(32768) - TwoTo32(32768)
<1> DEFINE d1 == data \div 256
<1> DEFINE d2 == data \div 65536
<1> DEFINE d3 == data \div 16777216
<1> DEFINE chars == FillULongData(PayloadInit(type), data).chars
<1>1. /\ chars[0] = Char(data % 256) /\ chars[1] = Char(d1 % 256)
      /\ chars[2] = Char(d2 % 256)   /\ chars[3] = Char(d3 % 256)
  BY SMT DEF FillULongData, PayloadInit
<1>2. /\ data % 256 \in 0 .. 255 /\ d1 % 256 \in 0 .. 255
      /\ d2 % 256 \in 0 .. 255   /\ d3 % 256 \in 0 .. 255
  BY SMT
<1>3. /\ Byte(chars[0]) = data % 256 /\ Byte(chars[1]) = d1 % 256
      /\ Byte(chars[2]) = d2 % 256   /\ Byte(chars[3]) = d3 % 256
  <2> HIDE DEF d1, d2, d3, chars
  <2> QED BY <1>1, <1>2, ByteOfChar, SMT
<1>4. (d3 % 256) * 16777216 + (d2 % 256) * 65536 + (d1 % 256) * 256 + (data % 256) = data
  BY SMT DEF TwoTo32
<1>5. ExtractULongData(FillULongData(PayloadInit(type), data)) = ULong(Int32(data))
  <2> HIDE DEF d1, d2, d3
  <2> QED BY <1>3, <1>4, SMT DEF ExtractULongData
<1> QED BY <1>5, SMT DEF ULong, Int32, TwoTo32
------------------------------------------------------------------------------
(* The two programs from their options to the answer.                      *)

Named == FillCharData(PayloadInit("LOAD_REQUEST"), Option("cli", "file").word)
Codes == {1, 2, 3, 8, 9}

Silent   == request = <<>> /\ answer = <<>> /\ loadError = 0 /\ told = 0 /\ watched = NoName
Asked    == request = <<Named>> /\ answer = <<>> /\ loadError = 0 /\ told = 0 /\ watched = NoName
Answered ==
  /\ request = <<>> /\ told = 0
  /\ answer = <<AnswerTo(loadError)>>
  /\ \/ loadError = 0 /\ watched = Option("cli", "file").word /\ watched # NoName
     \/ loadError \in Codes /\ watched = NoName
Reading  == /\ request = <<>> /\ answer = <<>> /\ loadError = 0 /\ told = 0
            /\ watched = Option("cli", "file").word /\ watched # NoName
Ended    == request = <<>> /\ answer = <<>> /\ told = loadError /\ watched = NoName

(* What of the options and of the talk each place of a program is.         *)
TalkInv ==
  /\ pc["cli"] \notin {"load", "reading", "exit"} => Silent
  /\ pc["cli"] = "load" => Asked \/ Answered
  /\ pc["cli"] = "reading" => Reading
  /\ pc["cli"] = "exit" => Ended

SockInv ==
  /\ pc["serve"] = "listening" =>
       /\ dsock["serve"].address = BindAddress
       /\ dsock["serve"].port \in BindPorts
  /\ pc["cli"] \in {"connect", "load", "reading"} =>
       /\ dsock["cli"].address = InetAton(Option("cli", "server").word)
       /\ dsock["cli"].port = Option("cli", "port")
  /\ pc["cli"] \in {"load", "reading"} => Listens

FramesOK ==
  /\ pc \in [Programs -> Labels]
  /\ DOMAIN values = Programs /\ values = [p \in Programs |-> values[p]]
  /\ dsock = [p \in Programs |-> dsock[p]]

(* A step of the parser is one of a program that is parsing.               *)
LEMMA ParseFrame ==
  ASSUME FramesOK, ParseNext
  PROVE  \E p \in Programs :
           /\ pc[p] \in {"parse", "number"}
           /\ pc'[p] \in {"parse", "number", "parsed", "exit"}
           /\ \A q \in Programs \ {p} : pc'[q] = pc[q] /\ values'[q] = values[q]
           /\ pc' \in [Programs -> Labels]
           /\ DOMAIN values' = Programs /\ values' = [q \in Programs |-> values'[q]]
<1>1. PICK p \in Programs : Parse(p)
  BY DEF ParseNext
<1> USE DEF Labels, FramesOK
<1>2. CASE Throw(p) /\ pc[p] \in {"parse", "number"}
  BY <1>2 DEF Throw, Goto
<1>3. CASE TakeDigit(p)
  BY <1>3 DEF TakeDigit, AtDigit
<1>4. CASE FinishNumber(p)
  BY <1>4 DEF FinishNumber, AtEndOfNumber, Goto, Store
<1>5. CASE Word(p)
  BY <1>5 DEF Word, AtArgument
<1>6. CASE TakeOption(p)
  BY <1>6 DEF TakeOption, AtOption, AtArgument, ParseOption, Goto, Store
<1>7. CASE ParseDefaults(p)
  BY <1>7 DEF ParseDefaults, AtEndOfArguments, Goto
<1> QED BY <1>1, <1>2, <1>3, <1>4, <1>5, <1>6, <1>7
        DEF Parse, RefuseDigit, RefuseNumber, Malformed, RefuseOption,
            AtDigit, AtEndOfNumber, AtArgument, AtOption

(* What a step of the programs' own does to the places and the options.    *)
LEMMA MoveFrame ==
  ASSUME FramesOK, NEW p \in Programs, NEW label \in Labels, Goto(p, label), UNCHANGED values
  PROVE  /\ pc' \in [Programs -> Labels] /\ pc'[p] = label
         /\ \A q \in Programs \ {p} : pc'[q] = pc[q]
         /\ DOMAIN values' = Programs /\ values' = [q \in Programs |-> values'[q]]
BY DEF FramesOK, Goto

(* The name the server reads is the one the client was given, or none.     *)
LEMMA NameArrives ==
  Deserialized(Serialized(Named)).name \in {Option("cli", "file").word, NoName}
BY DEF Named, FillCharData, PayloadInit, Serialized, Deserialized

(* The client reads the code the server has answered with.                 *)
LEMMA CodeArrives ==
  ASSUME NEW code \in Codes \cup {0}
  PROVE  /\ Deserialized(Serialized(AnswerTo(code))).type = "LOAD_SUCCEED" <=> code = 0
         /\ code # 0 => ExtractShortData(Deserialized(Serialized(AnswerTo(code)))) = code
<1>1. CASE code = 0
  BY <1>1 DEF AnswerTo, PayloadInit, Serialized, Deserialized
<1>2. CASE code \in Codes /\ code # 0
  <2>1. AnswerTo(code) = FillShortData(PayloadInit("LOAD_FAIL"), code)
    BY <1>2 DEF AnswerTo
  <2>2. AnswerTo(code).type = "LOAD_FAIL"
    BY <2>1 DEF FillShortData, PayloadInit
  <2>3. code \in Int /\ code >= -32768 /\ code < 32768
    BY <1>2, SMT DEF Codes
  <2>4. ExtractShortData(AnswerTo(code)) = code
    BY <2>1, <2>3, ShortRoundTrips
  <2> QED BY <1>2, <2>2, <2>4 DEF Serialized, Deserialized
<1> QED BY <1>1, <1>2

StartInv == FramesOK /\ TalkInv /\ SockInv

LEMMA StartsSilent ==
  ASSUME StartInit
  PROVE  StartInv
<1>1. "cli" \in Programs /\ "serve" \in Programs
  BY ProgramsAssumption
<1>2. pc["cli"] = "parse" /\ pc["serve"] = "parse"
  BY <1>1 DEF StartInit, ParseInit
<1>3. FramesOK
  BY DEF StartInit, ParseInit, FramesOK, Labels
<1>4. Silent
  BY DEF StartInit, Silent
<1> QED BY <1>2, <1>3, <1>4 DEF StartInv, TalkInv, SockInv

(* A step of one program that is not yet, or no more, in a talk keeps what  *)
(* is known of the talk and of the sockets.                                *)
LEMMA ParseStep ==
  ASSUME StartInv, ParseNext, UNCHANGED <<dsock, loadVars>>
  PROVE  StartInv'
<1>1. PICK p \in Programs :
           /\ pc[p] \in {"parse", "number"}
           /\ pc'[p] \in {"parse", "number", "parsed", "exit"}
           /\ \A q \in Programs \ {p} : pc'[q] = pc[q] /\ values'[q] = values[q]
           /\ pc' \in [Programs -> Labels]
           /\ DOMAIN values' = Programs /\ values' = [q \in Programs |-> values'[q]]
  BY ParseFrame DEF StartInv
<1>2. p \in {"serve", "cli"} /\ "cli" \in Programs /\ "serve" \in Programs
  BY ProgramsAssumption
<1>3. FramesOK'
  BY <1>1 DEF StartInv, FramesOK
<1> USE DEF StartInv, loadVars
<1>4. CASE p = "cli"
  <2>1. Silent /\ pc'["cli"] \notin {"load", "reading", "connect"} /\ pc'["serve"] = pc["serve"]
        /\ values'["serve"] = values["serve"]
    BY <1>1, <1>2, <1>4 DEF TalkInv
  <2>2. Silent' /\ Ended'
    BY <2>1 DEF Silent, Ended
  <2>3. TalkInv'
    BY <2>1, <2>2 DEF TalkInv
  <2>4. SockInv'
    BY <2>1 DEF SockInv, BindAddress, BindPorts, Option
  <2> QED BY <1>3, <2>3, <2>4
<1>5. CASE p = "serve"
  <2>1. pc["serve"] # "listening" /\ pc'["serve"] # "listening" /\ pc'["cli"] = pc["cli"]
        /\ values'["cli"] = values["cli"]
    BY <1>1, <1>2, <1>5
  <2>2. TalkInv'
    BY <2>1 DEF TalkInv, Silent, Asked, Answered, Reading, Ended, Named, Option
  <2>3. SockInv'
    BY <2>1 DEF SockInv, Listens, Option
  <2> QED BY <1>3, <2>2, <2>3
<1> QED BY <1>2, <1>4, <1>5

LEMMA ServeStep ==
  ASSUME StartInv, ServeHelp \/ RunServer \/ NoSocket("serve") \/ CreateServer \/ CreateServerFails
  PROVE  StartInv'
<1>1. "cli" \in Programs /\ "serve" \in Programs /\ "serve" # "cli"
  BY ProgramsAssumption
<1> USE DEF StartInv, loadVars, optionVars
<1>2. /\ pc["serve"] \in {"parsed", "create"}
      /\ \E label \in {"create", "listening", "exit"} : Goto("serve", label)
      /\ UNCHANGED <<values, loadVars>>
  BY DEF ServeHelp, RunServer, NoSocket, CreateServer, CreateServerFails, Exit, Continue
<1>3. /\ pc' \in [Programs -> Labels] /\ pc'["serve"] \in {"create", "listening", "exit"}
      /\ pc'["cli"] = pc["cli"]
      /\ DOMAIN values' = Programs /\ values' = [q \in Programs |-> values'[q]]
  BY <1>1, <1>2, MoveFrame DEF Labels
<1>4. dsock' = [p \in Programs |-> dsock'[p]] /\ dsock'["cli"] = dsock["cli"]
  BY <1>1 DEF ServeHelp, RunServer, NoSocket, CreateServer, CreateServerFails, FramesOK
<1>5. TalkInv'
  BY <1>2, <1>3 DEF TalkInv, Silent, Asked, Answered, Reading, Ended, Named, Option
<1>6. pc'["serve"] = "listening" =>
         dsock'["serve"].address = BindAddress /\ dsock'["serve"].port \in BindPorts
  <2>1. CASE CreateServer
    BY <1>1, <2>1 DEF CreateServer, FramesOK
  <2>2. CASE ServeHelp \/ RunServer \/ NoSocket("serve") \/ CreateServerFails
    BY <1>1, <2>2 DEF ServeHelp, RunServer, NoSocket, CreateServerFails, Exit, Continue,
                     Goto, FramesOK
  <2> QED BY <2>1, <2>2
<1>7. SockInv'
  <2>1. pc["serve"] # "listening"
    BY <1>2
  <2>2. pc["cli"] \notin {"load", "reading"}
    BY <2>1 DEF SockInv, Listens
  <2> QED BY <1>2, <1>3, <1>4, <1>6, <2>2 DEF SockInv, BindAddress, BindPorts, Option
<1> QED BY <1>3, <1>4, <1>5, <1>7 DEF FramesOK

LEMMA CliStep ==
  ASSUME StartInv, CliRefuse \/ RunClient \/ NoSocket("cli") \/ CreateClient \/ ConnectFails
  PROVE  StartInv'
<1>1. "cli" \in Programs /\ "serve" \in Programs /\ "serve" # "cli"
  BY ProgramsAssumption
<1> USE DEF StartInv, loadVars, optionVars
<1>2. /\ pc["cli"] \in {"parsed", "create", "connect"}
      /\ \E label \in {"create", "connect", "exit"} : Goto("cli", label)
      /\ UNCHANGED <<values, loadVars>>
  BY DEF CliRefuse, Throw, RunClient, NoSocket, CreateClient, ConnectFails, Exit, Continue
<1>3. /\ pc' \in [Programs -> Labels] /\ pc'["cli"] \in {"create", "connect", "exit"}
      /\ pc'["serve"] = pc["serve"]
      /\ DOMAIN values' = Programs /\ values' = [q \in Programs |-> values'[q]]
  BY <1>1, <1>2, MoveFrame DEF Labels
<1>4. dsock' = [p \in Programs |-> dsock'[p]] /\ dsock'["serve"] = dsock["serve"]
  BY <1>1 DEF CliRefuse, RunClient, NoSocket, CreateClient, ConnectFails, FramesOK
<1>5. TalkInv'
  BY <1>2, <1>3 DEF TalkInv, Silent, Ended
<1>6. pc'["cli"] = "connect" =>
         /\ dsock'["cli"].address = InetAton(Option("cli", "server").word)
         /\ dsock'["cli"].port = Option("cli", "port")
  <2>1. CASE CreateClient
    BY <1>1, <2>1 DEF CreateClient, FramesOK
  <2>2. CASE CliRefuse \/ RunClient \/ NoSocket("cli") \/ ConnectFails
    BY <1>1, <2>2 DEF CliRefuse, Throw, RunClient, NoSocket, ConnectFails, Exit, Continue,
                     Goto, FramesOK
  <2> QED BY <2>1, <2>2
<1>7. SockInv'
  BY <1>2, <1>3, <1>4, <1>6 DEF SockInv, BindAddress, BindPorts, Option
<1> QED BY <1>3, <1>4, <1>5, <1>7 DEF FramesOK

(* What the steps of the talk leave alone.                                 *)
LEMMA SocketsStay ==
  ASSUME StartInv, UNCHANGED <<dsock, values>>, pc'["serve"] = pc["serve"],
         pc'["cli"] \in {"load", "reading"} => pc["cli"] \in {"load", "reading"} \/ Listens,
         pc["cli"] \in {"connect", "load", "reading"}
  PROVE  SockInv'
<1> QED BY DEF StartInv, SockInv, BindAddress, BindPorts, Listens, Option

LEMMA ConnectStep ==
  ASSUME StartInv, Connect
  PROVE  StartInv'
<1>1. "cli" \in Programs /\ "serve" \in Programs /\ "serve" # "cli"
  BY ProgramsAssumption
<1>2. Goto("cli", "load") /\ UNCHANGED <<values, dsock, watched, loadError, told, answer>>
      /\ pc["cli"] = "connect" /\ Listens
  BY DEF Connect, Continue, optionVars
<1>3. /\ pc' \in [Programs -> Labels] /\ pc'["cli"] = "load" /\ pc'["serve"] = pc["serve"]
      /\ DOMAIN values' = Programs /\ values' = [q \in Programs |-> values'[q]]
  BY <1>1, <1>2, MoveFrame DEF StartInv, Labels
<1>4. FramesOK'
  BY <1>2, <1>3 DEF StartInv, FramesOK
<1>5. Silent
  BY <1>2 DEF StartInv, TalkInv
<1>6. request' = <<Serialized(Named)>> /\ Named' = Named
  BY <1>2 DEF Connect, Named, Option
<1>7. Asked'
  BY <1>2, <1>5, <1>6 DEF Silent, Asked, Serialized
<1>8. SockInv'
  BY <1>2, <1>3, SocketsStay
<1> QED BY <1>3, <1>4, <1>7, <1>8 DEF StartInv, TalkInv

LEMMA LoadStep ==
  ASSUME StartInv, NEW code, ServerLoad(code)
  PROVE  StartInv'
<1>1. UNCHANGED <<pc, values, dsock, told>> /\ request # <<>>
  BY DEF ServerLoad, parseVars
<1>2. pc["cli"] = "load" /\ Asked
  <2>1. pc["cli"] \notin {"load", "reading", "exit"} \/ pc["cli"] = "load"
        \/ pc["cli"] = "reading" \/ pc["cli"] = "exit"
    OBVIOUS
  <2> QED BY <1>1, <2>1 DEF StartInv, TalkInv, Silent, Answered, Reading, Ended
<1> DEFINE name == Deserialized(request[1]).name
<1>3. name \in {Option("cli", "file").word, NoName}
  <2>1. request[1] = Serialized(Named)
    BY <1>2 DEF Asked, Serialized
  <2> QED BY <2>1, NameArrives
<1>4. /\ request' = <<>> /\ loadError' = code /\ answer' = <<AnswerTo(code)>>
      /\ watched' = IF code = 0 THEN name ELSE watched
      /\ code \in {1, 2} \cup (IF name \in Paths THEN {0, 8, 9} ELSE {3})
  <2> HIDE DEF name
  <2> QED BY DEF ServerLoad, name, Serialized, ErrorsBefore, ErrorsAfter, AddWatchError
<1>5. Answered'
  <2>1. CASE code = 0
    <3>1. name \in Paths
      <4> HIDE DEF name
      <4> QED BY <1>4, <2>1, SMT
    <3>2. name = Option("cli", "file").word /\ name # NoName
      BY <1>3, <3>1, PathsAssumption
    <3> HIDE DEF name
    <3> QED BY <1>1, <1>2, <1>4, <2>1, <3>2 DEF Answered, Asked, AnswerTo, Option
  <2>2. CASE code # 0
    <3>1. code \in Codes
      <4> HIDE DEF name
      <4> QED BY <1>4, <2>2 DEF Codes
    <3>2. watched' = NoName
      BY <1>2, <1>4, <2>2 DEF Asked
    <3> QED BY <1>1, <1>2, <1>4, <3>1, <3>2 DEF Answered, Asked, AnswerTo
  <2> QED BY <2>1, <2>2
<1>6. SockInv'
  BY <1>1, <1>2, SocketsStay
<1>7. TalkInv'
  BY <1>1, <1>2, <1>5 DEF TalkInv
<1> QED BY <1>1, <1>6, <1>7 DEF StartInv, FramesOK

LEMMA ReadStep ==
  ASSUME StartInv, ReadSucceed \/ ReadFail
  PROVE  StartInv'
<1>1. "cli" \in Programs /\ "serve" \in Programs /\ "serve" # "cli"
  BY ProgramsAssumption
<1>2. pc["cli"] = "load" /\ answer # <<>> /\ answer' = <<>>
      /\ UNCHANGED <<values, dsock, request, watched, loadError>>
      /\ \E label \in {"reading", "exit"} : Goto("cli", label)
  BY DEF ReadSucceed, ReadFail, Continue, Exit, optionVars
<1>3. /\ pc' \in [Programs -> Labels] /\ pc'["cli"] \in {"reading", "exit"}
      /\ pc'["serve"] = pc["serve"]
      /\ DOMAIN values' = Programs /\ values' = [q \in Programs |-> values'[q]]
  BY <1>1, <1>2, MoveFrame DEF StartInv, Labels
<1>4. FramesOK'
  BY <1>2, <1>3 DEF StartInv, FramesOK
<1>5. Answered
  BY <1>2 DEF StartInv, TalkInv, Asked
<1>6. answer[1] = Serialized(AnswerTo(loadError)) /\ loadError \in Codes \cup {0}
  BY <1>5 DEF Answered, Serialized
<1>7. CASE ReadSucceed
  <2>1. loadError = 0
    BY <1>6, <1>7, CodeArrives DEF ReadSucceed
  <2>2. pc'["cli"] = "reading" /\ told' = told
    BY <1>1, <1>7 DEF ReadSucceed, Continue, Goto, StartInv, FramesOK
  <2>3. Reading'
    BY <1>2, <1>5, <2>1, <2>2 DEF Answered, Reading, Codes, Option
  <2>4. TalkInv'
    BY <2>2, <2>3 DEF TalkInv
  <2> QED BY <1>2, <1>3, <1>4, <2>4, SocketsStay DEF StartInv
<1>8. CASE ReadFail
  <2>1. loadError # 0 /\ told' = loadError
    BY <1>6, <1>8, CodeArrives DEF ReadFail
  <2>2. pc'["cli"] = "exit"
    BY <1>1, <1>8 DEF ReadFail, Exit, Goto, StartInv, FramesOK
  <2>3. Ended'
    BY <1>2, <1>5, <2>1 DEF Answered, Ended
  <2>4. TalkInv'
    BY <2>2, <2>3 DEF TalkInv
  <2> QED BY <1>2, <1>3, <1>4, <2>4, SocketsStay DEF StartInv
<1> QED BY <1>7, <1>8

LEMMA StartKeeps ==
  ASSUME StartInv, [StartNext]_startVars
  PROVE  StartInv'
<1>1. CASE UNCHANGED startVars
  BY <1>1 DEF startVars, parseVars, loadVars, StartInv, FramesOK, TalkInv, SockInv, Silent, Asked,
              Answered, Reading, Ended, Named, Option, Listens, BindAddress, BindPorts
<1>2. CASE \E p \in Programs : NoSocket(p)
  BY <1>2, ServeStep, CliStep, ProgramsAssumption
<1> QED BY <1>1, <1>2, ParseStep, ServeStep, CliStep, ConnectStep, LoadStep, ReadStep
        DEF StartNext

(* The client that fails tells the error the server met, never another: for *)
(* every command line and whatever call of either side fails.              *)
THEOREM ErrorIsTheServers == StartSpec => []ErrorAsMet
<1>1. StartInv => ErrorAsMet
  BY DEF StartInv, TalkInv, Silent, Asked, Answered, Reading, Ended, ErrorAsMet
<1> QED BY <1>1, StartsSilent, StartKeeps, PTL DEF StartSpec

(* The server watches nothing but the file its client named, and a client  *)
(* reads records only when its file is watched: a name too long for a      *)
(* payload is refused, never cut.                                          *)
THEOREM NamedFileIsWatched == StartSpec => []WatchesNamedFile
<1>1. StartInv => WatchesNamedFile
  BY DEF StartInv, TalkInv, Silent, Asked, Answered, Reading, Ended, WatchesNamedFile
<1> QED BY <1>1, StartsSilent, StartKeeps, PTL DEF StartSpec

(* The server a client talks to was told the client's port or none, and to *)
(* listen at the address the client was given, at any address or at all;   *)
(* a client that was given a host name talks to one of its own machine.    *)
THEOREM ClientsConnectWhereTold == StartSpec => []ConnectsWhereTold
<1>1. StartInv => ConnectsWhereTold
  <2> DEFINE server == Option("cli", "server").word
             asked == IF server \in Dotted THEN Destination(server) ELSE Loopback
  <2> SUFFICES ASSUME SockInv, pc["cli"] \in {"load", "reading"}
               PROVE  /\ pc["serve"] = "listening"
                      /\ Option("serve", "port") \in {0, Option("cli", "port")}
                      /\ Option("serve", "ipaddr").word \in {"ALL", "0.0.0.0", asked}
    BY DEF StartInv, ConnectsWhereTold
  <2>1. dsock["cli"].address = InetAton(server) /\ Listens
    BY DEF SockInv
  <2>2. Destination(dsock["cli"].address) = asked
    BY <2>1 DEF InetAton, Destination, SockInit
  <2>3. asked \in Local /\ BindAddress \in {"0.0.0.0", asked}
    BY <2>1, <2>2 DEF Listens, SockInv
  <2>4. Option("serve", "ipaddr").word \in {"ALL", "0.0.0.0", asked}
    BY <2>3, LocalAssumption DEF BindAddress, InetAddr
  <2>5. Option("serve", "port") \in {0, Option("cli", "port")}
    BY <2>1 DEF Listens, SockInv, BindPorts
  <2> QED BY <2>1, <2>4, <2>5 DEF Listens
<1> QED BY <1>1, StartsSilent, StartKeeps, PTL DEF StartSpec

------------------------------------------------------------------------------
(* The types of the variables, and of the values of the integer options.   *)

Holds(o) == IF o.type = "int"
              THEN -(Modulus(o) \div 2) .. Modulus(o) \div 2 - 1 ELSE 0 .. Modulus(o) - 1

DefaultHeld(o) == \A n \in DOMAIN o.default : o.default[n] \in Holds(o)

LEMMA SingleDefault ==
  ASSUME NEW o, NEW d, o.default = <<d>>, d \in Holds(o)
  PROVE  DefaultHeld(o)
BY DEF DefaultHeld

LEMMA NumbersHeld ==
  ASSUME NEW o
  PROVE  /\ o.type = "uint16_t" => 8992 \in Holds(o)
         /\ o.type = "int" => 10 \in Holds(o)
BY MaxIntAssumption, SMT DEF Holds, Modulus

(* The options are told apart by their names, and a default fits its type. *)
LEMMA ServeOptionsApart ==
  /\ \A a, b \in ServeOptions : a.long = b.long => a = b
  /\ \A o \in ServeOptions : IsInteger(o) => DefaultHeld(o)
<1> DEFINE s1 == OptionSpec("i", "ipaddr", "string", <<PlainWord("ALL")>>)
<1> DEFINE s2 == OptionSpec("p", "port", "uint16_t", <<8992>>)
<1> DEFINE s3 == OptionSpec("v", "verbose", "bool", <<FALSE>>)
<1> DEFINE s4 == OptionSpec("h", "help", "bool", <<FALSE>>)
<1>1. s1.long = "ipaddr" /\ s1.type = "string"
  BY DEF OptionSpec
<1>2. s2.long = "port" /\ s2.type = "uint16_t" /\ s2.default = <<8992>>
  BY DEF OptionSpec
<1>3. s3.long = "verbose" /\ s3.type = "bool"
  BY DEF OptionSpec
<1>4. s4.long = "help" /\ s4.type = "bool"
  BY DEF OptionSpec
<1>5. ServeOptions = {s1, s2, s3, s4}
  BY Zenon DEF ServeOptions
<1> HIDE DEF s1, s2, s3, s4
<1>6. \A a, b \in ServeOptions : a.long = b.long => a = b
  BY <1>1, <1>2, <1>3, <1>4, <1>5
<1>7. \A o \in ServeOptions : o = s2 \/ o.type \notin {"uint16_t", "int"}
  BY <1>1, <1>2, <1>3, <1>4, <1>5
<1>8. DefaultHeld(s2)
  BY <1>2, NumbersHeld, SingleDefault, SMT
<1> QED BY <1>6, <1>7, <1>8 DEF IsInteger

LEMMA CliOptionsApart ==
  /\ \A a, b \in CliOptions : a.long = b.long => a = b
  /\ \A o \in CliOptions : IsInteger(o) => DefaultHeld(o)
<1> DEFINE s1 == OptionSpec("f", "file", "string", <<>>)
<1> DEFINE s2 == OptionSpec("c", "csv", "string", <<>>)
<1> DEFINE s3 == OptionSpec("s", "server", "string", <<>>)
<1> DEFINE s4 == OptionSpec("i", "iterations", "int", <<10>>)
<1> DEFINE s5 == OptionSpec("p", "port", "uint16_t", <<8992>>)
<1> DEFINE s6 == OptionSpec("v", "verbose", "bool", <<FALSE>>)
<1> DEFINE s7 == OptionSpec("", "header", "bool", <<FALSE>>)
<1> DEFINE s8 == OptionSpec("h", "help", "bool", <<FALSE>>)
<1>1. /\ s1.long = "file" /\ s1.type = "string" /\ s2.long = "csv" /\ s2.type = "string"
      /\ s3.long = "server" /\ s3.type = "string"
  BY DEF OptionSpec
<1>2. s4.long = "iterations" /\ s4.type = "int" /\ s4.default = <<10>>
  BY DEF OptionSpec
<1>3. s5.long = "port" /\ s5.type = "uint16_t" /\ s5.default = <<8992>>
  BY DEF OptionSpec
<1>4. /\ s6.long = "verbose" /\ s6.type = "bool" /\ s7.long = "header" /\ s7.type = "bool"
      /\ s8.long = "help" /\ s8.type = "bool"
  BY DEF OptionSpec
<1>5. CliOptions = {s1, s2, s3, s4, s5, s6, s7, s8}
  BY Zenon DEF CliOptions
<1> HIDE DEF s1, s2, s3, s4, s5, s6, s7, s8
<1>6. \A a, b \in CliOptions : a.long = b.long => a = b
  BY <1>1, <1>2, <1>3, <1>4, <1>5
<1>7. \A o \in CliOptions : o = s4 \/ o = s5 \/ o.type \notin {"uint16_t", "int"}
  BY <1>1, <1>2, <1>3, <1>4, <1>5
<1>8. DefaultHeld(s4) /\ DefaultHeld(s5)
  BY <1>2, <1>3, NumbersHeld, SingleDefault, SMT
<1> QED BY <1>6, <1>7, <1>8 DEF IsInteger

LEMMA OptionsApart ==
  ASSUME NEW p \in Programs
  PROVE  /\ \A a, b \in OptionsOf[p] : a.long = b.long => a = b
         /\ \A o \in OptionsOf[p] : IsInteger(o) => DefaultHeld(o)
<1>1. OptionsOf[p] = ServeOptions \/ OptionsOf[p] = CliOptions
  BY OptionsAssumption
<1> QED BY <1>1, ServeOptionsApart, CliOptionsApart

LEMMA OptionByName ==
  ASSUME NEW p \in Programs, NEW o \in OptionsOf[p]
  PROVE  OptionNamed(p, o.long) = o
BY OptionsApart DEF OptionNamed

OptionTypes ==
  /\ DOMAIN values = Programs /\ \A p \in Programs : DOMAIN values[p] = Options(p)
  /\ \A p \in Programs : \A o \in OptionsOf[p] :
       IsInteger(o) => \A n \in DOMAIN values[p][o.long] : values[p][o.long][n] \in Holds(o)
  /\ \A p \in Programs : pc[p] = "number" =>
       \E o \in OptionsOf[p] : number[p].option = o.long /\ IsInteger(o)
  /\ \A p \in Programs : current[p] <= Len(argv[p]) + 1
  /\ status \in [Programs -> {Running, 0, 1, 255}]
  /\ \A p \in Programs : (status[p] # Running) <=> (pc[p] = "exit")

LEMMA OptionTypesStart ==
  ASSUME StartInit
  PROVE  OptionTypes
<1> USE DEF StartInit, ParseInit
<1>1. \A p \in Programs : \A o \in OptionsOf[p] : o.long \in Options(p) /\ values[p][o.long] = <<>>
  BY DEF Options
<1>2. \A p \in Programs : argv[p] \in Seq(Arguments)
  BY CommandLinesAssumption
<1>3. \A p \in Programs : current[p] <= Len(argv[p]) + 1
  <2> SUFFICES ASSUME NEW p \in Programs PROVE current[p] <= Len(argv[p]) + 1
    OBVIOUS
  <2>1. current[p] = 1
    OBVIOUS
  <2> HIDE DEF StartInit, ParseInit
  <2>2. Len(argv[p]) \in Nat
    BY <1>2
  <2> QED BY <2>1, <2>2
<1>4. status \in [Programs -> {Running, 0, 1, 255}]
      /\ \A p \in Programs : status[p] = Running /\ pc[p] = "parse"
  OBVIOUS
<1>5. DOMAIN values = Programs /\ \A p \in Programs : DOMAIN values[p] = Options(p)
  OBVIOUS
<1> QED BY <1>1, <1>3, <1>4, <1>5 DEF OptionTypes

(* The value of one option changes.                                        *)
LEMMA StoreValue ==
  ASSUME OptionTypes, NEW p \in Programs, NEW o \in OptionsOf[p], NEW value, Store(p, o, value),
         IsInteger(o) => value \in Holds(o)
  PROVE  /\ DOMAIN values' = Programs /\ \A q \in Programs : DOMAIN values'[q] = Options(q)
         /\ \A q \in Programs : \A a \in OptionsOf[q] : IsInteger(a) =>
              \A n \in DOMAIN values'[q][a.long] : values'[q][a.long][n] \in Holds(a)
<1>1. o.long \in Options(p) /\ DOMAIN values = Programs
      /\ \A q \in Programs : DOMAIN values[q] = Options(q)
  BY DEF Options, OptionTypes
<1>2. /\ DOMAIN values' = Programs /\ \A q \in Programs : DOMAIN values'[q] = Options(q)
      /\ values'[p][o.long] = <<value>>
      /\ \A q \in Programs : \A x \in Options(q) :
           q # p \/ x # o.long => values'[q][x] = values[q][x]
  BY <1>1 DEF Store
<1>3. ASSUME NEW q \in Programs, NEW a \in OptionsOf[q], IsInteger(a)
      PROVE  \A n \in DOMAIN values'[q][a.long] : values'[q][a.long][n] \in Holds(a)
  <2>1. a.long \in Options(q)
    BY DEF Options
  <2>2. CASE q = p /\ a.long = o.long
    <3>1. a = o
      BY <2>2, OptionsApart
    <3> QED BY <1>2, <1>3, <2>2, <3>1
  <2>3. CASE q # p \/ a.long # o.long
    BY <1>2, <1>3, <2>1, <2>3 DEF OptionTypes
  <2> QED BY <2>2, <2>3
<1> QED BY <1>2, <1>3
(* A program goes on to another label, or ends.                            *)
LEMMA TypesMove ==
  ASSUME NumberInv, OptionTypes, NEW p \in Programs, NEW label \in Labels \ {"number"},
         Goto(p, label), UNCHANGED <<argv, current, values, number>>,
         \/ label # "exit" /\ pc[p] # "exit" /\ UNCHANGED status
         \/ label = "exit" /\ \E code \in {0, 1, 255} : status' = [status EXCEPT ![p] = code]
  PROVE  OptionTypes'
<1>1. pc' = [pc EXCEPT ![p] = label] /\ pc \in [Programs -> Labels]
      /\ status \in [Programs -> {Running, 0, 1, 255}]
  BY DEF Goto, NumberInv, ArgumentsOK, OptionTypes
<1>2. \A q \in Programs : pc'[q] = "number" => pc[q] = "number"
  BY <1>1
<1>3. /\ status' \in [Programs -> {Running, 0, 1, 255}]
      /\ \A q \in Programs : (status'[q] # Running) <=> (pc'[q] = "exit")
  <2>1. CASE label # "exit" /\ pc[p] # "exit" /\ UNCHANGED status
    BY <1>1, <2>1 DEF OptionTypes
  <2>2. CASE label = "exit" /\ \E code \in {0, 1, 255} : status' = [status EXCEPT ![p] = code]
    BY <1>1, <2>2 DEF OptionTypes, Running
  <2> QED BY <2>1, <2>2
<1> QED BY <1>2, <1>3 DEF OptionTypes

(* The number that is read fits its option, once it is in range.           *)
LEMMA FinishTypes ==
  ASSUME NumberInv, OptionTypes, NEW p \in Programs, FinishNumber(p)
  PROVE  OptionTypes'
<1>1. PICK o \in OptionsOf[p] : number[p].option = o.long /\ IsInteger(o)
  BY DEF FinishNumber, AtEndOfNumber, OptionTypes
<1>2. NumberOption(p) = o
  BY <1>1, OptionByName DEF NumberOption
<1> DEFINE M == Modulus(o)
<1> DEFINE r == number[p].result
<1>3. M \in Nat \ {0} /\ r \in 0 .. M - 1
  <2>1. M \in Nat \ {0}
    BY ModulusPositive
  <2>2. r = number[p].written % M /\ number[p].written \in Nat
    BY <1>2 DEF FinishNumber, AtEndOfNumber, NumberInv, NumberSoFar, ArgumentsOK, Numbers
  <2> QED BY <2>1, <2>2
<1>4. Signed(number[p].text, r) \in Holds(o)
  <2>1. ~OutOfRange(p)
    BY DEF FinishNumber
  <2>2. CASE o.type = "int"
    <3>1. r <= IF number[p].text.negative THEN MaxInt + 1 ELSE MaxInt
      <4>1. M \div 2 = MaxInt + 1
        BY <2>2, MaxIntAssumption DEF Modulus
      <4>2. ~(r > (IF number[p].text.negative THEN M \div 2 ELSE M \div 2 - 1))
        BY <1>2, <2>1, <2>2 DEF OutOfRange, IsSigned
      <4> QED BY <1>3, <4>1, <4>2, MaxIntAssumption
    <3>2. Holds(o) = -(MaxInt + 1) .. MaxInt
      BY <2>2, MaxIntAssumption DEF Holds, Modulus
    <3>3. r \in Nat
      BY <1>3
    <3> HIDE DEF r
    <3> QED BY <3>1, <3>2, <3>3, MaxIntAssumption DEF Signed
  <2>3. CASE o.type # "int"
    <3>1. ~number[p].text.negative
      BY <1>2, <2>1, <2>3 DEF OutOfRange, IsSigned
    <3>2. Signed(number[p].text, r) = r
      BY <3>1 DEF Signed
    <3> QED BY <1>3, <2>3, <3>2 DEF Holds
  <2> QED BY <2>2, <2>3
<1>5. Store(p, o, Signed(number[p].text, r))
  BY <1>2 DEF FinishNumber
<1>6. /\ DOMAIN values' = Programs /\ \A q \in Programs : DOMAIN values'[q] = Options(q)
      /\ \A q \in Programs : \A a \in OptionsOf[q] : IsInteger(a) =>
           \A n \in DOMAIN values'[q][a.long] : values'[q][a.long][n] \in Holds(a)
  <2> HIDE DEF r
  <2> QED BY <1>4, <1>5, StoreValue
<1>7. /\ pc' = [pc EXCEPT ![p] = "parse"] /\ pc \in [Programs -> Labels] /\ pc[p] = "number"
      /\ UNCHANGED <<argv, current, number, status>>
  BY DEF FinishNumber, AtEndOfNumber, Goto, NumberInv, ArgumentsOK
<1>8. \A q \in Programs : pc'[q] = "number" => pc[q] = "number"
  BY <1>7
<1>9. \A q \in Programs : (pc'[q] = "exit") <=> (pc[q] = "exit")
  BY <1>7
<1> QED BY <1>6, <1>7, <1>8, <1>9 DEF OptionTypes

(* An option that takes a value takes one argument or two.                 *)
LEMMA TakeOptionTypes ==
  ASSUME NumberInv, OptionTypes, NEW p \in Programs, TakeOption(p)
  PROVE  OptionTypes'
<1> DEFINE o == Details(p)
<1>1. /\ AtOption(p) /\ Acceptable(p) /\ pc[p] = "parse" /\ current[p] <= Len(argv[p])
      /\ ParseOption(p, o, TextFor(p)) /\ UNCHANGED <<argv, status>>
  BY DEF TakeOption, AtOption, AtArgument
<1>2. o \in OptionsOf[p]
  <2>1. o \in Matching(p)
    BY <1>1 DEF Acceptable, Details
  <2> QED BY <2>1 DEF Matching
<1>3. /\ argv \in [Programs -> Seq(Arguments)] /\ current \in [Programs -> Nat \ {0}]
      /\ pc \in [Programs -> Labels] /\ number \in [Programs -> Numbers]
  BY DEF NumberInv, ArgumentsOK
<1>4. \A q \in Programs : current'[q] <= Len(argv'[q]) + 1
  <2>1. current' \in {current, [current EXCEPT ![p] = @ + 1],
                      [current EXCEPT ![p] = @ + (IF TakesNext(p) THEN 2 ELSE 1)]}
    BY DEF TakeOption
  <2>2. /\ current[p] \in Nat /\ Len(argv[p]) \in Nat
        /\ IsLastLetter(p) /\ TakesNext(p) => current[p] # Len(argv[p])
    BY <1>1, <1>3 DEF Acceptable, LacksArgument
  <2>3. current'[p] <= Len(argv[p]) + 1
    <3>1. CASE IsLastLetter(p)
      <4>1. current' = [current EXCEPT ![p] = @ + IF TakesNext(p) THEN 2 ELSE 1]
        BY <3>1 DEF TakeOption
      <4>2. current'[p] = current[p] + IF TakesNext(p) THEN 2 ELSE 1
        BY <1>3, <4>1
      <4> QED BY <1>1, <2>2, <3>1, <4>2
    <3>2. CASE ~IsLastLetter(p)
      BY <1>1, <2>2, <3>2 DEF TakeOption
    <3> QED BY <3>1, <3>2
  <2>4. \A q \in Programs : q # p => current'[q] = current[q]
    BY <1>3, <2>1
  <2> QED BY <1>1, <2>3, <2>4 DEF OptionTypes
<1>5. CASE IsInteger(o)
  <2> DEFINE start == [option |-> o.long, text |-> TextFor(p), k |-> 0, result |-> 0, written |-> 0]
  <2>1. /\ number' = [number EXCEPT ![p] = start] /\ pc' = [pc EXCEPT ![p] = "number"]
        /\ UNCHANGED values
    BY <1>1, <1>5 DEF ParseOption, Goto
  <2>2. start.option = o.long
    OBVIOUS
  <2> HIDE DEF start
  <2>3. number'[p].option = o.long
    BY <1>3, <2>1, <2>2
  <2>4. \A q \in Programs \ {p} : pc'[q] = pc[q] /\ number'[q] = number[q]
    BY <1>3, <2>1
  <2>5. \A q \in Programs : pc'[q] = "number" =>
          \E a \in OptionsOf[q] : number'[q].option = a.long /\ IsInteger(a)
    BY <1>2, <1>5, <2>3, <2>4 DEF OptionTypes
  <2>6. \A q \in Programs : (pc'[q] = "exit") <=> (pc[q] = "exit")
    BY <1>1, <1>3, <2>1
  <2> QED BY <1>1, <1>4, <2>1, <2>5, <2>6 DEF OptionTypes
<1>6. CASE ~IsInteger(o)
  <2>1. UNCHANGED <<pc, number>> /\ Store(p, o, ValueOf(o, TextFor(p)))
    BY <1>1, <1>6 DEF ParseOption
  <2>2. /\ DOMAIN values' = Programs /\ \A q \in Programs : DOMAIN values'[q] = Options(q)
        /\ \A q \in Programs : \A a \in OptionsOf[q] : IsInteger(a) =>
             \A n \in DOMAIN values'[q][a.long] : values'[q][a.long][n] \in Holds(a)
    <3> HIDE DEF o
    <3> QED BY <1>2, <1>6, <2>1, StoreValue
  <2> QED BY <1>1, <1>4, <2>1, <2>2 DEF OptionTypes
<1> QED BY <1>5, <1>6

LEMMA DefaultTypes ==
  ASSUME NumberInv, OptionTypes, NEW p \in Programs, ParseDefaults(p)
  PROVE  OptionTypes'
<1>1. /\ pc' = [pc EXCEPT ![p] = "parsed"] /\ pc \in [Programs -> Labels] /\ pc[p] = "parse"
      /\ UNCHANGED <<argv, current, number, status>>
  BY DEF ParseDefaults, AtEndOfArguments, Goto, NumberInv, ArgumentsOK
<1> DEFINE taken == [option \in Options(p) |->
             IF Count(p, option) = 0 THEN OptionNamed(p, option).default ELSE values[p][option]]
<1>2. /\ values' = [values EXCEPT ![p] = taken] /\ DOMAIN values = Programs
      /\ \A q \in Programs : DOMAIN values[q] = Options(q)
  BY DEF ParseDefaults, OptionTypes
<1>3. \A a \in OptionsOf[p] : taken[a.long] \in {a.default, values[p][a.long]}
  <2> SUFFICES ASSUME NEW a \in OptionsOf[p] PROVE taken[a.long] \in {a.default, values[p][a.long]}
    OBVIOUS
  <2>1. a.long \in Options(p)
    BY DEF Options
  <2>2. OptionNamed(p, a.long) = a
    BY OptionByName
  <2> QED BY <2>1, <2>2
<1>4. DOMAIN taken = Options(p)
  OBVIOUS
<1> HIDE DEF taken
<1>5. values'[p] = taken /\ \A q \in Programs \ {p} : values'[q] = values[q]
  BY <1>2
<1>6. DOMAIN values' = Programs /\ \A q \in Programs : DOMAIN values'[q] = Options(q)
  BY <1>2, <1>4, <1>5
<1>7. \A q \in Programs : \A a \in OptionsOf[q] : IsInteger(a) =>
        \A n \in DOMAIN values'[q][a.long] : values'[q][a.long][n] \in Holds(a)
  <2> SUFFICES ASSUME NEW q \in Programs, NEW a \in OptionsOf[q], IsInteger(a)
               PROVE  \A n \in DOMAIN values'[q][a.long] : values'[q][a.long][n] \in Holds(a)
    OBVIOUS
  <2>1. CASE values'[q][a.long] = values[q][a.long]
    BY <2>1 DEF OptionTypes
  <2>2. CASE q = p /\ values'[q][a.long] = a.default
    BY <2>2, OptionsApart DEF DefaultHeld
  <2> QED BY <1>3, <1>5, <2>1, <2>2
<1>8. \A q \in Programs : pc'[q] = "number" => pc[q] = "number"
  BY <1>1
<1>9. \A q \in Programs : (pc'[q] = "exit") <=> (pc[q] = "exit")
  BY <1>1
<1> QED BY <1>1, <1>6, <1>7, <1>8, <1>9 DEF OptionTypes

LEMMA ParseTypes ==
  ASSUME NumberInv, OptionTypes, NEW p \in Programs, Parse(p)
  PROVE  OptionTypes'
<1>1. CASE TakeDigit(p)
  <2> DEFINE next == [number[p] EXCEPT !.k = @ + 1, !.result = NextResult(p),
                        !.written = @ * number[p].text.base + Digit(p)]
  <2>1. number' = [number EXCEPT ![p] = next] /\ number \in [Programs -> Numbers]
        /\ UNCHANGED <<pc, argv, current, values, status>>
    BY <1>1 DEF TakeDigit, NumberInv, ArgumentsOK
  <2>2. next.option = number[p].option
    <3>1. number[p] \in Numbers
      BY <2>1
    <3> QED BY <3>1 DEF Numbers
  <2> HIDE DEF next
  <2>3. \A q \in Programs : number'[q].option = number[q].option
    BY <2>1, <2>2
  <2> QED BY <2>1, <2>3 DEF OptionTypes
<1>2. CASE Throw(p)
  <2>1. "exit" \in Labels \ {"number"}
    BY DEF Labels
  <2> QED BY <1>2, <2>1, TypesMove DEF Throw
<1>3. CASE Word(p)
  <2>1. /\ current' = [current EXCEPT ![p] = @ + 1] /\ current[p] <= Len(argv[p])
        /\ UNCHANGED <<pc, argv, values, number, status>>
        /\ current \in [Programs -> Nat \ {0}] /\ argv \in [Programs -> Seq(Arguments)]
    BY <1>3 DEF Word, AtArgument, NumberInv, ArgumentsOK
  <2>2. current'[p] <= Len(argv[p]) + 1
    <3>1. current'[p] = current[p] + 1 /\ Len(argv[p]) \in Nat /\ current[p] \in Nat
      BY <2>1
    <3> QED BY <2>1, <3>1
  <2>3. \A q \in Programs : q # p => current'[q] = current[q]
    BY <2>1
  <2> QED BY <2>1, <2>2, <2>3 DEF OptionTypes
<1> QED BY <1>1, <1>2, <1>3, FinishTypes, TakeOptionTypes, DefaultTypes
      DEF Parse, RefuseDigit, RefuseNumber, Malformed, RefuseOption

(* The steps after the parser only move their program on.                  *)
LEMMA OptionTypesKeep ==
  ASSUME NumberInv, OptionTypes, [StartNext]_startVars
  PROVE  OptionTypes'
<1> USE DEF Labels
<1>1. CASE UNCHANGED parseVars
  BY <1>1 DEF parseVars, OptionTypes
<1>2. CASE ParseNext
  BY <1>2, ParseTypes DEF ParseNext
<1>3. ASSUME NEW p \in Programs, NEW label \in Labels \ {"number", "exit"}, pc[p] # "exit",
             Continue(p, label)
      PROVE  OptionTypes'
  BY <1>3, TypesMove DEF Continue, optionVars
<1>4. ASSUME NEW p \in Programs, NEW code \in {0, 1, 255}, Exit(p, code)
      PROVE  OptionTypes'
  BY <1>4, TypesMove DEF Exit, optionVars
<1>5. "serve" \in Programs /\ "cli" \in Programs
  BY ProgramsAssumption
<1>6. CASE ServeHelp \/ RunServer
  BY <1>3, <1>4, <1>5, <1>6 DEF ServeHelp, RunServer
<1>7. CASE CliRefuse
  BY <1>5, <1>7, TypesMove DEF CliRefuse, Throw
<1>8. CASE RunClient
  BY <1>3, <1>4, <1>5, <1>8 DEF RunClient
<1>9. CASE \E p \in Programs : NoSocket(p)
  BY <1>4, <1>9 DEF NoSocket, ReturnOf
<1>10. CASE CreateServer \/ CreateServerFails \/ CreateClient
  BY <1>3, <1>4, <1>5, <1>10 DEF CreateServer, CreateServerFails, CreateClient
<1>11. CASE Connect \/ ConnectFails \/ ReadSucceed \/ ReadFail
  BY <1>3, <1>4, <1>5, <1>11 DEF Connect, ConnectFails, ReadSucceed, ReadFail
<1> QED BY <1>1, <1>2, <1>6, <1>7, <1>8, <1>9, <1>10, <1>11 DEF StartNext, startVars, ServerLoad

(* Types, for every command line: above all, a value of an integer option  *)
(* is one of its type, the smallest int included.                          *)
THEOREM StartTypes == StartSpec => []StartTypeOK
<1>1. ASSUME NumberInv, OptionTypes
      PROVE  StartTypeOK
  <2>1. \A p \in Programs : current[p] \in 1 .. Len(argv[p]) + 1
    <3> SUFFICES ASSUME NEW p \in Programs PROVE current[p] \in 1 .. Len(argv[p]) + 1
      OBVIOUS
    <3>1. argv[p] \in Seq(Arguments) /\ current[p] \in Nat \ {0}
          /\ current[p] <= Len(argv[p]) + 1
      BY <1>1 DEF NumberInv, ArgumentsOK, OptionTypes
    <3>2. Len(argv[p]) \in Nat
      BY <3>1
    <3> QED BY <3>1, <3>2
  <2>2. \A p \in Programs, type \in {"uint16_t", "int"} :
          \A o \in {o \in OptionsOf[p] : o.type = type} :
            \A n \in DOMAIN values[p][o.long] :
              values[p][o.long][n] \in IF type = "int"
                THEN -(Modulus(o) \div 2) .. Modulus(o) \div 2 - 1 ELSE 0 .. Modulus(o) - 1
    BY <1>1 DEF OptionTypes, IsInteger, Holds
  <2>3. pc \in [Programs -> Labels] /\ status \in [Programs -> {Running, 0, 1, 255}]
        /\ \A p \in Programs : (status[p] # Running) <=> (pc[p] = "exit")
    BY <1>1 DEF NumberInv, ArgumentsOK, OptionTypes
  <2> QED BY <2>1, <2>2, <2>3 DEF StartTypeOK, Labels
<1> QED BY <1>1, StartsWithNoNumber, OptionTypesStart, StartKeepsNumber, OptionTypesKeep, PTL
      DEF StartSpec

------------------------------------------------------------------------------
(* What the options are left with once the arguments have been read.       *)

(* f tells what the first k digits of a text say, for each k; or for each  *)
(* k up to m.                                                              *)
Reads(text, f) ==
  f = [k \in 0 .. Len(text.digits) |->
         IF k = 0 THEN 0 ELSE f[k - 1] * text.base + text.digits[k]]
ReadsUpTo(text, m, f) ==
  /\ f \in [0 .. m -> Nat]
  /\ \A k \in 0 .. m : f[k] = IF k = 0 THEN 0 ELSE f[k - 1] * text.base + text.digits[k]

(* Whatever tells what the digits say tells w of the first k; and as far   *)
(* as k, something does.                                                   *)
SaysAt(text, k, w) ==
  /\ \A f : Reads(text, f) => f[k] = w
  /\ \E f : ReadsUpTo(text, k, f)

LEMMA SaysNothing ==
  ASSUME NEW text \in Texts
  PROVE  SaysAt(text, 0, 0)
<1>1. Len(text.digits) \in Nat
  BY DEF Texts
<1>2. \A f : Reads(text, f) => f[0] = 0
  BY <1>1 DEF Reads
<1>3. ReadsUpTo(text, 0, [k \in 0 .. 0 |-> 0])
  BY DEF ReadsUpTo
<1> QED BY <1>2, <1>3 DEF SaysAt

LEMMA SaysNextDigit ==
  ASSUME NEW text \in Texts, NEW k \in Nat, k < Len(text.digits), NEW w \in Nat,
         SaysAt(text, k, w)
  PROVE  SaysAt(text, k + 1, w * text.base + text.digits[k + 1])
<1>1. /\ text.digits \in Seq(Nat) /\ Len(text.digits) \in Nat /\ text.base \in Nat
      /\ k + 1 \in 1 .. Len(text.digits)
  BY DEF Texts
<1>2. text.digits[k + 1] \in Nat
  <2> DEFINE digits == text.digits
  <2> HIDE DEF digits
  <2> QED BY <1>1 DEF digits
<1>3. ASSUME NEW f, Reads(text, f)
      PROVE  f[k + 1] = w * text.base + text.digits[k + 1]
  <2>1. f[k] = w
    BY <1>3 DEF SaysAt
  <2>2. f[k + 1] = f[k] * text.base + text.digits[k + 1]
    BY <1>1, <1>3 DEF Reads
  <2> QED BY <2>1, <2>2
<1>4. PICK f : ReadsUpTo(text, k, f)
  BY DEF SaysAt
<1> DEFINE g == [i \in 0 .. k + 1 |->
                   IF i = k + 1 THEN f[k] * text.base + text.digits[k + 1] ELSE f[i]]
<1>5. f[k] * text.base + text.digits[k + 1] \in Nat
  <2> DEFINE u == f[k]
  <2> DEFINE b == text.base
  <2> DEFINE d == text.digits[k + 1]
  <2>1. u \in Nat /\ b \in Nat /\ d \in Nat
    BY <1>1, <1>2, <1>4 DEF ReadsUpTo
  <2> HIDE DEF u, b, d
  <2>2. u * b + d \in Nat
    BY <2>1
  <2> QED BY <2>2 DEF u, b, d
<1>6. g \in [0 .. k + 1 -> Nat]
  BY <1>4, <1>5 DEF ReadsUpTo
<1>7. ASSUME NEW i \in 0 .. k + 1
      PROVE  g[i] = IF i = 0 THEN 0 ELSE g[i - 1] * text.base + text.digits[i]
  <2>1. CASE i = k + 1
    BY <2>1
  <2>2. CASE i \in 0 .. k
    <3>1. g[i] = f[i] /\ (i # 0 => g[i - 1] = f[i - 1])
      BY <2>2
    <3> QED BY <1>4, <2>2, <3>1 DEF ReadsUpTo
  <2> QED BY <2>1, <2>2
<1> HIDE DEF g
<1>8. ReadsUpTo(text, k + 1, g)
  BY <1>6, <1>7 DEF ReadsUpTo
<1> QED BY <1>3, <1>8 DEF SaysAt

(* At the end of the digits, that is what the text says.                   *)
LEMMA SaysWritten ==
  ASSUME NEW text \in Texts, NEW w, SaysAt(text, Len(text.digits), w)
  PROVE  Written(text) = Signed(text, w)
<1> DEFINE f == CHOOSE h : Reads(text, h)
<1>1. PICK g : ReadsUpTo(text, Len(text.digits), g)
  BY DEF SaysAt
<1>2. Reads(text, g)
  BY <1>1 DEF ReadsUpTo, Reads
<1>3. Reads(text, f)
  BY <1>2
<1>4. Written(text) = Signed(text, f[Len(text.digits)])
  BY DEF Written, Reads
<1>5. f[Len(text.digits)] = w
  BY <1>3 DEF SaysAt
<1> QED BY <1>4, <1>5

(* The remainder of a number, with its sign, tells what a text says.       *)
LEMMA RemainderTells ==
  ASSUME NEW o, IsInteger(o), NEW text \in Texts, NEW w \in Nat,
         Written(text) = Signed(text, w)
  PROVE  Tells(o, Signed(text, w % Modulus(o)), text)
<1> DEFINE M == Modulus(o)
<1> DEFINE r == w % M
<1>1. M \in Nat \ {0} /\ (IsSigned(o) => M = 2 * (M \div 2))
  BY ModulusPositive, MaxIntAssumption DEF Modulus, IsSigned
<1>2. r \in 0 .. M - 1 /\ w = M * (w \div M) + r /\ w \div M \in Int
  BY <1>1
<1>3. ASSUME NEW e \in Int
      PROVE  (M * e + 0) % M = 0
  <2>1. 0 % M = 0
    BY <1>1
  <2> HIDE DEF M
  <2> QED BY <1>1, <2>1, ModShift
<1>4. (r - w) % M = 0 /\ (w - r) % M = 0
  <2> DEFINE q == w \div M
  <2>1. q \in Int /\ -q \in Int
    BY <1>2
  <2>2. r - w = M * (-q) + 0 /\ w - r = M * q + 0
    <3> HIDE DEF q, r, M
    <3> QED BY <1>1, <1>2, <2>1 DEF q
  <2> HIDE DEF q, r, M
  <2> QED BY <1>3, <2>1, <2>2
<1>5. (Signed(text, r) - Written(text)) % M = 0
  <2> HIDE DEF r, M
  <2>1. CASE text.negative
    <3>1. Signed(text, r) - Written(text) = w - r
      BY <1>2, <2>1 DEF Signed
    <3> QED BY <1>4, <3>1
  <2>2. CASE ~text.negative
    BY <1>4, <2>2 DEF Signed
  <2> QED BY <2>1, <2>2
<1>6. ASSUME Fits(o, text)
      PROVE  Signed(text, r) = Written(text)
  <2>1. w < M
    <3>1. CASE IsSigned(o)
      <4>1. Signed(text, w) \in -(M \div 2) .. -(M \div 2) + M - 1
        BY <1>6, <3>1 DEF Fits
      <4> HIDE DEF r, M
      <4> QED BY <1>1, <3>1, <4>1 DEF Signed
    <3>2. CASE ~IsSigned(o)
      <4>1. Signed(text, w) \in 0 .. 0 + M - 1 /\ ~text.negative
        BY <1>6, <3>2 DEF Fits
      <4> HIDE DEF r, M
      <4> QED BY <1>1, <4>1 DEF Signed
    <3> QED BY <3>1, <3>2
  <2>2. r = w
    BY <1>1, <2>1
  <2> QED BY <2>2
<1> HIDE DEF r
<1> QED BY <1>5, <1>6 DEF Tells, r

(* Of some numbers that have a bound there is a last.                      *)
LEMMA HasLast ==
  ASSUME NEW m \in Nat, NEW A \in SUBSET (1 .. m), A # {}
  PROVE  \E i \in A : \A j \in A : j <= i
<1> DEFINE Left == {m - i : i \in A}
<1>1. Left \subseteq Nat /\ Left # {}
  <2>1. \A i \in A : m - i \in Nat
    OBVIOUS
  <2>2. PICK i \in A : TRUE
    OBVIOUS
  <2> QED BY <2>1, <2>2
<1>2. PICK x \in Left : \A y \in Left : ~(<<y, x>> \in OpToRel(<, Nat))
  BY <1>1, NatLessThanWellFounded, WFMin
<1>3. \A y \in Left : ~(y < x)
  BY <1>1, <1>2 DEF OpToRel
<1>4. PICK i \in A : x = m - i
  OBVIOUS
<1>5. \A j \in A : j <= i
  BY <1>3, <1>4
<1> QED BY <1>5

GivenTexts == Texts \cup {ImplicitText}
GivenEntries == [option : OptionNames, text : GivenTexts]
GivenType == given \in [Programs -> Seq(GivenEntries)]

(* Some places of a sequence are counted when there are any, and one of    *)
(* them is the last.                                                       *)
LEMMA PlacesCounted ==
  ASSUME NEW S, NEW s \in Seq(S), NEW A \in SUBSET DOMAIN s
  PROVE  Cardinality(A) = 0 <=> A = {}
<1>1. DOMAIN s = 1 .. Len(s) /\ Len(s) \in Nat
  OBVIOUS
<1>2. IsFiniteSet(DOMAIN s)
  BY <1>1, FS_Interval
<1>3. IsFiniteSet(A)
  BY <1>2, FS_Subset
<1> QED BY <1>3, FS_EmptySet

LEMMA LastPlace ==
  ASSUME NEW S, NEW s \in Seq(S), NEW A \in SUBSET DOMAIN s, A # {},
         NEW last, last = CHOOSE i \in A : \A j \in A : j <= i
  PROVE  last \in A /\ \A j \in A : j <= last
<1>1. DOMAIN s = 1 .. Len(s) /\ Len(s) \in Nat
  OBVIOUS
<1>2. \E i \in A : \A j \in A : j <= i
  BY <1>1, HasLast
<1> QED BY <1>2

(* The text given last is that of the option it is given for, and the      *)
(* others keep theirs.                                                     *)
LEMMA GiveText ==
  ASSUME GivenType, NEW p \in Programs, NEW option \in OptionNames,
         NEW text \in GivenTexts,
         given' = [given EXCEPT ![p] = Append(@, [option |-> option, text |-> text])]
  PROVE  /\ GivenType'
         /\ Count(p, option)' # 0 /\ LastText(p, option)' = text
         /\ \A q \in Programs : \A x : q # p \/ x # option =>
              /\ Count(q, x)' = Count(q, x)
              /\ Count(q, x) # 0 => LastText(q, x)' = LastText(q, x)
<1> DEFINE e == [option |-> option, text |-> text]
<1> DEFINE m == Len(given[p]) + 1
<1>1. /\ given[p] \in Seq(GivenEntries) /\ given' = [given EXCEPT ![p] = Append(given[p], e)]
      /\ given \in [Programs -> Seq(GivenEntries)] /\ e \in GivenEntries
      /\ e.option = option /\ e.text = text
  BY DEF GivenType, GivenEntries
<1> HIDE DEF e
<1>2. /\ GivenType' /\ given'[p] = Append(given[p], e)
      /\ \A q \in Programs : q # p => given'[q] = given[q]
  BY <1>1 DEF GivenType
<1>3. /\ m \in Nat \ {0} /\ DOMAIN given[p] = 1 .. m - 1 /\ DOMAIN given'[p] = 1 .. m
      /\ given'[p][m] = e /\ \A i \in 1 .. m - 1 : given'[p][i] = given[p][i]
  BY <1>1, <1>2
<1> HIDE DEF m
<1>4. \A x : GivenAt(p, x)' = GivenAt(p, x) \cup {i \in {m} : option = x}
  BY <1>1, <1>3 DEF GivenAt
<1>5. Count(p, option)' # 0 /\ LastText(p, option)' = text
  <2>1. m \in GivenAt(p, option)'
    BY <1>4
  <2>2. /\ GivenAt(p, option)' \subseteq DOMAIN given'[p] /\ GivenAt(p, option)' # {}
        /\ given'[p] \in Seq(GivenEntries)
    BY <1>2, <2>1 DEF GivenAt, GivenType
  <2>3. Count(p, option)' # 0
    BY <2>2, PlacesCounted DEF Count
  <2>4. \A j \in GivenAt(p, option)' : j \in Nat /\ j <= m
    BY <1>3, <1>4 DEF GivenAt
  <2>5. LastAt(p, option)' = m
    <3> DEFINE A == GivenAt(p, option)'
    <3> DEFINE last == CHOOSE i \in A : \A j \in A : j <= i
    <3>1. A \in SUBSET DOMAIN given'[p] /\ A # {} /\ given'[p] \in Seq(GivenEntries)
      BY <2>2
    <3>2. last \in A /\ \A j \in A : j <= last
      <4> HIDE DEF A
      <4> QED BY <3>1, LastPlace
    <3>3. LastAt(p, option)' = last
      BY DEF LastAt
    <3>4. LastAt(p, option)' \in GivenAt(p, option)' /\ m <= LastAt(p, option)'
      BY <2>1, <3>2, <3>3
    <3> QED BY <1>3, <2>4, <3>4
  <2> QED BY <1>1, <1>3, <2>3, <2>5 DEF LastText
<1>6. ASSUME NEW q \in Programs, NEW x, q # p \/ x # option
      PROVE  /\ Count(q, x)' = Count(q, x)
             /\ Count(q, x) # 0 => LastText(q, x)' = LastText(q, x)
  <2>1. GivenAt(q, x)' = GivenAt(q, x)
    <3>1. CASE q = p
      BY <1>4, <1>6, <3>1
    <3>2. CASE q # p
      BY <1>2, <3>2 DEF GivenAt
    <3> QED BY <3>1, <3>2
  <2>2. Count(q, x)' = Count(q, x) /\ LastAt(q, x)' = LastAt(q, x)
    BY <2>1 DEF Count, LastAt
  <2>3. ASSUME Count(q, x) # 0
        PROVE  LastText(q, x)' = LastText(q, x)
    <3>1. LastAt(q, x) \in DOMAIN given[q]
      <4>1. GivenAt(q, x) \subseteq DOMAIN given[q] /\ given[q] \in Seq(GivenEntries)
        BY <1>1 DEF GivenAt
      <4>2. GivenAt(q, x) # {}
        BY <2>3, <4>1, PlacesCounted DEF Count
      <4> QED BY <4>1, <4>2, LastPlace DEF LastAt
    <3>2. given'[q][LastAt(q, x)] = given[q][LastAt(q, x)]
      BY <1>2, <1>3, <3>1
    <3> QED BY <2>2, <3>2 DEF LastText
  <2> QED BY <2>2, <2>3
<1> QED BY <1>2, <1>5, <1>6

(* An option that was given has what its last text says; a number that is  *)
(* read has its option's last text and is what the digits so far say.      *)
ValueKept(p, o) ==
  Count(p, o.long) # 0 => Tells(o, values[p][o.long][1], LastText(p, o.long))
Settled(p, o) ==
  IF Count(p, o.long) = 0 THEN values[p][o.long] = o.default
    ELSE Tells(o, values[p][o.long][1], LastText(p, o.long))
NumberKept(p) ==
  /\ LastText(p, number[p].option) = number[p].text
  /\ SaysAt(number[p].text, number[p].k, number[p].written)

GivenSoFar(p) ==
  /\ pc[p] = "parse" => \A o \in OptionsOf[p] : ValueKept(p, o)
  /\ pc[p] = "number" =>
       NumberKept(p) /\ \A o \in OptionsOf[p] : o.long # number[p].option => ValueKept(p, o)
  /\ pc[p] \notin {"parse", "number", "exit"} => \A o \in OptionsOf[p] : Settled(p, o)

GivenInv == GivenType /\ \A p \in Programs : GivenSoFar(p)

LEMMA GivenStart ==
  ASSUME StartInit
  PROVE  GivenInv
<1> USE DEF StartInit, ParseInit
<1>1. GivenType
  BY DEF GivenType
<1>2. ASSUME NEW p \in Programs
      PROVE  GivenSoFar(p)
  <2>1. pc[p] = "parse" /\ given[p] = <<>>
    OBVIOUS
  <2>2. ASSUME NEW x
        PROVE  Count(p, x) = 0
    <3>1. GivenAt(p, x) = {}
      BY <2>1 DEF GivenAt
    <3> QED BY <3>1, FS_EmptySet DEF Count
  <2> QED BY <2>1, <2>2 DEF GivenSoFar, ValueKept
<1> QED BY <1>1, <1>2 DEF GivenInv

(* A program whose part of the state stays keeps what it has.              *)
LEMMA SameTexts ==
  ASSUME NEW q, given'[q] = given[q]
  PROVE  \A x : Count(q, x)' = Count(q, x) /\ LastText(q, x)' = LastText(q, x)
BY DEF Count, LastText, LastAt, GivenAt

LEMMA SameSoFar ==
  ASSUME NEW q, GivenSoFar(q), given'[q] = given[q], values'[q] = values[q],
         pc'[q] = pc[q], number'[q] = number[q]
  PROVE  GivenSoFar(q)'
BY SameTexts DEF GivenSoFar, ValueKept, Settled, NumberKept

(* A program that leaves the parser, or goes on after it, keeps the values *)
(* of its options.                                                         *)
LEMMA GivenMove ==
  ASSUME NumberInv, GivenInv, NEW p \in Programs, NEW label, Goto(p, label),
         UNCHANGED <<given, values, number>>,
         \/ label = "exit"
         \/ pc[p] \notin {"parse", "number", "exit"} /\ label \notin {"parse", "number"}
  PROVE  GivenInv'
<1>1. pc' = [pc EXCEPT ![p] = label] /\ pc \in [Programs -> Labels]
  BY DEF Goto, NumberInv, ArgumentsOK
<1>2. pc'[p] = label /\ \A q \in Programs : q # p => pc'[q] = pc[q]
  BY <1>1
<1>3. \A q \in Programs : q # p => GivenSoFar(q)'
  BY <1>2, SameSoFar DEF GivenInv
<1>4. GivenSoFar(p)'
  BY <1>2, SameTexts DEF GivenInv, GivenSoFar, Settled
<1>5. GivenType'
  BY DEF GivenInv, GivenType
<1> QED BY <1>3, <1>4, <1>5 DEF GivenInv

(* The value of one option is stored.                                      *)
LEMMA Stored ==
  ASSUME OptionTypes, NEW p \in Programs, NEW o \in OptionsOf[p], NEW value, Store(p, o, value)
  PROVE  /\ values'[p][o.long] = <<value>>
         /\ \A q \in Programs : q # p => values'[q] = values[q]
         /\ \A a \in OptionsOf[p] : a # o => values'[p][a.long] = values[p][a.long]
<1>1. o.long \in Options(p) /\ DOMAIN values = Programs /\ DOMAIN values[p] = Options(p)
  BY DEF Options, OptionTypes
<1>2. \A a \in OptionsOf[p] : a.long \in Options(p) /\ (a # o => a.long # o.long)
  BY OptionsApart DEF Options
<1> QED BY <1>1, <1>2 DEF Store

LEMMA TakeDigitGiven ==
  ASSUME NumberInv, GivenInv, NEW p \in Programs, TakeDigit(p)
  PROVE  GivenInv'
<1> DEFINE n == number[p]
<1> DEFINE w == n.written * n.text.base + Digit(p)
<1>1. /\ pc[p] = "number" /\ n \in Numbers /\ n.text \in Texts /\ n.k \in Nat
      /\ n.k < Len(n.text.digits) /\ n.written \in Nat
  BY AtDigitTypes DEF TakeDigit, AtDigit
<1>2. SaysAt(n.text, n.k, n.written) /\ LastText(p, n.option) = n.text
  BY <1>1 DEF GivenInv, GivenSoFar, NumberKept
<1>3. SaysAt(n.text, n.k + 1, w)
  <2> HIDE DEF n
  <2>1. SaysAt(n.text, n.k + 1, n.written * n.text.base + n.text.digits[n.k + 1])
    BY <1>1, <1>2, SaysNextDigit
  <2> QED BY <2>1 DEF Digit, n
<1> DEFINE next == [n EXCEPT !.k = @ + 1, !.result = NextResult(p), !.written = w]
<1>4. number' = [number EXCEPT ![p] = next] /\ number \in [Programs -> Numbers]
      /\ UNCHANGED <<pc, values, given>>
  BY DEF TakeDigit, NumberInv, ArgumentsOK
<1>5. next.option = n.option /\ next.text = n.text /\ next.k = n.k + 1 /\ next.written = w
  <2> HIDE DEF w
  <2> QED BY <1>1 DEF Numbers
<1> HIDE DEF next
<1>6. number'[p] = next /\ \A q \in Programs : q # p => number'[q] = number[q]
  BY <1>4
<1>7. \A q \in Programs : q # p => GivenSoFar(q)'
  BY <1>4, <1>6, SameSoFar DEF GivenInv
<1>8. GivenSoFar(p)'
  <2>1. NumberKept(p)'
    <3>1. PICK x : x = n.option
      OBVIOUS
    <3>2. LastText(p, x)' = n.text
      BY <1>2, <1>4, <3>1, SameTexts
    <3>3. number'[p].option = x
      BY <1>5, <1>6, <3>1
    <3> HIDE DEF n, w
    <3> QED BY <1>3, <1>5, <1>6, <3>2, <3>3 DEF NumberKept
  <2>2. \A o \in OptionsOf[p] : o.long # number'[p].option => ValueKept(p, o)'
    <3>1. \A o \in OptionsOf[p] : o.long # n.option => ValueKept(p, o)
      BY <1>1 DEF GivenInv, GivenSoFar
    <3> QED BY <1>4, <1>5, <1>6, <3>1, SameTexts DEF ValueKept
  <2>3. pc'[p] = "number"
    BY <1>1, <1>4
  <2> QED BY <2>1, <2>2, <2>3 DEF GivenSoFar
<1>9. GivenType'
  BY <1>4 DEF GivenInv, GivenType
<1> QED BY <1>7, <1>8, <1>9 DEF GivenInv

LEMMA FinishGiven ==
  ASSUME NumberInv, OptionTypes, GivenInv, NEW p \in Programs, FinishNumber(p)
  PROVE  GivenInv'
<1> DEFINE n == number[p]
<1>1. /\ pc[p] = "number" /\ n.k = Len(n.text.digits) /\ n.text \in Texts /\ n.written \in Nat
      /\ n.result = n.written % Modulus(NumberOption(p))
  BY DEF FinishNumber, AtEndOfNumber, NumberInv, NumberSoFar, ArgumentsOK, Numbers
<1>2. PICK o \in OptionsOf[p] : n.option = o.long /\ IsInteger(o)
  BY <1>1 DEF OptionTypes
<1>3. NumberOption(p) = o
  BY <1>2, OptionByName DEF NumberOption
<1> DEFINE value == Signed(n.text, n.result)
<1>4. Store(p, o, value) /\ Goto(p, "parse") /\ UNCHANGED <<given, number>>
  BY <1>3 DEF FinishNumber
<1>5. SaysAt(n.text, n.k, n.written) /\ LastText(p, o.long) = n.text
      /\ \A a \in OptionsOf[p] : a.long # o.long => ValueKept(p, a)
  BY <1>1, <1>2 DEF GivenInv, GivenSoFar, NumberKept
<1>6. Tells(o, value, n.text)
  <2>1. Written(n.text) = Signed(n.text, n.written)
    BY <1>1, <1>5, SaysWritten
  <2>2. Tells(o, Signed(n.text, n.written % Modulus(o)), n.text)
    <3> HIDE DEF n
    <3> QED BY <1>1, <1>2, <2>1, RemainderTells
  <2> QED BY <1>1, <1>3, <2>2
<1> HIDE DEF value
<1>7. /\ values'[p][o.long] = <<value>>
      /\ \A q \in Programs : q # p => values'[q] = values[q]
      /\ \A a \in OptionsOf[p] : a # o => values'[p][a.long] = values[p][a.long]
  BY <1>4, Stored
<1>8. pc'[p] = "parse" /\ \A q \in Programs : q # p => pc'[q] = pc[q]
  BY <1>4 DEF Goto, NumberInv, ArgumentsOK
<1>9. \A q \in Programs : q # p => GivenSoFar(q)'
  BY <1>4, <1>7, <1>8, SameSoFar DEF GivenInv
<1>10. ASSUME NEW a \in OptionsOf[p]
       PROVE  ValueKept(p, a)'
  <2>1. LastText(p, a.long)' = LastText(p, a.long) /\ Count(p, a.long)' = Count(p, a.long)
    BY <1>4, SameTexts
  <2>2. CASE a = o
    BY <1>5, <1>6, <1>7, <2>1, <2>2 DEF ValueKept
  <2>3. CASE a # o
    <3>1. a.long # o.long
      BY <2>3, OptionsApart
    <3> QED BY <1>5, <1>7, <2>1, <2>3, <3>1 DEF ValueKept
  <2> QED BY <2>2, <2>3
<1>11. GivenSoFar(p)'
  BY <1>8, <1>10 DEF GivenSoFar
<1>12. GivenType'
  BY <1>4 DEF GivenInv, GivenType
<1> QED BY <1>9, <1>11, <1>12 DEF GivenInv

(* The text of an option that is taken is of the command line or implicit. *)
LEMMA TextForAny ==
  ASSUME ArgumentsOK, NEW p \in Programs, AtOption(p), ~LacksArgument(p)
  PROVE  TextFor(p) \in GivenTexts
<1>1. CASE ~HasImplicit(Details(p))
  BY <1>1, TextForType DEF GivenTexts
<1>2. CASE HasImplicit(Details(p))
  <2>1. argv[p] \in Seq(Arguments) /\ current[p] \in 1 .. Len(argv[p])
    BY DEF AtOption, AtArgument, ArgumentsOK
  <2>2. Argument(p) \in Arguments
    BY <2>1 DEF Argument
  <2>3. Argument(p).equals \in Seq(Texts)
    BY <2>2 DEF Arguments
  <2>4. Argument(p).equals # <<>> => Argument(p).equals[1] \in Texts
    BY <2>3
  <2> QED BY <1>2, <2>4 DEF TextFor, GivenTexts
<1> QED BY <1>1, <1>2

LEMMA TakeOptionGiven ==
  ASSUME NumberInv, OptionTypes, GivenInv, NEW p \in Programs, TakeOption(p)
  PROVE  GivenInv'
<1>1. AtOption(p) /\ Acceptable(p) /\ pc[p] = "parse"
      /\ ParseOption(p, Details(p), TextFor(p))
  BY DEF TakeOption, AtOption, AtArgument
<1> SUFFICES ASSUME NEW o, NEW text, o = Details(p), text = TextFor(p)
             PROVE  GivenInv'
  OBVIOUS
<1>2. o \in OptionsOf[p] /\ o.long \in OptionNames
  <2>1. o \in Matching(p)
    BY <1>1 DEF Acceptable, Details
  <2>2. o \in OptionsOf[p]
    BY <2>1 DEF Matching
  <2>3. o.long \in Options(p)
    BY <2>2 DEF Options
  <2> QED BY <2>2, <2>3 DEF OptionNames
<1>3. text \in GivenTexts
  BY <1>1, TextForAny DEF Acceptable, NumberInv
<1>4. /\ GivenType' /\ Count(p, o.long)' # 0 /\ LastText(p, o.long)' = text
      /\ \A q \in Programs : \A x : q # p \/ x # o.long =>
           /\ Count(q, x)' = Count(q, x)
           /\ Count(q, x) # 0 => LastText(q, x)' = LastText(q, x)
  <2>1. given' = [given EXCEPT ![p] = Append(@, [option |-> o.long, text |-> text])]
    BY <1>1 DEF ParseOption
  <2> QED BY <1>2, <1>3, <2>1, GiveText DEF GivenInv
<1>5. \A q \in Programs : q # p => given'[q] = given[q]
  BY <1>1 DEF ParseOption, GivenInv, GivenType
<1>6. /\ \A a \in OptionsOf[p] : ValueKept(p, a)
      /\ \A a \in OptionsOf[p] : a # o => a.long # o.long
  BY <1>1, <1>2, OptionsApart DEF GivenInv, GivenSoFar
<1>7. CASE IsInteger(o)
  <2> DEFINE start == [option |-> o.long, text |-> text, k |-> 0, result |-> 0, written |-> 0]
  <2>1. /\ number' = [number EXCEPT ![p] = start] /\ pc' = [pc EXCEPT ![p] = "number"]
        /\ UNCHANGED values /\ pc \in [Programs -> Labels] /\ number \in [Programs -> Numbers]
    BY <1>1, <1>7 DEF ParseOption, Goto, NumberInv, ArgumentsOK
  <2>2. start.option = o.long /\ start.text = text /\ start.k = 0 /\ start.written = 0
    OBVIOUS
  <2> HIDE DEF start
  <2>3. /\ number'[p] = start /\ pc'[p] = "number"
        /\ \A q \in Programs : q # p => number'[q] = number[q] /\ pc'[q] = pc[q]
    BY <2>1
  <2>4. \A q \in Programs : q # p => GivenSoFar(q)'
    BY <1>5, <2>1, <2>3, SameSoFar DEF GivenInv
  <2>5. text \in Texts
    <3>1. ~HasImplicit(Details(p))
      BY <1>7 DEF IsInteger, HasImplicit
    <3> QED BY <1>1, <3>1, TextForType DEF Acceptable, NumberInv
  <2>6. NumberKept(p)'
    BY <1>4, <2>2, <2>3, <2>5, SaysNothing DEF NumberKept
  <2>7. \A a \in OptionsOf[p] : a.long # o.long => ValueKept(p, a)'
    BY <1>4, <1>6, <2>1 DEF ValueKept
  <2>8. GivenSoFar(p)'
    BY <2>2, <2>3, <2>6, <2>7 DEF GivenSoFar
  <2> QED BY <1>4, <2>4, <2>8 DEF GivenInv
<1>8. CASE ~IsInteger(o)
  <2>1. UNCHANGED <<pc, number>> /\ Store(p, o, ValueOf(o, text))
    BY <1>1, <1>8 DEF ParseOption
  <2>2. /\ values'[p][o.long] = <<ValueOf(o, text)>>
        /\ \A q \in Programs : q # p => values'[q] = values[q]
        /\ \A a \in OptionsOf[p] : a # o => values'[p][a.long] = values[p][a.long]
    BY <1>2, <2>1, Stored
  <2>3. \A q \in Programs : q # p => GivenSoFar(q)'
    BY <1>5, <2>1, <2>2, SameSoFar DEF GivenInv
  <2>4. ASSUME NEW a \in OptionsOf[p]
        PROVE  ValueKept(p, a)'
    <3>1. CASE a = o
      BY <1>4, <1>8, <2>2, <3>1 DEF ValueKept, Tells
    <3>2. CASE a # o
      BY <1>4, <1>6, <2>2, <3>2 DEF ValueKept
    <3> QED BY <3>1, <3>2
  <2>5. GivenSoFar(p)'
    BY <1>1, <2>1, <2>4 DEF GivenSoFar
  <2> QED BY <1>4, <2>3, <2>5 DEF GivenInv
<1> QED BY <1>7, <1>8

(* An option that was not given gets its default, the others stay.         *)
LEMMA DefaultsGiven ==
  ASSUME NumberInv, OptionTypes, GivenInv, NEW p \in Programs, ParseDefaults(p)
  PROVE  GivenInv'
<1>1. /\ pc' = [pc EXCEPT ![p] = "parsed"] /\ pc \in [Programs -> Labels] /\ pc[p] = "parse"
      /\ UNCHANGED <<given, number>>
  BY DEF ParseDefaults, AtEndOfArguments, Goto, NumberInv, ArgumentsOK
<1> DEFINE taken == [option \in Options(p) |->
             IF Count(p, option) = 0 THEN OptionNamed(p, option).default ELSE values[p][option]]
<1>2. /\ values' = [values EXCEPT ![p] = taken] /\ DOMAIN values = Programs
  BY DEF ParseDefaults, OptionTypes
<1>3. \A a \in OptionsOf[p] :
        taken[a.long] = IF Count(p, a.long) = 0 THEN a.default ELSE values[p][a.long]
  BY OptionByName DEF Options
<1> HIDE DEF taken
<1>4. values'[p] = taken /\ \A q \in Programs : q # p => values'[q] = values[q]
  BY <1>2
<1>5. pc'[p] = "parsed" /\ \A q \in Programs : q # p => pc'[q] = pc[q]
  BY <1>1
<1>6. \A q \in Programs : q # p => GivenSoFar(q)'
  BY <1>1, <1>4, <1>5, SameSoFar DEF GivenInv
<1>7. ASSUME NEW a \in OptionsOf[p]
      PROVE  Settled(p, a)'
  <2>1. LastText(p, a.long)' = LastText(p, a.long) /\ Count(p, a.long)' = Count(p, a.long)
    BY <1>1, SameTexts
  <2>2. ValueKept(p, a)
    BY <1>1 DEF GivenInv, GivenSoFar
  <2> QED BY <1>3, <1>4, <2>1, <2>2 DEF ValueKept, Settled
<1>8. GivenSoFar(p)'
  BY <1>5, <1>7 DEF GivenSoFar
<1>9. GivenType'
  BY <1>1 DEF GivenInv, GivenType
<1> QED BY <1>6, <1>8, <1>9 DEF GivenInv

LEMMA ParseGiven ==
  ASSUME NumberInv, OptionTypes, GivenInv, NEW p \in Programs, Parse(p)
  PROVE  GivenInv'
<1>1. CASE Throw(p)
  BY <1>1, GivenMove DEF Throw
<1>2. CASE Word(p)
  BY <1>2, SameSoFar DEF Word, GivenInv, GivenType
<1> QED BY <1>1, <1>2, TakeDigitGiven, FinishGiven, TakeOptionGiven, DefaultsGiven
      DEF Parse, RefuseDigit, RefuseNumber, Malformed, RefuseOption

LEMMA GivenKeeps ==
  ASSUME NumberInv, OptionTypes, GivenInv, [StartNext]_startVars
  PROVE  GivenInv'
<1>1. CASE UNCHANGED parseVars
  BY <1>1, SameSoFar DEF parseVars, GivenInv, GivenType
<1>2. CASE ParseNext
  BY <1>2, ParseGiven DEF ParseNext
<1>3. ASSUME NEW p \in Programs, NEW label, label \notin {"parse", "number"},
             pc[p] \notin {"parse", "number", "exit"}, Continue(p, label)
      PROVE  GivenInv'
  BY <1>3, GivenMove DEF Continue, optionVars
<1>4. ASSUME NEW p \in Programs, NEW code, Exit(p, code)
      PROVE  GivenInv'
  BY <1>4, GivenMove DEF Exit, optionVars
<1>5. "serve" \in Programs /\ "cli" \in Programs
  BY ProgramsAssumption
<1>6. CASE ServeHelp \/ RunServer
  BY <1>3, <1>4, <1>5, <1>6 DEF ServeHelp, RunServer
<1>7. CASE CliRefuse
  BY <1>5, <1>7, GivenMove DEF CliRefuse, Throw
<1>8. CASE RunClient
  BY <1>3, <1>4, <1>5, <1>8 DEF RunClient
<1>9. CASE \E p \in Programs : NoSocket(p)
  BY <1>4, <1>9 DEF NoSocket
<1>10. CASE CreateServer \/ CreateServerFails \/ CreateClient
  BY <1>3, <1>4, <1>5, <1>10 DEF CreateServer, CreateServerFails, CreateClient
<1>11. CASE Connect \/ ConnectFails \/ ReadSucceed \/ ReadFail
  BY <1>3, <1>4, <1>5, <1>11 DEF Connect, ConnectFails, ReadSucceed, ReadFail
<1> QED BY <1>1, <1>2, <1>6, <1>7, <1>8, <1>9, <1>10, <1>11 DEF StartNext, startVars, ServerLoad

(* For every command line: once the arguments have been read, and for as   *)
(* long as the program runs, each option has what the last text given for  *)
(* it says, read digit by digit, a number modulo the width of its type and *)
(* exactly if it fits; or its default, if none was given.                  *)
THEOREM ValuesAreAsGiven == StartSpec => []ValuesAsGiven
<1>1. StartInit => NumberInv /\ OptionTypes /\ GivenInv
  BY StartsWithNoNumber, OptionTypesStart, GivenStart
<1>2. NumberInv /\ OptionTypes /\ GivenInv /\ [StartNext]_startVars
        => (NumberInv /\ OptionTypes /\ GivenInv)'
  BY StartKeepsNumber, OptionTypesKeep, GivenKeeps
<1>3. GivenInv => ValuesAsGiven
  BY DEF GivenInv, GivenSoFar, Settled, ValuesAsGiven
<1> QED BY <1>1, <1>2, <1>3, PTL DEF StartSpec

=============================================================================
