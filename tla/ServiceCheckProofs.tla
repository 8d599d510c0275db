------------------------- MODULE ServiceCheckProofs -------------------------
(***************************************************************************)
(* What service-check accepts, prints and reports, for every width of the  *)
(* representation, every unit, every bound of the port and every argument, *)
(* when the buffer of serialize() holds the longest number.                *)
(***************************************************************************)
EXTENDS ServiceCheck, TLAPS

\* The calls that follow the construction of the ServiceConfig.
Configured == {"serialize port", "serialize timeout", "printed"}

\* The calls that follow each check that passed.
HostKnown == {"parse port", "check port", "parse timeout", "check timeout"}
PortKnown == {"parse timeout", "check timeout"} \cup Configured
Counted == {"host"} \cup HostKnown \cup Configured

\* What each check established, as long as the run goes on.
CountChecked == pc \in Counted => Len(argv) = 3
HostChecked == pc \in HostKnown \cup Configured => argv[1] # Empty
PortParsed ==
  pc \in {"check port"} \cup PortKnown =>
    port \in Rep /\ argv[2] = Number(port, FALSE)
PortChecked == pc \in PortKnown => PortInRange(port)
TimeoutParsed ==
  pc = "check timeout" => timeout \in Rep /\ argv[3] = Number(timeout, FALSE)
TimeoutConverted ==
  pc \in Configured =>
    \E n \in Rep : /\ TimeoutInRange(n)
                   /\ argv[3] = Number(n, FALSE)
                   /\ timeout = n * Millisecond

Checked ==
  /\ argv \in UNION {[1 .. n -> Argument] : n \in 2 .. 4}
  /\ pc \in {"arguments", "failed"} \cup Counted
  /\ CountChecked /\ HostChecked
  /\ PortParsed /\ PortChecked
  /\ TimeoutParsed /\ TimeoutConverted
  /\ AcceptsExactlyValid /\ PrintsWhatWasAsked /\ ReportsFirstFault

-----------------------------------------------------------------------------
(* Arithmetic.                                                             *)

LEMMA RepBounds == \A x \in Int : x \in Rep <=> -MaxRep - 1 <= x /\ x <= MaxRep
BY RepAssumption DEF Rep

LEMMA RepInt == Rep \subseteq Int
BY RepAssumption DEF Rep

LEMMA DivideBound ==
  ASSUME NEW x \in Nat, NEW m \in Nat \ {0}, NEW n \in Nat
  PROVE  n <= x \div m <=> n * m <= x
<1>1. /\ x \div m \in Nat
      /\ (x \div m) * m <= x /\ x < (x \div m) * m + m
  OBVIOUS
<1>2. ASSUME n <= x \div m PROVE n * m <= (x \div m) * m
  BY <1>1, <1>2
<1>3. ASSUME x \div m + 1 <= n PROVE (x \div m) * m + m <= n * m
  BY <1>1, <1>3
<1>4. n * m \in Int /\ (x \div m) * m \in Int
  BY <1>1
<1> QED
  BY <1>1, <1>2, <1>3, <1>4

LEMMA DivideProduct ==
  ASSUME NEW m \in Nat \ {0}, NEW n \in Nat
  PROVE  (n * m) \div m = n
OBVIOUS

LEMMA SmallRemainder ==
  ASSUME NEW m \in Nat \ {0}, NEW n \in Nat, n < m
  PROVE  n % m = n
OBVIOUS

LEMMA ProductIsLarger ==
  ASSUME NEW m \in Nat \ {0}, NEW n \in Nat
  PROVE  n * m \in Nat /\ n <= n * m
OBVIOUS

-----------------------------------------------------------------------------
(* Texts.                                                                  *)

\* The fields of a result.
LEMMA Fields ==
  ASSUME NEW x, NEW code, NEW position
  PROVE  /\ Success(x).ok /\ Success(x).value = x
         /\ ~Failure(code, position).ok
         /\ Failure(code, position).error.code = code
         /\ Failure(code, position).error.position = position
BY DEF Success, Failure

\* The fields of a text that is a number.
LEMMA NumberFields ==
  ASSUME NEW n, NEW tail
  PROVE  /\ Number(n, tail).form = "number"
         /\ Number(n, tail).number = n
         /\ Number(n, tail).tail = tail
BY DEF Number

\* A number and nothing else.
Plain(text) ==
  /\ text.form = "number" /\ text.number \in Rep /\ ~text.tail
  /\ text = Number(text.number, FALSE)

\* What parse() answers about a text that is not plain.
Refusal(text, code, position) ==
  \/ text.form # "number" /\ code # "out_of_range" /\ position = 0
  \/ /\ text.form = "number" /\ text.number \in Int \ Rep
     /\ code = "out_of_range" /\ position = 0
  \/ /\ text.form = "number" /\ text.number \in Rep /\ text.tail
     /\ code # "out_of_range" /\ position = After

\* What parse() makes of an argument: its number, or the reason it has none.
LEMMA Parsed ==
  ASSUME NEW text \in Argument
  PROVE  \/ Plain(text) /\ ParseIntegral(text) = Success(text.number)
         \/ \E code, position : /\ ParseIntegral(text) = Failure(code, position)
                                /\ Refusal(text, code, position)
<1>1. CASE text \in {Empty, Word}
  <2>1. text.form # "number"
    BY <1>1 DEF Empty, Word
  <2>2. \/ ParseIntegral(text) = Failure("empty_input", 0)
        \/ ParseIntegral(text) = Failure("invalid_value", 0)
    BY <2>1 DEF ParseIntegral, FromChars
  <2>3. /\ Refusal(text, "empty_input", 0)
        /\ Refusal(text, "invalid_value", 0)
    BY <2>1 DEF Refusal
  <2> QED
    BY <2>2, <2>3
<1>2. CASE /\ text = Number(text.number, text.tail)
           /\ text.number \in Int /\ text.tail \in BOOLEAN
  <2>1. text.form = "number" /\ text # Empty
    BY <1>2 DEF Number, Empty
  <2>2. ParseIntegral(text) = FromChars(text)
    BY <2>1 DEF ParseIntegral
  <2>3. CASE text.number \notin Rep
    <3>1. ParseIntegral(text) = Failure("out_of_range", 0)
      BY <2>1, <2>2, <2>3 DEF FromChars
    <3>2. Refusal(text, "out_of_range", 0)
      BY <1>2, <2>1, <2>3 DEF Refusal
    <3> QED BY <3>1, <3>2
  <2>4. CASE text.number \in Rep /\ text.tail
    <3>1. ParseIntegral(text) = Failure("trailing_characters", After)
      BY <2>1, <2>2, <2>4 DEF FromChars
    <3>2. Refusal(text, "trailing_characters", After)
      BY <2>1, <2>4 DEF Refusal
    <3> QED BY <3>1, <3>2
  <2>5. CASE text.number \in Rep /\ ~text.tail
    <3>1. ParseIntegral(text) = Success(text.number)
      BY <2>1, <2>2, <2>5 DEF FromChars
    <3>2. text.tail = FALSE
      BY <1>2, <2>5
    <3>3. Plain(text)
      BY <1>2, <2>1, <2>5, <3>2, Zenon DEF Plain
    <3> QED BY <3>1, <3>3
  <2> QED
    BY <1>2, <2>3, <2>4, <2>5
<1> QED
  BY <1>1, <1>2, ArgumentAssumption

LEMMA Accepted ==
  ASSUME NEW text \in Argument, ParseIntegral(text).ok
  PROVE  Plain(text) /\ ParseIntegral(text).value = text.number
<1>1. ASSUME NEW code, NEW position, ParseIntegral(text) = Failure(code, position)
      PROVE  FALSE
  BY <1>1, Fields
<1> QED
  BY <1>1, Parsed, Fields

LEMMA Refused ==
  ASSUME NEW text \in Argument, ~ParseIntegral(text).ok
  PROVE  LET e == ParseIntegral(text).error IN
         Refusal(text, e.code, e.position)
<1>1. ParseIntegral(text) # Success(text.number)
  BY Fields
<1>2. PICK code, position : /\ ParseIntegral(text) = Failure(code, position)
                            /\ Refusal(text, code, position)
  BY <1>1, Parsed
<1> QED
  BY <1>2, Fields

\* The error made of a fault of the parser is the one the text deserves.
LEMMA ParseFaultIsFault ==
  ASSUME NEW text \in Argument, ~ParseIntegral(text).ok,
         NEW high, NEW range, NEW invalid
  PROVE  ParseFault(ParseIntegral(text).error, range, invalid)
           = Fault(text, high, range, invalid)
<1>1. PICK e : e = ParseIntegral(text).error
  OBVIOUS
<1>2. Refusal(text, e.code, e.position)
  BY <1>1, Refused
<1>3. ParseFault(e, range, invalid) = Fault(text, high, range, invalid)
  BY <1>2 DEF ParseFault, Fault, Refusal, After
<1> QED
  BY <1>1, <1>3

\* A text the parser refuses is no number of the service.
LEMMA RefusedIsNotWhole ==
  ASSUME NEW text \in Argument, ~ParseIntegral(text).ok,
         NEW scale, NEW high \in Rep
  PROVE  ~Whole(text, 1, scale, high)
<1>1. ASSUME text.number \in Int, 1 <= text.number, text.number <= high
      PROVE  text.number \in Rep
  <2>1. high \in Int /\ high <= MaxRep
    BY RepBounds, RepInt
  <2> QED BY <1>1, <2>1, RepBounds, RepAssumption
<1> QED
  BY <1>1, Refused DEF Whole, Refusal

\* The port is in range exactly when it is whole, and then no fault.
LEMMA PortVerdict ==
  ASSUME NEW n \in Rep, NEW text, text = Number(n, FALSE)
  PROVE  /\ PortInRange(n) <=> Whole(text, 1, 1, MaximumPort)
         /\ Fault(text, MaximumPort, "port_out_of_range", "invalid_port")
              = IF PortInRange(n) THEN None
                ELSE InvalidConfiguration("port_out_of_range", 0)
<1>1. n \in Int /\ n * 1 = n /\ MaximumPort \in Int
  BY RepInt, PortAssumption
<1>2. text.form = "number" /\ text.number = n /\ text.tail = FALSE
  BY DEF Number
<1>3. PortInRange(n) <=> n \in 1 .. MaximumPort
  BY <1>1 DEF PortInRange
<1> QED
  BY <1>1, <1>2, <1>3 DEF Whole, Fault, PortInRange

\* The bound on the timeout is that of its conversion to nanoseconds.
LEMMA TimeoutVerdict ==
  ASSUME NEW n \in Rep, NEW text, text = Number(n, FALSE)
  PROVE  /\ TimeoutInRange(n) <=> Whole(text, 1, Millisecond, MaxRep)
         /\ Fault(text, MaxRep \div Millisecond,
                  "timeout_out_of_range", "invalid_timeout")
              = IF TimeoutInRange(n) THEN None
                ELSE InvalidConfiguration("timeout_out_of_range", 0)
<1>1. /\ n \in Int /\ MaxRep \in Nat /\ Millisecond \in Nat \ {0}
      /\ MaxRep \div Millisecond \in Int /\ n <= MaxRep
  BY RepInt, RepBounds, RepAssumption, MillisecondAssumption
<1>2. text.form = "number" /\ text.number = n /\ text.tail = FALSE
  BY DEF Number
<1>3. TimeoutInRange(n) <=> n \in 1 .. (MaxRep \div Millisecond)
  BY <1>1 DEF TimeoutInRange, MaximumTimeout
<1>4. ASSUME n >= 1
      PROVE  n <= MaxRep \div Millisecond <=> n * Millisecond \in Rep
  <2>1. n \in Nat
    BY <1>1, <1>4
  <2>2. n * Millisecond \in Nat
    BY <1>1, <2>1, ProductIsLarger
  <2>3. n * Millisecond \in Rep <=> n * Millisecond <= MaxRep
    <3> PICK p \in Nat : p = n * Millisecond
      BY <2>2
    <3> QED BY <1>1, RepBounds
  <2> QED BY <1>1, <2>1, <2>3, DivideBound
<1>5. TimeoutInRange(n) <=> Whole(text, 1, Millisecond, MaxRep)
  <2>1. PICK product, high : product = n * Millisecond
                             /\ high = MaxRep \div Millisecond
    OBVIOUS
  <2>2. TimeoutInRange(n) <=> 0 < n /\ n <= high
    BY <2>1 DEF TimeoutInRange, MaximumTimeout
  <2>3. Whole(text, 1, Millisecond, MaxRep) <=> 1 <= n /\ product \in Rep
    BY <1>1, <1>2, <2>1 DEF Whole
  <2>4. n >= 1 => (n <= high <=> product \in Rep)
    BY <1>4, <2>1
  <2>5. 0 < n <=> 1 <= n
    BY <1>1
  <2>6. 1 <= n <=> n >= 1
    BY <1>1
  <2> QED BY <2>2, <2>3, <2>4, <2>5, <2>6, Zenon
<1>6. PICK high : high = MaxRep \div Millisecond
  OBVIOUS
<1>7. Fault(text, high, "timeout_out_of_range", "invalid_timeout")
        = IF n \in 1 .. high THEN None
          ELSE InvalidConfiguration("timeout_out_of_range", 0)
  BY <1>2 DEF Fault
<1> QED
  BY <1>3, <1>5, <1>6, <1>7

\* A timeout within the bound survives the two conversions.
LEMMA TimeoutConverts ==
  ASSUME NEW n \in Rep, TimeoutInRange(n)
  PROVE  /\ Milliseconds(n) = {n * Millisecond}
         /\ CountMilliseconds(n * Millisecond) = n
<1>1. n \in Nat /\ Millisecond \in Nat \ {0} /\ n >= 1
  BY RepInt, MillisecondAssumption DEF TimeoutInRange
<1>2. n * Millisecond \in Rep
  <2>1. Whole(Number(n, FALSE), 1, Millisecond, MaxRep)
    BY TimeoutVerdict
  <2> QED BY <2>1, NumberFields DEF Whole
<1>3. n * Millisecond \in Nat
  BY <1>1, ProductIsLarger
<1>4. CountMilliseconds(n * Millisecond) = (n * Millisecond) \div Millisecond
  <2>1. \A p \in Nat : CountMilliseconds(p) = p \div Millisecond
    BY <1>1 DEF CountMilliseconds, Quotient, Magnitude
  <2> QED BY <1>3, <2>1
<1> QED
  BY <1>1, <1>2, <1>4, DivideProduct DEF Milliseconds, Arith

\* A buffer for the longest number fits every number.
LEMMA Serializes ==
  ASSUME Digits < Buffer, NEW n \in Int
  PROVE  SerializeIntegral(n) = Success(Number(n, FALSE))
<1>1. /\ Digits + 1 <= Buffer /\ Digits <= Buffer
      /\ Digits + 1 \in Int /\ Digits \in Int /\ Buffer \in Int
  BY BufferAssumption
<1>2. ~((IF n < 0 THEN Digits + 1 ELSE Digits) > Buffer)
  BY <1>1
<1> QED
  BY <1>2, Zenon DEF SerializeIntegral

\* Three arguments.
LEMMA Arguments ==
  ASSUME argv \in UNION {[1 .. n -> Argument] : n \in 2 .. 4}
  PROVE  Len(argv) = 3 =>
           argv[1] \in Argument /\ argv[2] \in Argument /\ argv[3] \in Argument
<1>1. PICK n \in 2 .. 4 : argv \in [1 .. n -> Argument]
  OBVIOUS
<1>2. Len(argv) = n
  BY <1>1
<1> QED
  BY <1>1, <1>2

-----------------------------------------------------------------------------
(* The steps.                                                              *)

\* The error that the leftmost wrong argument deserves.
PortFault ==
  Fault(argv[2], MaximumPort, "port_out_of_range", "invalid_port")
TimeoutFault ==
  Fault(argv[3], MaxRep \div Millisecond,
        "timeout_out_of_range", "invalid_timeout")
Diagnosis ==
  IF Len(argv) # 3 THEN InvalidArguments
  ELSE IF argv[1] = Empty THEN InvalidConfiguration("empty_host", 0)
  ELSE IF PortFault # None THEN PortFault ELSE TimeoutFault

LEMMA FaultIsAnError ==
  ASSUME NEW text, NEW high
  PROVE  /\ ~Plain(text) /\ text \in Argument =>
              Fault(text, high, "port_out_of_range", "invalid_port") # None
         /\ InvalidConfiguration("port_out_of_range", 0) # None
<1>1. /\ InvalidConfiguration("invalid_port", 0) # None
      /\ InvalidConfiguration("invalid_port", After) # None
      /\ InvalidConfiguration("port_out_of_range", 0) # None
  BY NoneAssumption
<1>2. ASSUME ~Plain(text), text \in Argument
      PROVE  \/ text.form # "number" \/ text.number \notin Rep \/ text.tail
  BY <1>2, Parsed DEF Refusal
<1> QED
  BY <1>1, <1>2 DEF Fault

\* A run that ends on a wrong argument with its error.
LEMMA FailingStep ==
  ASSUME Checked, argv' = argv, pc' = "failed",
         ~Valid, error' = Diagnosis
  PROVE  Checked'
<1>1. /\ argv' \in UNION {[1 .. n -> Argument] : n \in 2 .. 4}
      /\ pc' \in {"arguments", "failed"} \cup Counted
  BY DEF Checked
<1>2. /\ CountChecked' /\ HostChecked' /\ PortParsed' /\ PortChecked'
      /\ TimeoutParsed' /\ TimeoutConverted'
  BY DEF CountChecked, HostChecked, PortParsed, PortChecked, TimeoutParsed,
         TimeoutConverted, Counted, HostKnown, PortKnown, Configured
<1>3. AcceptsExactlyValid' /\ PrintsWhatWasAsked'
  BY DEF AcceptsExactlyValid, PrintsWhatWasAsked, Valid
<1>4. ReportsFirstFault'
  BY DEF ReportsFirstFault, Diagnosis, PortFault, TimeoutFault
<1> QED
  BY <1>1, <1>2, <1>3, <1>4 DEF Checked

\* The properties speak of the end of a run.
LEMMA GoingOn ==
  ASSUME pc' \notin {"printed", "failed"}
  PROVE  AcceptsExactlyValid' /\ PrintsWhatWasAsked' /\ ReportsFirstFault'
BY DEF AcceptsExactlyValid, PrintsWhatWasAsked, ReportsFirstFault

LEMMA InitChecked == Init => Checked
<1> SUFFICES ASSUME Init PROVE Checked
  OBVIOUS
<1>1. /\ CountChecked /\ HostChecked /\ PortParsed /\ PortChecked
      /\ TimeoutParsed /\ TimeoutConverted
  BY DEF Init, CountChecked, HostChecked, PortParsed, PortChecked,
         TimeoutParsed, TimeoutConverted, Counted, HostKnown, PortKnown,
         Configured
<1>2. AcceptsExactlyValid /\ PrintsWhatWasAsked /\ ReportsFirstFault
  BY DEF Init, AcceptsExactlyValid, PrintsWhatWasAsked, ReportsFirstFault
<1> QED
  BY <1>1, <1>2 DEF Init, Checked

LEMMA CheckArgumentsStep == Checked /\ CheckArguments => Checked'
<1> SUFFICES ASSUME Checked, CheckArguments PROVE Checked'
  OBVIOUS
<1>1. argv' = argv
  BY DEF CheckArguments
<1>2. CASE Len(argv) # 3
  <2>1. pc' = "failed" /\ error' = Diagnosis
    BY <1>2 DEF CheckArguments, Exit, Goto, Diagnosis
  <2>2. ~Valid
    BY <1>2 DEF Valid
  <2> QED BY <1>1, <2>1, <2>2, FailingStep
<1>3. CASE Len(argv) = 3
  <2>1. pc' = "host"
    BY <1>3 DEF CheckArguments, Goto
  <2>2. /\ CountChecked' /\ HostChecked' /\ PortParsed' /\ PortChecked'
        /\ TimeoutParsed' /\ TimeoutConverted'
    BY <1>1, <1>3, <2>1
    DEF CountChecked, HostChecked, PortParsed, PortChecked, TimeoutParsed,
        TimeoutConverted, Counted, HostKnown, PortKnown, Configured
  <2> QED BY <1>1, <2>1, <2>2, GoingOn DEF Checked, Counted
<1> QED
  BY <1>2, <1>3

LEMMA CheckHostStep == Checked /\ CheckHost => Checked'
<1> SUFFICES ASSUME Checked, CheckHost PROVE Checked'
  OBVIOUS
<1>1. argv' = argv /\ Len(argv) = 3
  BY DEF CheckHost, Checked, CountChecked, Counted
<1>2. CASE argv[1] = Empty
  <2>1. pc' = "failed" /\ error' = Diagnosis
    BY <1>1, <1>2 DEF CheckHost, Exit, Goto, Diagnosis
  <2>2. ~Valid
    BY <1>2 DEF Valid
  <2> QED BY <1>1, <2>1, <2>2, FailingStep
<1>3. CASE argv[1] # Empty
  <2>1. pc' = "parse port"
    BY <1>3 DEF CheckHost, Goto
  <2>2. /\ CountChecked' /\ HostChecked' /\ PortParsed' /\ PortChecked'
        /\ TimeoutParsed' /\ TimeoutConverted'
    BY <1>1, <1>3, <2>1
    DEF CountChecked, HostChecked, PortParsed, PortChecked, TimeoutParsed,
        TimeoutConverted, Counted, HostKnown, PortKnown, Configured
  <2> QED BY <1>1, <2>1, <2>2, GoingOn DEF Checked, Counted, HostKnown
<1> QED
  BY <1>2, <1>3

LEMMA ParsePortStep == Checked /\ ParsePort => Checked'
<1> SUFFICES ASSUME Checked, ParsePort PROVE Checked'
  OBVIOUS
<1>1. /\ argv' = argv /\ Len(argv) = 3 /\ argv[1] # Empty
      /\ argv[2] \in Argument
  BY Arguments
  DEF ParsePort, Checked, CountChecked, HostChecked, Counted, HostKnown
<1>2. CASE ~ParseIntegral(argv[2]).ok
  <2>1. /\ pc' = "failed"
        /\ error' = ParseFault(ParseIntegral(argv[2]).error,
                               "port_out_of_range", "invalid_port")
    BY <1>2 DEF ParsePort, Exit, Goto
  <2>2. error' = PortFault
    BY <1>1, <1>2, <2>1, ParseFaultIsFault DEF PortFault
  <2>3. ~Plain(argv[2])
    BY <1>1, <1>2, Refused DEF Plain, Refusal
  <2>4. PortFault # None
    BY <1>1, <2>3, FaultIsAnError DEF PortFault
  <2>5. ~Valid
    BY <1>1, <1>2, RefusedIsNotWhole, PortAssumption DEF Valid
  <2> QED BY <1>1, <2>1, <2>2, <2>4, <2>5, FailingStep DEF Diagnosis
<1>3. CASE ParseIntegral(argv[2]).ok
  <2>1. pc' = "check port" /\ port' = ParseIntegral(argv[2]).value
    BY <1>3 DEF ParsePort, Goto
  <2>2. port' \in Rep /\ argv[2] = Number(port', FALSE)
    BY <1>1, <1>3, <2>1, Accepted DEF Plain
  <2>3. /\ CountChecked' /\ HostChecked' /\ PortParsed' /\ PortChecked'
        /\ TimeoutParsed' /\ TimeoutConverted'
    BY <1>1, <2>1, <2>2
    DEF CountChecked, HostChecked, PortParsed, PortChecked, TimeoutParsed,
        TimeoutConverted, Counted, HostKnown, PortKnown, Configured
  <2> QED BY <1>1, <2>1, <2>3, GoingOn DEF Checked, Counted, HostKnown
<1> QED
  BY <1>2, <1>3

LEMMA CheckPortStep == Checked /\ CheckPort => Checked'
<1> SUFFICES ASSUME Checked, CheckPort PROVE Checked'
  OBVIOUS
<1>1. /\ argv' = argv /\ port' = port /\ Len(argv) = 3 /\ argv[1] # Empty
      /\ port \in Rep /\ argv[2] = Number(port, FALSE)
  BY DEF CheckPort, Checked, CountChecked, HostChecked, PortParsed, Counted,
         HostKnown
<1>2. CASE ~PortInRange(port)
  <2>1. /\ pc' = "failed"
        /\ error' = InvalidConfiguration("port_out_of_range", 0)
    BY <1>2 DEF CheckPort, Exit, Goto
  <2>2. PortFault = InvalidConfiguration("port_out_of_range", 0)
    BY <1>1, <1>2, PortVerdict DEF PortFault
  <2>3. PortFault # None
    BY <2>2, FaultIsAnError
  <2>4. ~Valid
    BY <1>1, <1>2, PortVerdict DEF Valid
  <2> QED BY <1>1, <2>1, <2>2, <2>3, <2>4, FailingStep DEF Diagnosis
<1>3. CASE PortInRange(port)
  <2>1. pc' = "parse timeout"
    BY <1>3 DEF CheckPort, Goto
  <2>2. /\ CountChecked' /\ HostChecked' /\ PortParsed' /\ PortChecked'
        /\ TimeoutParsed' /\ TimeoutConverted'
    BY <1>1, <1>3, <2>1
    DEF CountChecked, HostChecked, PortParsed, PortChecked, TimeoutParsed,
        TimeoutConverted, Counted, HostKnown, PortKnown, Configured,
        PortInRange
  <2> QED BY <1>1, <2>1, <2>2, GoingOn DEF Checked, Counted, HostKnown
<1> QED
  BY <1>2, <1>3

\* The port was checked: it is no fault.
LEMMA PortIsFine ==
  ASSUME Checked, pc \in PortKnown
  PROVE  /\ Len(argv) = 3 /\ argv[1] # Empty
         /\ argv[2] \in Argument /\ argv[3] \in Argument
         /\ port \in Rep /\ argv[2] = Number(port, FALSE) /\ PortInRange(port)
         /\ Whole(argv[2], 1, 1, MaximumPort) /\ PortFault = None
<1>1. Len(argv) = 3 /\ argv[1] # Empty
  BY DEF Checked, CountChecked, HostChecked, Counted, HostKnown, PortKnown
<1>2. argv[2] \in Argument /\ argv[3] \in Argument
  BY <1>1, Arguments DEF Checked
<1>3. port \in Rep /\ argv[2] = Number(port, FALSE) /\ PortInRange(port)
  BY DEF Checked, PortParsed, PortChecked
<1>4. Whole(argv[2], 1, 1, MaximumPort) /\ PortFault = None
  BY <1>3, PortVerdict DEF PortFault
<1> QED
  BY <1>1, <1>2, <1>3, <1>4

LEMMA ParseTimeoutStep == Checked /\ ParseTimeout => Checked'
<1> SUFFICES ASSUME Checked, ParseTimeout PROVE Checked'
  OBVIOUS
<1>1. pc \in PortKnown /\ argv' = argv /\ port' = port
  BY DEF ParseTimeout, PortKnown
<1>2. /\ Len(argv) = 3 /\ argv[1] # Empty /\ argv[3] \in Argument
      /\ port \in Rep /\ argv[2] = Number(port, FALSE) /\ PortInRange(port)
      /\ PortFault = None
  BY <1>1, PortIsFine
<1>3. CASE ~ParseIntegral(argv[3]).ok
  <2>1. /\ pc' = "failed"
        /\ error' = ParseFault(ParseIntegral(argv[3]).error,
                               "timeout_out_of_range", "invalid_timeout")
    BY <1>3 DEF ParseTimeout, Exit, Goto
  <2>2. error' = TimeoutFault
    BY <1>2, <1>3, <2>1, ParseFaultIsFault DEF TimeoutFault
  <2>3. MaxRep \in Rep
    BY RepBounds, RepAssumption
  <2>4. ~Valid
    BY <1>2, <1>3, <2>3, RefusedIsNotWhole DEF Valid
  <2> QED BY <1>1, <1>2, <2>1, <2>2, <2>4, FailingStep DEF Diagnosis
<1>4. CASE ParseIntegral(argv[3]).ok
  <2>1. pc' = "check timeout" /\ timeout' = ParseIntegral(argv[3]).value
    BY <1>4 DEF ParseTimeout, Goto
  <2>2. timeout' \in Rep /\ argv[3] = Number(timeout', FALSE)
    BY <1>2, <1>4, <2>1, Accepted DEF Plain
  <2>3. /\ CountChecked' /\ HostChecked' /\ PortParsed' /\ PortChecked'
        /\ TimeoutParsed' /\ TimeoutConverted'
    BY <1>1, <1>2, <2>1, <2>2
    DEF CountChecked, HostChecked, PortParsed, PortChecked, TimeoutParsed,
        TimeoutConverted, Counted, HostKnown, PortKnown, Configured,
        PortInRange
  <2> QED BY <1>1, <2>1, <2>3, GoingOn DEF Checked, Counted, HostKnown
<1> QED
  BY <1>3, <1>4

LEMMA CheckTimeoutStep == Checked /\ CheckTimeout => Checked'
<1> SUFFICES ASSUME Checked, CheckTimeout PROVE Checked'
  OBVIOUS
<1>1. pc \in PortKnown /\ argv' = argv
  BY DEF CheckTimeout, PortKnown
<1>2. /\ Len(argv) = 3 /\ argv[1] # Empty
      /\ port \in Rep /\ argv[2] = Number(port, FALSE) /\ PortInRange(port)
      /\ PortFault = None
  BY <1>1, PortIsFine
<1>3. timeout \in Rep /\ argv[3] = Number(timeout, FALSE)
  BY DEF Checked, TimeoutParsed, CheckTimeout
<1>4. CASE ~TimeoutInRange(timeout)
  <2>1. /\ pc' = "failed"
        /\ error' = InvalidConfiguration("timeout_out_of_range", 0)
    BY <1>4 DEF CheckTimeout, Exit, Goto
  <2>2. TimeoutFault = InvalidConfiguration("timeout_out_of_range", 0)
    BY <1>3, <1>4, TimeoutVerdict DEF TimeoutFault
  <2>3. ~Valid
    BY <1>3, <1>4, TimeoutVerdict DEF Valid
  <2> QED BY <1>1, <1>2, <2>1, <2>2, <2>3, FailingStep DEF Diagnosis
<1>5. CASE TimeoutInRange(timeout)
  <2>1. /\ pc' = "serialize port" /\ port' = port % (MaximumPort + 1)
        /\ timeout' \in Milliseconds(timeout)
    BY <1>5 DEF CheckTimeout, Goto
  <2>2. port' = port
    <3>1. /\ MaximumPort + 1 \in Nat \ {0}
          /\ port \in Nat /\ port < MaximumPort + 1
      BY <1>2, RepInt, PortAssumption DEF PortInRange
    <3> QED BY <2>1, <3>1, SmallRemainder
  <2>3. timeout' = timeout * Millisecond
    BY <1>3, <1>5, <2>1, TimeoutConverts
  <2>4. TimeoutConverted'
    BY <1>1, <1>3, <1>5, <2>3 DEF TimeoutConverted
  <2>5. /\ CountChecked' /\ HostChecked' /\ PortParsed' /\ PortChecked'
        /\ TimeoutParsed'
    BY <1>1, <1>2, <2>1, <2>2
    DEF CountChecked, HostChecked, PortParsed, PortChecked, TimeoutParsed,
        Counted, HostKnown, PortKnown, Configured, PortInRange
  <2> QED
    BY <1>1, <2>1, <2>4, <2>5, GoingOn DEF Checked, Counted, Configured
<1> QED
  BY <1>4, <1>5

\* A configured program has its port and its timeout.
LEMMA ConfiguredIsValid ==
  ASSUME Checked, pc \in Configured
  PROVE  /\ Valid
         /\ port = argv[2].number /\ port \in Int
         /\ CountMilliseconds(timeout) = argv[3].number
         /\ argv[3].number \in Int
<1>1. pc \in PortKnown
  BY DEF PortKnown
<1>2. PICK n \in Rep : /\ TimeoutInRange(n)
                       /\ argv[3] = Number(n, FALSE)
                       /\ timeout = n * Millisecond
  BY DEF Checked, TimeoutConverted
<1>3. Whole(argv[3], 1, Millisecond, MaxRep)
  BY <1>2, TimeoutVerdict
<1>4. CountMilliseconds(timeout) = n
  BY <1>2, TimeoutConverts
<1>5. Valid
  BY <1>1, <1>3, PortIsFine DEF Valid
<1>6. port = argv[2].number /\ port \in Int
  <2>1. port \in Rep /\ argv[2] = Number(port, FALSE)
    BY <1>1, PortIsFine
  <2> QED BY <2>1, RepInt DEF Number
<1>7. argv[3].number = n /\ n \in Int
  BY <1>2, RepInt DEF Number
<1> QED
  BY <1>4, <1>5, <1>6, <1>7

LEMMA SerializePortStep ==
  ASSUME Digits < Buffer
  PROVE  Checked /\ SerializePort => Checked'
<1> SUFFICES ASSUME Checked, SerializePort PROVE Checked'
  OBVIOUS
<1>1. /\ pc \in Configured
      /\ argv' = argv /\ port' = port /\ timeout' = timeout
  BY DEF SerializePort, Configured
<1>2. SerializeIntegral(port).ok
  <2>1. SerializeIntegral(port) = Success(Number(port, FALSE))
    BY <1>1, ConfiguredIsValid, Serializes
  <2>2. Success(Number(port, FALSE)).ok
    BY Fields
  <2> QED BY <2>1, <2>2, Zenon
<1>3. pc' = "serialize timeout"
  BY <1>2 DEF SerializePort, Goto
<1>4. TimeoutConverted'
  BY <1>1 DEF Checked, TimeoutConverted
<1>5. /\ CountChecked' /\ HostChecked' /\ PortParsed' /\ PortChecked'
      /\ TimeoutParsed'
  BY <1>1, <1>3
  DEF Checked, CountChecked, HostChecked, PortParsed, PortChecked,
      TimeoutParsed, Counted, HostKnown, PortKnown, Configured, PortInRange
<1> QED
  BY <1>1, <1>3, <1>4, <1>5, GoingOn DEF Checked, Counted, Configured

LEMMA SerializeTimeoutStep ==
  ASSUME Digits < Buffer
  PROVE  Checked /\ SerializeTimeout => Checked'
<1> SUFFICES ASSUME Checked, SerializeTimeout PROVE Checked'
  OBVIOUS
<1>1. /\ pc \in Configured
      /\ argv' = argv /\ port' = port /\ timeout' = timeout
  BY DEF SerializeTimeout, Configured
<1>2. /\ SerializeIntegral(port) = Success(Number(argv[2].number, FALSE))
      /\ SerializeIntegral(CountMilliseconds(timeout))
           = Success(Number(argv[3].number, FALSE))
  BY <1>1, ConfiguredIsValid, Serializes
<1>3. /\ pc' = "printed"
      /\ printed' = <<Number(argv[2].number, FALSE),
                      Number(argv[3].number, FALSE)>>
  <2>1. PICK p, t : p = Number(argv[2].number, FALSE)
                    /\ t = Number(argv[3].number, FALSE)
    OBVIOUS
  <2>2. /\ SerializeIntegral(port) = Success(p)
        /\ SerializeIntegral(CountMilliseconds(timeout)) = Success(t)
    BY <1>2, <2>1, Zenon
  <2>3. /\ Success(t).ok /\ Success(t).value = t /\ Success(p).value = p
    BY Fields
  <2>4. pc' = "printed" /\ printed' = <<p, t>>
    BY <2>2, <2>3, Zenon DEF SerializeTimeout, Goto
  <2> QED BY <2>1, <2>4, Zenon
<1>4. PrintsWhatWasAsked'
  BY <1>1, <1>3 DEF PrintsWhatWasAsked
<1>5. AcceptsExactlyValid' /\ ReportsFirstFault'
  <2>1. Valid
    BY <1>1, ConfiguredIsValid
  <2>2. Valid'
    BY <1>1, <2>1 DEF Valid
  <2> QED
    BY <1>3, <2>2 DEF AcceptsExactlyValid, ReportsFirstFault
<1>6. TimeoutConverted'
  BY <1>1 DEF Checked, TimeoutConverted
<1>7. /\ CountChecked' /\ HostChecked' /\ PortParsed' /\ PortChecked'
      /\ TimeoutParsed'
  BY <1>1, <1>3
  DEF Checked, CountChecked, HostChecked, PortParsed, PortChecked,
      TimeoutParsed, Counted, HostKnown, PortKnown, Configured, PortInRange
<1> QED
  BY <1>1, <1>3, <1>4, <1>5, <1>6, <1>7 DEF Checked, Counted, Configured

LEMMA NextChecked ==
  ASSUME Digits < Buffer
  PROVE  Checked /\ [Next]_vars => Checked'
<1>1. Checked /\ UNCHANGED vars => Checked'
  BY DEF vars, Checked, CountChecked, HostChecked, PortParsed, PortChecked,
         TimeoutParsed, TimeoutConverted, PortInRange, AcceptsExactlyValid,
         Valid, PrintsWhatWasAsked, ReportsFirstFault
<1> QED
  BY <1>1, CheckArgumentsStep, CheckHostStep, ParsePortStep, CheckPortStep,
     ParseTimeoutStep, CheckTimeoutStep, SerializePortStep,
     SerializeTimeoutStep DEF Next

-----------------------------------------------------------------------------
(* The properties.                                                         *)

\* No check accepts what a later conversion cannot represent, and none refuses
\* what it can.
THEOREM ExactlyTheValid ==
  ASSUME Digits < Buffer
  PROVE  Spec => []AcceptsExactlyValid
<1>1. Checked => AcceptsExactlyValid
  BY DEF Checked
<1> QED
  BY InitChecked, NextChecked, <1>1, PTL DEF Spec

\* The port and the timeout come back from their conversions unchanged.
THEOREM PrintedAsAsked ==
  ASSUME Digits < Buffer
  PROVE  Spec => []PrintsWhatWasAsked
<1>1. Checked => PrintsWhatWasAsked
  BY DEF Checked
<1> QED
  BY InitChecked, NextChecked, <1>1, PTL DEF Spec

\* The error reported is that of the leftmost wrong argument.
THEOREM FirstFaultReported ==
  ASSUME Digits < Buffer
  PROVE  Spec => []ReportsFirstFault
<1>1. Checked => ReportsFirstFault
  BY DEF Checked
<1> QED
  BY InitChecked, NextChecked, <1>1, PTL DEF Spec

=============================================================================
