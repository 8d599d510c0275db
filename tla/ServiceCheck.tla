---------------------------- MODULE ServiceCheck ----------------------------
(***************************************************************************)
(* service-check, the program that composes Run, Parse, Duration, Result   *)
(* and Serialize: main() passes its arguments to Command::run(), which has *)
(* ServiceConfig::create() check them one after the other, and prints the  *)
(* configuration back.  One step is one call; `pc' names the next.         *)
(***************************************************************************)
EXTENDS Text, Sequences

CONSTANTS
  MaximumPort,  \* 65535
  Argument,     \* the texts it is called with
  None

ASSUME PortAssumption == MaximumPort \in Nat \ {0} /\ MaximumPort \in Rep
ASSUME ArgumentAssumption ==
  \A text \in Argument :
    \/ text \in {Empty, Word}
    \/ /\ text = Number(text.number, text.tail)
       /\ text.number \in Int /\ text.tail \in BOOLEAN

VARIABLES
  argv,     \* the arguments after the program's name
  pc,
  port,     \* parsed_port, then ServiceConfig::port_
  timeout,  \* parsed_timeout, then ServiceConfig::timeout_
  printed,  \* the numbers on standard output, or None
  error     \* service_cli::Error, or None

vars == <<argv, pc, port, timeout, printed, error>>

Init ==
  /\ argv \in UNION {[1 .. n -> Argument] : n \in 2 .. 4}
  /\ pc = "arguments"
  /\ port = None /\ timeout = None
  /\ printed = None
  /\ error = None

Goto(next) == pc' = next

\* The run ends with service_cli::Error e, and with status 1.
Exit(e) == error' = e /\ Goto("failed")

InvalidArguments == [code |-> "invalid_arguments"]
InvalidConfiguration(code, position) ==
  [code |-> "invalid_configuration",
   cause |-> [code |-> code, position |-> position]]
SerializationFailed == [code |-> "serialization_failed"]

\* None is no error.
ASSUME NoneAssumption ==
  \A code \in {"invalid_port", "port_out_of_range",
              "invalid_timeout", "timeout_out_of_range"} :
    \A position \in {0, After} : None # InvalidConfiguration(code, position)

-----------------------------------------------------------------------------
\* argc != 4 in main(), arguments.size() != 3 in Command::run().
CheckArguments ==
  /\ pc = "arguments"
  /\ IF Len(argv) # 3 THEN Exit(InvalidArguments)
     ELSE Goto("host") /\ UNCHANGED error
  /\ UNCHANGED <<argv, port, timeout, printed>>

CheckHost ==
  /\ pc = "host"
  /\ IF argv[1] = Empty THEN Exit(InvalidConfiguration("empty_host", 0))
     ELSE Goto("parse port") /\ UNCHANGED error
  /\ UNCHANGED <<argv, port, timeout, printed>>

\* Mutant: a range error of the parser is reported as any other.
AlwaysInvalid(e, range, invalid) == InvalidConfiguration(invalid, e.position)

\* port_parse_error() and timeout_parse_error()
ParseFault(e, range, invalid) ==
  InvalidConfiguration(IF e.code = "out_of_range" THEN range ELSE invalid,
                       e.position)

ParsePort ==
  LET parsed == ParseIntegral(argv[2]) IN
  /\ pc = "parse port"
  /\ IF parsed.ok
     THEN port' = parsed.value /\ Goto("check port") /\ UNCHANGED error
     ELSE /\ Exit(ParseFault(parsed.error, "port_out_of_range", "invalid_port"))
          /\ UNCHANGED port
  /\ UNCHANGED <<argv, timeout, printed>>

PortInRange(n) == 1 <= n /\ n <= MaximumPort

CheckPort ==
  /\ pc = "check port"
  /\ IF PortInRange(port) THEN Goto("parse timeout") /\ UNCHANGED error
     ELSE Exit(InvalidConfiguration("port_out_of_range", 0))
  /\ UNCHANGED <<argv, port, timeout, printed>>

ParseTimeout ==
  LET parsed == ParseIntegral(argv[3]) IN
  /\ pc = "parse timeout"
  /\ IF parsed.ok
     THEN timeout' = parsed.value /\ Goto("check timeout") /\ UNCHANGED error
     ELSE /\ Exit(ParseFault(parsed.error,
                             "timeout_out_of_range", "invalid_timeout"))
          /\ UNCHANGED timeout
  /\ UNCHANGED <<argv, port, printed>>

\* Mutant: the bound is that of the count, not of what it is converted to.
MaximumRep == MaxRep

\* maximum_timeout_ms
MaximumTimeout == MaxRep \div Millisecond

TimeoutInRange(n) == 0 < n /\ n <= MaximumTimeout

\* The last check, and the construction of the ServiceConfig: the port becomes
\* a uint16_t, the timeout a Duration.
CheckTimeout ==
  /\ pc = "check timeout"
  /\ IF TimeoutInRange(timeout)
     THEN /\ port' = port % (MaximumPort + 1)
          /\ timeout' \in Milliseconds(timeout)
          /\ Goto("serialize port") /\ UNCHANGED error
     ELSE /\ Exit(InvalidConfiguration("timeout_out_of_range", 0))
          /\ UNCHANGED <<port, timeout>>
  /\ UNCHANGED <<argv, printed>>

SerializePort ==
  /\ pc = "serialize port"
  /\ IF SerializeIntegral(port).ok
     THEN Goto("serialize timeout") /\ UNCHANGED error
     ELSE Exit(SerializationFailed)
  /\ UNCHANGED <<argv, port, timeout, printed>>

\* The timeout in milliseconds again; then main() prints what run() returned.
SerializeTimeout ==
  LET text == SerializeIntegral(CountMilliseconds(timeout)) IN
  /\ pc = "serialize timeout"
  /\ IF text.ok
     THEN /\ printed' = <<SerializeIntegral(port).value, text.value>>
          /\ Goto("printed") /\ UNCHANGED error
     ELSE Exit(SerializationFailed) /\ UNCHANGED printed
  /\ UNCHANGED <<argv, port, timeout>>

Next ==
  \/ CheckArguments \/ CheckHost
  \/ ParsePort \/ CheckPort
  \/ ParseTimeout \/ CheckTimeout
  \/ SerializePort \/ SerializeTimeout

Spec == Init /\ [][Next]_vars
-----------------------------------------------------------------------------
(* Properties.                                                             *)

\* A number and nothing else, between low and what converts without overflow.
Whole(text, low, scale, high) ==
  /\ text.form = "number" /\ ~text.tail
  /\ low <= text.number /\ text.number <= high
  /\ text.number * scale \in Rep

\* The arguments the service can be configured with, said without the bounds
\* the code computes.
Valid ==
  /\ Len(argv) = 3
  /\ argv[1] # Empty
  /\ Whole(argv[2], 1, 1, MaximumPort)
  /\ Whole(argv[3], 1, Millisecond, MaxRep)

\* The program succeeds exactly on the valid arguments: no check accepts what
\* a later conversion cannot represent, none refuses what it can.
AcceptsExactlyValid ==
  /\ pc = "printed" => Valid
  /\ pc = "failed" => ~Valid

\* What is printed is what was asked: the port through uint16_t and the timeout
\* through milliseconds() and count_milliseconds() come back unchanged.
PrintsWhatWasAsked ==
  pc = "printed" =>
    printed = <<Number(argv[2].number, FALSE), Number(argv[3].number, FALSE)>>

\* What is wrong with a numeric argument whose largest value is high: a code
\* and a position, by what its text is, or None.
Fault(text, high, range, invalid) ==
  IF text.form # "number" THEN InvalidConfiguration(invalid, 0)
  ELSE IF text.number \notin Rep THEN InvalidConfiguration(range, 0)
  ELSE IF text.tail THEN InvalidConfiguration(invalid, After)
  ELSE IF text.number \notin 1 .. high THEN InvalidConfiguration(range, 0)
  ELSE None

\* The error reported is that of the leftmost wrong argument, and a number that
\* does not fit is a range error whichever check finds it.
ReportsFirstFault ==
  pc = "failed" =>
    IF Len(argv) # 3 THEN error = InvalidArguments
    ELSE LET p == Fault(argv[2], MaximumPort,
                        "port_out_of_range", "invalid_port")
             t == Fault(argv[3], MaxRep \div Millisecond,
                        "timeout_out_of_range", "invalid_timeout")
         IN error = IF argv[1] = Empty
                    THEN InvalidConfiguration("empty_host", 0)
                    ELSE IF p # None THEN p ELSE t
=============================================================================
