-------------------------------- MODULE Text --------------------------------
(***************************************************************************)
(* vix::parse and vix::serialize between integers of the width of Rep and  *)
(* text.  A text is what from_chars() finds in it: nothing, no number, or  *)
(* a decimal number that the rest of the text may follow.  Positions are 0 *)
(* and After, the first byte behind the number.                            *)
(***************************************************************************)
EXTENDS Duration

CONSTANTS
  Digits,  \* digits of the longest Rep (19 in the code)
  Buffer   \* serialize_buffer_size

ASSUME BufferAssumption == Digits \in Nat /\ Buffer \in Nat

After == 1

Empty == [form |-> "empty"]
Word == [form |-> "word"]
Number(n, tail) == [form |-> "number", number |-> n, tail |-> tail]

\* Results of parse() and of what is built on it.
Success(x) == [ok |-> TRUE, value |-> x]
Failure(code, position) ==
  [ok |-> FALSE, error |-> [code |-> code, position |-> position]]

\* from_chars(), then the checks of its ec and ptr in this order.
FromChars(text) ==
  IF text.form # "number" THEN Failure("invalid_value", 0)
  ELSE IF text.number \notin Rep THEN Failure("out_of_range", 0)
  ELSE IF text.tail THEN Failure("trailing_characters", After)
  ELSE Success(text.number)

ParseIntegral(text) ==
  IF text = Empty THEN Failure("empty_input", 0) ELSE FromChars(text)

\* to_chars() into a buffer on the stack: the longest number must fit.
SerializeIntegral(n) ==
  IF (IF n < 0 THEN Digits + 1 ELSE Digits) > Buffer
  THEN Failure("value_too_large", 0)
  ELSE Success(Number(n, FALSE))
=============================================================================
