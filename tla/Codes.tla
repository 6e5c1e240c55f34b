------------------------------- MODULE Codes -------------------------------
(***************************************************************************)
(* The protocol codes and their numbers (src/src/protocol.rs): two         *)
(* conversions each for OpCode and CloseCode, written down separately in   *)
(* the code, and the theorems that they undo one another.                  *)
(***************************************************************************)
EXTENDS Integers, TLAPS

U8 == 0..255
U16 == 0..65535

OpCode == {"Continue", "Text", "Binary", "Close", "Bad"}

IsControl(op) == op \notin {"Text", "Binary", "Continue"}

\* Into<u8>: Bad is a debug assertion, and the number of Close without assertions.
OpIntoU8(op) ==
  CASE op = "Continue" -> 0
    [] op = "Text" -> 1
    [] op = "Binary" -> 2
    [] op \in {"Close", "Bad"} -> 8

OpFromU8(byte) ==
  CASE byte = 0 -> "Continue"
    [] byte = 1 -> "Text"
    [] byte = 2 -> "Binary"
    [] byte = 8 -> "Close"
    [] OTHER -> "Bad"

CloseNames ==
  {"Normal", "Away", "Protocol", "Unsupported", "Status", "Abnormal", "Invalid", "Policy",
   "Size", "Extension", "Error", "Restart", "Again", "Tls", "Empty"}

\* A code with a name, and Other(code), which anyone can make of any number.
Named(name) == [name |-> name, other |-> 0]
Other(code) == [name |-> "Other", other |-> code]
CloseCode == {Named(name) : name \in CloseNames} \cup {Other(code) : code \in U16}

CloseIntoU16(c) ==
  CASE c.name = "Normal" -> 1000
    [] c.name = "Away" -> 1001
    [] c.name = "Protocol" -> 1002
    [] c.name = "Unsupported" -> 1003
    [] c.name = "Status" -> 1005
    [] c.name = "Abnormal" -> 1006
    [] c.name = "Invalid" -> 1007
    [] c.name = "Policy" -> 1008
    [] c.name = "Size" -> 1009
    [] c.name = "Extension" -> 1010
    [] c.name = "Error" -> 1011
    [] c.name = "Restart" -> 1012
    [] c.name = "Again" -> 1013
    [] c.name = "Tls" -> 1015
    [] c.name = "Empty" -> 0
    [] c.name = "Other" -> c.other

CloseFromU16(code) ==
  CASE code = 1000 -> Named("Normal")
    [] code = 1001 -> Named("Away")
    [] code = 1002 -> Named("Protocol")
    [] code = 1003 -> Named("Unsupported")
    [] code = 1005 -> Named("Status")
    [] code = 1006 -> Named("Abnormal")
    [] code = 1007 -> Named("Invalid")
    [] code = 1008 -> Named("Policy")
    [] code = 1009 -> Named("Size")
    [] code = 1010 -> Named("Extension")
    [] code = 1011 -> Named("Error")
    [] code = 1012 -> Named("Restart")
    [] code = 1013 -> Named("Again")
    [] code = 1015 -> Named("Tls")
    [] code = 0 -> Named("Empty")
    [] OTHER -> Other(code)

-----------------------------------------------------------------------------
\* The two opcode tables agree: a valid byte and a valid opcode survive the way there
\* and back, and only a byte that stands for no opcode becomes Bad.
\* (protocol.rs, OpCode)
THEOREM OpCodesRoundTrip ==
  /\ \A op \in OpCode : OpIntoU8(op) \in U8 /\ (op # "Bad" => OpFromU8(OpIntoU8(op)) = op)
  /\ \A byte \in U8 : /\ OpFromU8(byte) \in OpCode
                      /\ OpFromU8(byte) # "Bad" => OpIntoU8(OpFromU8(byte)) = byte
<1>1. ASSUME NEW op \in OpCode
      PROVE  OpIntoU8(op) \in U8 /\ (op # "Bad" => OpFromU8(OpIntoU8(op)) = op)
  BY DEF OpCode, OpIntoU8, OpFromU8, U8
<1>2. ASSUME NEW byte \in U8
      PROVE  /\ OpFromU8(byte) \in OpCode
             /\ OpFromU8(byte) # "Bad" => OpIntoU8(OpFromU8(byte)) = byte
  BY DEF OpCode, OpIntoU8, OpFromU8, U8
<1> QED
  BY <1>1, <1>2

\* A named code bears its name.
LEMMA NamedIs == \A name : Named(name).name = name
BY DEF Named

\* What CloseIntoU16 gives a named code is read back as that code.
LEMMA NamedKept ==
  ASSUME NEW name \in CloseNames, NEW c, c.name = name
  PROVE  CloseFromU16(CloseIntoU16(c)) = Named(name)
<1> DEFINE v == CloseIntoU16(c)
<1>1. \/ name = "Normal" /\ v = 1000
      \/ name = "Away" /\ v = 1001
      \/ name = "Protocol" /\ v = 1002
      \/ name = "Unsupported" /\ v = 1003
      \/ name = "Status" /\ v = 1005
      \/ name = "Abnormal" /\ v = 1006
      \/ name = "Invalid" /\ v = 1007
      \/ name = "Policy" /\ v = 1008
      \/ name = "Size" /\ v = 1009
      \/ name = "Extension" /\ v = 1010
      \/ name = "Error" /\ v = 1011
      \/ name = "Restart" /\ v = 1012
      \/ name = "Again" /\ v = 1013
      \/ name = "Tls" /\ v = 1015
      \/ name = "Empty" /\ v = 0
  BY DEF CloseIntoU16, CloseNames
<1> HIDE DEF v
<1>2. CloseFromU16(v) = Named(name)
  BY <1>1 DEF CloseFromU16
<1> QED
  BY <1>2 DEF v

\* Every close code read from a number is written back as that number.
\* (protocol.rs, CloseCode)
THEOREM CloseCodesRoundTrip ==
  \A code \in U16 : CloseFromU16(code) \in CloseCode /\ CloseIntoU16(CloseFromU16(code)) = code
<1> SUFFICES ASSUME NEW code \in U16
             PROVE  /\ CloseFromU16(code) \in CloseCode
                    /\ CloseIntoU16(CloseFromU16(code)) = code
  OBVIOUS
<1>1. CASE CloseFromU16(code) = Other(code)
  BY <1>1 DEF CloseCode, CloseIntoU16, Other
<1>2. CASE CloseFromU16(code) # Other(code)
  <2>1. \E name \in CloseNames :
          CloseFromU16(code) = Named(name) /\ CloseIntoU16(Named(name)) = code
    BY <1>2, NamedIs DEF CloseFromU16, CloseIntoU16, CloseNames
  <2> QED
    BY <2>1 DEF CloseCode
<1> QED
  BY <1>1, <1>2

\* A close code survives the way to a number and back exactly when it is not the number
\* of a named one in disguise: Other(1000), say, comes back as Normal.
\* (protocol.rs, CloseCode::Other)
THEOREM CloseCodeKept ==
  \A c \in CloseCode :
    CloseFromU16(CloseIntoU16(c)) = c
      <=> (c.name = "Other" => \A name \in CloseNames : CloseIntoU16(Named(name)) # c.other)
<1> SUFFICES ASSUME NEW c \in CloseCode
             PROVE  CloseFromU16(CloseIntoU16(c)) = c
                      <=> (c.name = "Other" =>
                             \A name \in CloseNames : CloseIntoU16(Named(name)) # c.other)
  OBVIOUS
<1>1. ASSUME NEW name \in CloseNames, c = Named(name)
      PROVE  CloseFromU16(CloseIntoU16(c)) = c /\ c.name # "Other"
  BY <1>1, NamedIs, NamedKept DEF CloseNames
<1>2. ASSUME NEW code \in U16, c = Other(code)
      PROVE  /\ c.name = "Other" /\ c.other = code
             /\ CloseFromU16(CloseIntoU16(c)) = c
                  <=> \A name \in CloseNames : CloseIntoU16(Named(name)) # code
  <2>1. c.name = "Other" /\ c.other = code /\ CloseIntoU16(c) = code
    BY <1>2 DEF Other, CloseIntoU16
  <2>2. ASSUME NEW name \in CloseNames, CloseIntoU16(Named(name)) = code
        PROVE  CloseFromU16(code).name = name /\ name # "Other"
    BY <2>2 DEF CloseFromU16, CloseIntoU16, CloseNames, Named
  <2>3. CASE CloseFromU16(code) = Other(code)
    BY <1>2, <2>1, <2>2, <2>3 DEF Other
  <2>4. CASE CloseFromU16(code) # Other(code)
    <3>1. \E name \in CloseNames : CloseIntoU16(Named(name)) = code
      BY <2>4 DEF CloseFromU16, CloseIntoU16, CloseNames, Named, Other
    <3> QED
      BY <1>2, <2>1, <2>4, <3>1
  <2> QED
    BY <2>3, <2>4
<1> QED
  BY <1>1, <1>2 DEF CloseCode
=============================================================================
