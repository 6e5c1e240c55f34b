------------------------------ MODULE Messages ------------------------------
(***************************************************************************)
(* Messages and what becomes of them on the way (src/src/message.rs; in    *)
(* src/src/connection.rs, send_message and read_data): a Text or a Binary  *)
(* is sent as its bytes alone, and bytes are received as a Text or not at  *)
(* all.                                                                    *)
(***************************************************************************)
EXTENDS Codes, Sequences

CONSTANT IsUtf8(_)  \* are these bytes the encoding of a string

Bytes == Seq(U8)

\* Message::text and Message::binary; a string is known by its encoding.
Text(string) == [kind |-> "Text", data |-> string]
Binary(bin) == [kind |-> "Binary", data |-> bin]

Message == {Text(s) : s \in {b \in Bytes : IsUtf8(b)}} \cup {Binary(b) : b \in Bytes}

IsText(m) == m.kind = "Text"
IsBinary(m) == m.kind = "Binary"
Length(m) == Len(m.data)
IsEmpty(m) == m.data = <<>>

Opcode(m) == IF IsText(m) THEN "Text" ELSE "Binary"

\* The two ends of a Result.
Ok(value) == [ok |-> TRUE, value |-> value]
Err(kind) == [ok |-> FALSE, value |-> kind]

IntoData(m) == m.data

\* into_text, and as_text of a borrowed message.
IntoText(m) == IF IsText(m) \/ IsUtf8(m.data) THEN Ok(m.data) ELSE Err("Encoding")

\* From<String> and From<&str>, From<Vec<u8>> and From<&[u8]>.
FromString(string) == Text(string)
FromBytes(data) == Binary(data)

\* read_data: the message on_message is given for a chunk of bytes.
Received(chunk) == IF IsUtf8(chunk) THEN Ok(Text(chunk)) ELSE Err("Encoding")

-----------------------------------------------------------------------------
\* A text that is read in one chunk is the message that was sent.
\* (message.rs, into_data; connection.rs, read_data)
THEOREM TextSurvives ==
  \A m \in Message : IsText(m) => Received(IntoData(m)) = Ok(m)
<1> SUFFICES ASSUME NEW m \in Message, IsText(m) PROVE Received(IntoData(m)) = Ok(m)
  OBVIOUS
<1>1. PICK s \in Bytes : IsUtf8(s) /\ m = Text(s)
  <2>1. ASSUME NEW b \in Bytes, m = Binary(b) PROVE FALSE
    BY <2>1 DEF IsText, Binary
  <2> QED
    BY <2>1 DEF Message
<1> QED
  BY <1>1 DEF Received, IntoData, Text

\* A binary message never arrives as one: the peer's handler gets the same bytes as a
\* text, which is what into_text makes of them, or the connection starts closing where
\* into_text fails.  (message.rs, into_text; connection.rs, read_data)
THEOREM BinaryIsReadAsText ==
  \A m \in Message :
    IsBinary(m) =>
      /\ Received(IntoData(m)) # Ok(m)
      /\ Received(IntoData(m)) = IF IntoText(m).ok THEN Ok(Text(IntoText(m).value))
                                 ELSE Err("Encoding")
<1> SUFFICES ASSUME NEW m \in Message, IsBinary(m)
             PROVE  /\ Received(IntoData(m)) # Ok(m)
                    /\ Received(IntoData(m)) = IF IntoText(m).ok THEN Ok(Text(IntoText(m).value))
                                               ELSE Err("Encoding")
  OBVIOUS
<1>1. CASE IsUtf8(m.data)
  <2>1. Received(IntoData(m)) = Ok(Text(m.data)) /\ IntoText(m) = Ok(m.data)
    BY <1>1 DEF Received, IntoData, IntoText
  <2>2. Ok(Text(m.data)).value.kind = "Text" /\ Ok(m).value.kind = "Binary"
    BY DEF Ok, Text, IsBinary
  <2> QED
    BY <2>1, <2>2 DEF Ok
<1>2. CASE ~IsUtf8(m.data)
  <2>1. Received(IntoData(m)) = Err("Encoding") /\ IntoText(m) = Err("Encoding")
    BY <1>2 DEF Received, IntoData, IntoText, IsText, IsBinary
  <2> QED
    BY <2>1 DEF Ok, Err
<1> QED
  BY <1>1, <1>2

\* Nothing marks where a message ends: texts that are read together are received as one
\* message, as long as the encodings of two strings make one.  (connection.rs, read_data)
THEOREM TextsRunTogether ==
  ASSUME \A a, b \in Bytes : IsUtf8(a) /\ IsUtf8(b) => IsUtf8(a \o b),
         NEW a \in Bytes, NEW b \in Bytes, IsUtf8(a), IsUtf8(b)
  PROVE  Received(IntoData(Text(a)) \o IntoData(Text(b))) = Ok(Text(a \o b))
<1>1. IntoData(Text(a)) = a /\ IntoData(Text(b)) = b
  BY DEF IntoData, Text
<1> QED
  BY <1>1 DEF Received
=============================================================================
