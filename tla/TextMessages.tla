----------------------------- MODULE TextMessages -----------------------------
(***************************************************************************)
(* WebSocketConnection::validateWebSocketMessage (httpd/HttpServer.cpp):   *)
(* which messages of a client reach its handler.                           *)
(*                                                                         *)
(* A message is a sequence of bytes, of which the run takes those around   *)
(* the bounds in the code.                                                 *)
(***************************************************************************)
EXTENDS Integers, Sequences

CONSTANTS
    Bytes,          \* the bytes that occur
    MaxLength,      \* bound: the length of a message
    MAX_FRAME_SIZE, MAX_MESSAGE_SIZE    \* both 15 MB in the code

ASSUME BytesAssumption == Bytes \subseteq 0..255
ASSUME SizesAssumption == MAX_FRAME_SIZE \in Nat /\ MAX_MESSAGE_SIZE \in Nat

VARIABLES message, is_text, accepted

messageVars == <<message, is_text, accepted>>

MessageInit == message = <<>> /\ is_text = TRUE /\ accepted = FALSE

-----------------------------------------------------------------------------
(* The length of the sequence that a byte starts, or 0 *)
SeqLen(c) ==
    CASE c < 128 -> 1
      [] c \div 32 = 6 -> 2
      [] c \div 16 = 14 -> 3
      [] c \div 8 = 30 -> 4
      [] OTHER -> 0

IsContinuation(c) == c \div 64 = 2

Codepoint4(m, i) ==
    (m[i] % 8) * 262144 + (m[i + 1] % 64) * 4096 + (m[i + 2] % 64) * 64 + (m[i + 3] % 64)

(* Not past the last character, and not one of the surrogates *)
InRange(codepoint) ==
    codepoint <= 1114111 /\ ~(55296 <= codepoint /\ codepoint <= 57343)

(* Fault: a sequence may end one byte past the message. *)
ValidSequence_PastEnd(m, i) ==
    LET n == SeqLen(m[i]) IN
    /\ n > 0 /\ i + n <= Len(m) + 2
    /\ \A j \in 1..(n - 1) : i + j <= Len(m) => IsContinuation(m[i + j])
    /\ n = 2 => m[i] >= 194

(* One pass of the loop.  Only sequences of four bytes have their value    *)
(* tested.                                                                 *)
ValidSequence(m, i) ==
    LET n == SeqLen(m[i]) IN
    /\ n > 0 /\ i + n <= Len(m) + 1
    /\ \A j \in 1..(n - 1) : IsContinuation(m[i + j])
    /\ n = 2 => m[i] >= 194
    /\ n = 4 => InRange(Codepoint4(m, i))

ValidText(m) ==
    LET from[i \in 1..(Len(m) + 4)] ==
            i <= Len(m) => ValidSequence(m, i) /\ from[i + SeqLen(m[i])]
    IN  from[1]

IsControl(c) == (c < 32 /\ c \notin {9, 10, 13}) \/ c = 127

validateWebSocketMessage(m, text) ==
    /\ m # <<>>
    /\ Len(m) <= MAX_FRAME_SIZE
    /\ Len(m) <= MAX_MESSAGE_SIZE
    /\ text => ValidText(m) /\ \A i \in DOMAIN m : ~IsControl(m[i])

(* A client sends a message, byte by byte; what readLoop makes of it. *)
SendByte(c) ==
    /\ Len(message) < MaxLength
    /\ message' = Append(message, c)
    /\ UNCHANGED is_text
    /\ accepted' = validateWebSocketMessage(message', is_text)

SendBinary ==
    /\ message = <<>> /\ is_text
    /\ is_text' = FALSE
    /\ UNCHANGED <<message, accepted>>

MessageNext == (\E c \in Bytes : SendByte(c)) \/ SendBinary

MessageSpec == MessageInit /\ [][MessageNext]_messageVars

-----------------------------------------------------------------------------
(* Properties *)

(* The characters of UTF-8, as RFC 3629 lists their byte sequences *)
Cont == 128..191
Utf8 == {<<0..127>>, <<194..223, Cont>>,
         <<{224}, 160..191, Cont>>, <<(225..236) \cup (238..239), Cont, Cont>>,
         <<{237}, 128..159, Cont>>,
         <<{240}, 144..191, Cont, Cont>>, <<241..243, Cont, Cont, Cont>>,
         <<{244}, 128..143, Cont, Cont>>}

(* What is also let through: surrogates, which are looked for among        *)
(* sequences of four bytes only, and the longer forms of characters that   *)
(* have a shorter one, except two-byte ones and the four-byte ones of      *)
(* surrogates.                                                             *)
Loose == {<<{224}, 128..159, Cont>>, <<{237}, 160..191, Cont>>,
          <<{240}, 128..140, Cont, Cont>>, <<{240}, {141}, 128..159, Cont>>,
          <<{240}, 142..143, Cont, Cont>>}

IsOne(table, m, first, last) ==
    \E row \in table :
        /\ Len(row) = last - first + 1
        /\ \A j \in DOMAIN row : m[first + j - 1] \in row[j]

(* The message can be cut into characters of the table. *)
MadeOf(table, m) ==
    \E cuts \in SUBSET (2..Len(m)) :
        LET starts == {1} \cup cuts IN
        \A s \in starts :
            \E last \in s..Len(m) :
                /\ IsOne(table, m, s, last)
                /\ (last + 1 \in cuts \/ last = Len(m))
                /\ \A t \in cuts : ~(s < t /\ t <= last)

(* Every message in UTF-8 without control characters reaches the handler,  *)
(* and none that is not in UTF-8 up to the longer forms and surrogates;    *)
(* binary messages do whatever they hold.  Nothing too long does.          *)
TextAccepted ==
    LET size == Len(message) \in 1..MAX_FRAME_SIZE /\ Len(message) <= MAX_MESSAGE_SIZE
        printable == \A i \in DOMAIN message : message[i] \in (32..126) \cup (128..255) \cup {9, 10, 13}
    IN  /\ size /\ (~is_text \/ (MadeOf(Utf8, message) /\ printable)) => accepted
        /\ accepted => size /\ (~is_text \/ (MadeOf(Utf8 \cup Loose, message) /\ printable))
=============================================================================
