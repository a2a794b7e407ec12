----------------------------- MODULE Encryption -----------------------------
(***************************************************************************)
(* DecryptValue up to AES-GCM itself, which is the library's: when a text  *)
(* is refused, and when its shortness makes the slice for the              *)
(* authentication tag panic.                                               *)
(***************************************************************************)
EXTENDS Integers, Sequences

CONSTANTS
    Parts(_),          \* a text between its first two "--": at most three parts
    HexDigits(_),      \* how many digits a text has, or -1 if it is not hexadecimal
    OpenGCM(_, _),     \* (secret key, text): a text, or NoText if it is not authentic
    NoText,
    Panics

IsHex(digits) == digits >= 0 /\ digits % 2 = 0

KeyBytes == {16, 24, 32}
Overhead == 16

\* Data and tag are decoded together, so that each may have an odd number of
\* digits.
DecryptValue(secretKey, value) ==
    LET parts == Parts(value)
    IN  IF ~IsHex(HexDigits(secretKey)) \/ Len(parts) < 3 THEN NoText
        ELSE LET data == HexDigits(parts[1])
                 iv   == HexDigits(parts[2])
                 tag  == HexDigits(parts[3])
             IN  CASE ~IsHex(iv) \/ data < 0 \/ tag < 0 \/ ~IsHex(data + tag) -> NoText
                   [] HexDigits(secretKey) \div 2 \notin KeyBytes \/ iv = 0  -> NoText
                   [] (data + tag) \div 2 < Overhead                         -> Panics
                   [] OTHER -> OpenGCM(secretKey, value)
=============================================================================
