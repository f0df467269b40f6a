----------------------------- MODULE Documents -----------------------------
(***************************************************************************)
(* Bencoded documents, as the authors of torrent files and the trackers    *)
(* write them: nodes, whose dictionaries are sequences of <<key, node>>,   *)
(* so that the order in the file is kept.  A node is a record with one     *)
(* field, named for what it holds: int, str, list or dict.                 *)
(***************************************************************************)
EXTENDS Integers, Sequences

CONSTANTS IntBits,      \* width of int: 32
          LongBits      \* width of long long: 64

ASSUME WidthAssumption == IntBits \in Nat \ {0} /\ LongBits \in Nat /\ IntBits + 6 < LongBits

END_TOKEN == 101        \* 'e'
INT_TOKEN == 105        \* 'i'
LIST_TOKEN == 108       \* 'l'
DICT_TOKEN == 100       \* 'd'
SDEL_TOKEN == 58        \* ':'
EOFByte == 255          \* as a char it equals EOF, which peek returns at the end

IsDigit(c) == c \in 48 .. 57

Digits(number) ==
    LET digits[n \in Nat] ==
            IF n < 10 THEN <<48 + n>> ELSE digits[n \div 10] \o <<48 + (n % 10)>>
    IN  digits[number]
String(s) == Digits(Len(s)) \o <<SDEL_TOKEN>> \o s

Keys(doc) == {doc.dict[n][1] : n \in DOMAIN doc.dict}
Field(doc, key) == doc.dict[CHOOSE n \in DOMAIN doc.dict : doc.dict[n][1] = key][2]
=============================================================================
