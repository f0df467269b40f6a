------------------------------ MODULE Bencode ------------------------------
(***************************************************************************)
(* bencode.h, bencode.cpp: the decoder, a recursive descent over bytes     *)
(* that are all there when it starts.  Indices count from 0, as m_index.   *)
(*                                                                         *)
(* A node is as in Documents, but that a dictionary is a function on its   *)
(* keys, and what it holds is what the variant holds.  The result of a decode function is a record out, node,  *)
(* next; out is                                                            *)
(*   "ok"     node, and the index behind it                                *)
(*   "null"   no node: a null pointer, and the index where it stood        *)
(*   "throw"  an exception nobody catches                                  *)
(*   "crash"  a null pointer is dereferenced                               *)
(*   "hang"   a loop that does not move and collects null pointers         *)
(***************************************************************************)
EXTENDS Documents, SequencesExt

Wrap(n, bits) == ((n + 2 ^ (bits - 1)) % (2 ^ bits)) - 2 ^ (bits - 1)

Ok(node, next) == [out |-> "ok", node |-> node, next |-> next]
Null(next) == [out |-> "null", next |-> next]
Throw == [out |-> "throw"]
Crash == [out |-> "crash"]
Hang == [out |-> "hang"]

\* The index of the first c at or behind i, or the end.
IndexOf(b, i, c) ==
    CHOOSE j \in i .. Len(b) :
        /\ j = Len(b) \/ b[j + 1] = c
        /\ \A k \in i + 1 .. j : b[k] # c

\* The loop of decode_int and get_str_len.  digit_overflows takes the value as an
\* int and finds an overflow when that is negative, and at no other time.
DigitOverflows(n) == Wrap(n, IntBits) < 0

AddDigit_Int(r, c) ==
    IF r.out = "ok" /\ IsDigit(c) /\ ~DigitOverflows(r.node)
    THEN Ok(Wrap(r.node * 10 + (c - 48), IntBits), r.next + 1)
    ELSE Throw
AddDigit(r, c) ==
    IF r.out = "ok" /\ IsDigit(c) /\ ~DigitOverflows(r.node)
    THEN Ok(Wrap(r.node * 10 + (c - 48), LongBits), r.next + 1)
    ELSE Throw

ReadNumber(b, i, stop) ==
    IF IndexOf(b, i, stop) = Len(b)
    THEN Throw
    ELSE FoldLeft(AddDigit, Ok(0, i), SubSeq(b, i + 1, IndexOf(b, i, stop)))

DecodeInt(b, i) ==
    LET r == ReadNumber(b, i, END_TOKEN)
    IN  IF r.out = "throw" \/ r.next = i THEN Throw ELSE Ok([int |-> r.node], r.next + 1)

\* get_str_len and decode_string; a length that wrapped to a negative one throws too.
DecodeString(b, i) ==
    LET r == ReadNumber(b, i, SDEL_TOKEN)
        first == r.next + 1
    IN  IF r.out = "throw" THEN Throw
        ELSE IF r.node < 0 \/ first + r.node > Len(b) THEN Throw
        ELSE Ok([str |-> SubSeq(b, first + 1, first + r.node)], first + r.node)

RECURSIVE Decode(_, _), DecodeList(_, _, _), DecodeDict(_, _, _)

\* decode_list, with the nodes it has so far.
EndOfList(b, i, nodes) == IF i >= Len(b) THEN Throw ELSE Ok([list |-> nodes], i + 1)
DecodeList(b, i, nodes) ==
    IF i >= Len(b) \/ b[i + 1] = END_TOKEN THEN EndOfList(b, i, nodes)
    ELSE LET r == Decode(b, i)
         IN  CASE r.out = "ok" -> DecodeList(b, r.next, Append(nodes, r.node))
               [] r.out = "null" -> Hang
               [] OTHER -> r

\* decode_dict.  A value that is a null pointer is stored like any other.
EndOfDict_Optional(b, i, d) == IF i >= Len(b) THEN Ok([dict |-> d], i) ELSE Ok([dict |-> d], i + 1)
EndOfDict(b, i, d) == IF i >= Len(b) THEN Throw ELSE Ok([dict |-> d], i + 1)
DecodeDict(b, i, d) ==
    IF i >= Len(b) \/ b[i + 1] = END_TOKEN THEN EndOfDict(b, i, d)
    ELSE LET key == Decode(b, i)
         IN  CASE key.out = "null" -> Crash
               [] key.out \notin {"ok", "null"} -> key
               [] key.out = "ok" /\ "str" \notin DOMAIN key.node -> Throw
               [] OTHER ->
                    LET r == Decode(b, key.next)
                    IN  CASE r.out = "ok" ->
                               DecodeDict(b, r.next, [k \in DOMAIN d \cup {key.node.str} |->
                                                        IF k = key.node.str THEN r.node ELSE d[k]])
                          [] r.out = "null" -> IF r.next = Len(b) THEN Throw ELSE Crash
                          [] OTHER -> r

\* decode, peek and step.
Decode(b, i) ==
    IF i >= Len(b) THEN Null(i)
    ELSE LET token == b[i + 1]
         IN  CASE token = EOFByte -> Null(i)
               [] token = INT_TOKEN -> DecodeInt(b, i + 1)
               [] token = LIST_TOKEN -> DecodeList(b, i + 1, <<>>)
               [] token = DICT_TOKEN -> DecodeDict(b, i + 1, <<>>)
               [] IsDigit(token) -> DecodeString(b, i)
               [] OTHER -> Throw

-----------------------------------------------------------------------------
(* Bencoding, as the authors of torrent files and the trackers do it;      *)
(* Meaning is the node that a document stands for, Numbers what ints it    *)
(* has.                                                                    *)

RECURSIVE Encode(_), Meaning(_), Numbers(_)

Encode(doc) ==
    CASE "int" \in DOMAIN doc -> <<INT_TOKEN>> \o Digits(doc.int) \o <<END_TOKEN>>
      [] "str" \in DOMAIN doc -> String(doc.str)
      [] "list" \in DOMAIN doc ->
            FoldLeft(LAMBDA s, x : s \o Encode(x), <<LIST_TOKEN>>, doc.list) \o <<END_TOKEN>>
      [] OTHER ->
            FoldLeft(LAMBDA s, e : s \o String(e[1]) \o Encode(e[2]), <<DICT_TOKEN>>, doc.dict)
               \o <<END_TOKEN>>

Meaning(doc) ==
    CASE "list" \in DOMAIN doc -> [list |-> [n \in DOMAIN doc.list |-> Meaning(doc.list[n])]]
      [] "dict" \in DOMAIN doc -> [dict |-> [k \in Keys(doc) |-> Meaning(Field(doc, k))]]
      [] OTHER -> doc

Numbers(doc) ==
    CASE "int" \in DOMAIN doc -> {doc.int}
      [] "list" \in DOMAIN doc -> UNION {Numbers(doc.list[n]) : n \in DOMAIN doc.list}
      [] "dict" \in DOMAIN doc -> UNION {Numbers(Field(doc, k)) : k \in Keys(doc)}
      [] OTHER -> {}
=============================================================================
