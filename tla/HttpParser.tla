----------------------------- MODULE HttpParser -----------------------------
(***************************************************************************)
(* http_parser.cpp: the answer of the tracker, and info_hash::hex_str,     *)
(* which makes the parameter the tracker knows a torrent by.  Bytes that   *)
(* no test looks at are symbols: a name or a word is one of them.          *)
(***************************************************************************)
EXTENDS Integers, Sequences

SP == 32
CR == 13
LF == 10
COLON == 58

\* The index of the first byte at or behind i that Stop accepts, or the end.
Skip(t, i, Stop(_)) ==
    CHOOSE j \in i .. Len(t) :
        /\ j = Len(t) \/ Stop(t[j + 1])
        /\ \A k \in i + 1 .. j : ~Stop(t[k])

\* How many bytes of the pattern match from index i on, before limit.
Matched(t, pattern, limit, i) ==
    CHOOSE j \in 0 .. Len(pattern) :
        /\ \A k \in 1 .. j : i + k <= limit /\ t[i + k] = pattern[k]
        /\ j = Len(pattern) \/ i + j >= limit \/ t[i + j + 1] # pattern[j + 1]

\* The loop that find_pattern of torrent.cpp and get_body share: i walks over the
\* bytes before limit, j over the pattern, and a mismatch takes i back to the
\* byte behind the one where this attempt began.  The index of the last byte of
\* the match, or -1.
AfterMismatch_NotBack(i, j) == i + 1
AfterMismatch(i, j) == i - j + 1
Search(t, pattern, limit) ==
    LET from[i \in 0 .. Len(t)] ==
            LET j == Matched(t, pattern, limit, i)
            IN  IF j = Len(pattern) THEN i + j - 1
                ELSE IF i + j >= limit THEN -1
                ELSE from[AfterMismatch(i + j, j)]
    IN  from[0]

\* parse_header: version, spaces, status, the rest of the line, then one header after
\* the other; the last one of a name counts.  "end += 2" can step over the end of the
\* message, and nothing stops it there.
ParseHeader(t) ==
    LET headers[e \in 0 .. Len(t) + 2] ==
            LET end == Skip(t, e, LAMBDA c : c = CR)
                line == SubSeq(t, e + 1, end)
                colon == Skip(line, 0, LAMBDA c : c = COLON)
                value == Skip(line, colon + 1, LAMBDA c : c # SP)
                rest == headers[end + 2]
            IN  IF e > Len(t) THEN [out |-> "undefined"]
                ELSE IF end = e THEN [out |-> "ok", header |-> <<>>]
                ELSE IF colon = Len(line) THEN [out |-> "exit"]
                ELSE IF rest.out # "ok" THEN rest
                ELSE [out |-> "ok",
                      header |-> [k \in {SubSeq(line, 1, colon)} \cup DOMAIN rest.header |->
                                    IF k \in DOMAIN rest.header THEN rest.header[k]
                                    ELSE SubSeq(line, value + 1, Len(line))]]
        version == Skip(t, 0, LAMBDA c : c = SP)
        status == Skip(t, version, LAMBDA c : c # SP)
        line == Skip(t, Skip(t, status, LAMBDA c : c = SP), LAMBDA c : c = CR)
    IN  headers[line + 2]

\* get_body: the index of the body, or -1, the null pointer.
EndOfHeader == <<CR, LF, CR, LF>>
GetBody(t) ==
    LET last == Search(t, EndOfHeader, Len(t) - Len(EndOfHeader))
    IN  IF last = -1 THEN -1 ELSE last + 1

-----------------------------------------------------------------------------
(* info_hash::hex_str.                                                     *)

HexDigit(n) == IF n < 10 THEN 48 + n ELSE 87 + n
PERCENT == 37

\* sprintf writes two digits, a line feed and a zero for each byte; the next byte
\* overwrites the last two of them.
Sprintf(buffer, at, byte) ==
    SubSeq(buffer, 1, at) \o <<HexDigit(byte \div 16), HexDigit(byte % 16), LF, 0>>

HexDigits(hash) ==
    LET hex[n \in 0 .. Len(hash)] ==
            IF n = 0 THEN <<>> ELSE Sprintf(hex[n - 1], 2 * (n - 1), hash[n])
    IN  hex[Len(hash)]

\* A percent sign and the two digits of each byte.
HexStr(hash) ==
    [n \in 1 .. 3 * Len(hash) |->
        IF n % 3 = 1 THEN PERCENT ELSE HexDigits(hash)[n - ((n + 2) \div 3)]]
=============================================================================
