----------------------- MODULE TcpOptionParserProofs -----------------------
(***************************************************************************)
(* Proofs about the TCP option parser, for every set of data offsets and   *)
(* every sequence of options.                                              *)
(***************************************************************************)
EXTENDS TcpOptionParser, TLAPS

\* Bytes that belong to the header and were neither extracted nor are left.
Lost(p) == p.total - p.extracted - p.left

ParserStates == [state : {"next_option", "accept", "reject"}, error : Errors,
                 left : 0 .. 40, vec : 0 .. StackSize, total : 0 .. 40,
                 extracted : 0 .. 40]

\* The invariant: at most the blocks of one SACK option are lost.  When they
\* are, fewer than 34 bytes are left, so that there is no second such option.
Accounted(p) ==
    /\ p \in ParserStates
    /\ p.state \in {"next_option", "reject"} => Lost(p) = 0 \/ Lost(p) = 32
    /\ p.state = "accept" => p.total - p.extracted = 0 \/ p.total - p.extracted = 32

HeaderInv == Accounted(parser)

-----------------------------------------------------------------------------
(* Operators *)

\* Seven bits are enough for the bytes of the longest header.
LEMMA Bit7 == \A n \in 0 .. 40 : ToBit7(n) = n
BY SMT DEF ToBit7

\* Of the legal SACK options all are extracted whole, but for the longest.
LEMMA SackExtracted ==
    \A n \in LegalSackLengths :
        /\ n \in 10 .. 34
        /\ SackBytes(n) = IF n = 34 THEN 2 ELSE n
BY SMT DEF LegalSackLengths, SackBytes, ToByte8

\* Of t bytes e are extracted, l are left, and the rest is lost: extracting
\* what is left reaches the end of the header, or of what was not lost.
LEMMA MovedAll ==
    ASSUME NEW t \in 0 .. 40, NEW e \in 0 .. 40, NEW l \in 0 .. 40,
           t - e - l = 0 \/ t - e - l = 32
    PROVE  /\ e <= t
           /\ e + l \in 0 .. 40
           /\ t - (e + l) = 0 \/ t - (e + l) = 32
OBVIOUS

\* An error ends the parser and leaves its account as it is.
LEMMA RejectedAccounted ==
    ASSUME NEW p, Accounted(p), p.state # "accept", NEW error \in Errors
    PROVE  Accounted(Rejected(p, error)) /\ Rejected(p, error).state = "reject"
BY DEF Rejected, Accounted, ParserStates, Lost

\* An option of n bytes of which size are extracted keeps the account, if the
\* bytes are there and either all are extracted or all but the 32 of a SACK.
LEMMA TakenAccounted ==
    ASSUME NEW p, Accounted(p), p.state = "next_option",
           NEW n \in 1 .. 34, n <= p.left,
           NEW size, size = n \/ (n = 34 /\ size = 2)
    PROVE  /\ Accounted(Taken(p, n, size))
           /\ Taken(p, n, size).state \in {"next_option", "reject"}
<1>1. CASE p.vec = StackSize
    <2>1. Taken(p, n, size) = Rejected(p, "StackOutOfBounds")
        BY <1>1 DEF Taken
    <2>2. "StackOutOfBounds" \in Errors
        BY DEF Errors
    <2> QED BY <2>1, <2>2, RejectedAccounted
<1>2. CASE p.vec # StackSize
    <2> DEFINE q == Taken(p, n, size)
    <2>1. p \in ParserStates /\ (Lost(p) = 0 \/ Lost(p) = 32)
        BY DEF Accounted
    <2>2. /\ p.left \in 0 .. 40 /\ p.total \in 0 .. 40 /\ p.extracted \in 0 .. 40
          /\ p.vec \in 0 .. StackSize /\ p.error \in Errors
        BY <2>1 DEF ParserStates
    <2>3. p.total - p.extracted - p.left = 0 \/ p.total - p.extracted - p.left = 32
        BY <2>1 DEF Lost
    <2>4. /\ p.left - n \in 0 .. 40 /\ p.extracted + size \in 0 .. 40
          /\ \/ p.total - (p.extracted + size) - (p.left - n) = 0
             \/ p.total - (p.extracted + size) - (p.left - n) = 32
        <3> DEFINE t == p.total
                   e == p.extracted
                   l == p.left
        <3>1. /\ t \in 0 .. 40 /\ e \in 0 .. 40 /\ l \in 0 .. 40
              /\ t - e - l = 0 \/ t - e - l = 32
              /\ n <= l
            BY <2>2, <2>3
        <3>2. size \in 1 .. 34
            OBVIOUS
        <3> HIDE DEF t, e, l
        <3>3. /\ l - n \in 0 .. 40 /\ e + size \in 0 .. 40
              /\ t - (e + size) - (l - n) = 0 \/ t - (e + size) - (l - n) = 32
            <4>1. CASE size = n
                BY <3>1, <4>1
            <4>2. CASE n = 34 /\ size = 2
                BY <3>1, <4>2
            <4> QED BY <4>1, <4>2
        <3> QED BY <3>3 DEF t, e, l
    <2>5. ToBit7(p.left - n) = p.left - n
        BY <2>4, Bit7
    <2>6. q = [p EXCEPT !.left = p.left - n, !.vec = @ + 1, !.extracted = @ + size]
        BY <1>2, <2>5 DEF Taken
    <2>7. /\ q.state = "next_option" /\ q.error = p.error /\ q.left = p.left - n
          /\ q.vec = p.vec + 1 /\ q.total = p.total /\ q.extracted = p.extracted + size
        BY <2>1, <2>6 DEF ParserStates
    <2>8. p.vec + 1 \in 0 .. StackSize
        BY <1>2, <2>2 DEF StackSize
    <2>9. q \in ParserStates
        BY <2>1, <2>2, <2>4, <2>6, <2>8 DEF ParserStates
    <2> QED BY <2>4, <2>7, <2>9 DEF Accounted, Lost
<1> QED BY <1>1, <1>2

\* An option whose length is checked first keeps the account as well.
LEMMA VerifiedAccounted ==
    ASSUME NEW p, Accounted(p), p.state = "next_option",
           NEW n \in 1 .. 34,
           NEW size, size = n \/ (n = 34 /\ size = 2)
    PROVE  /\ Accounted(Verified(p, n, size))
           /\ Verified(p, n, size).state \in {"next_option", "reject"}
<1>1. CASE p.left >= n
    <2>1. n <= p.left
        BY <1>1 DEF Accounted, ParserStates
    <2> QED BY <1>1, <2>1, TakenAccounted DEF Verified
<1>2. CASE ~(p.left >= n)
    <2>1. "TcpOptionTooLongForHeader" \in Errors
        BY DEF Errors
    <2> QED BY <1>2, <2>1, RejectedAccounted DEF Verified
<1> QED BY <1>1, <1>2

-----------------------------------------------------------------------------
(* The parser *)

\* Whatever its data offset, a header begins with nothing lost.
LEMMA StartedAccounted ==
    ASSUME NEW offset \in 0 .. 15
    PROVE  Accounted(Started(offset)) /\ Started(offset).state \in {"next_option", "reject"}
<1> DEFINE bytes == IF offset >= 5 THEN ToBit7(4 * (offset - 5)) ELSE 0
           p == [state |-> "next_option", error |-> "NoError", left |-> bytes,
                 vec |-> 0, total |-> bytes, extracted |-> 0]
<1>1. bytes \in 0 .. 40
    BY Bit7
<1>2. Accounted(p) /\ p.state = "next_option"
    <2> HIDE DEF bytes
    <2> QED BY <1>1 DEF Accounted, ParserStates, Lost, Errors, StackSize
<1>3. Accounted(Rejected(p, "TcpDataOffsetTooSmall"))
      /\ Rejected(p, "TcpDataOffsetTooSmall").state = "reject"
    <2>1. "TcpDataOffsetTooSmall" \in Errors
        BY DEF Errors
    <2> HIDE DEF p
    <2> QED BY <1>2, <2>1, RejectedAccounted
<1>4. Started(offset) \in {p, Rejected(p, "TcpDataOffsetTooSmall")}
    BY DEF Started
<1> HIDE DEF p
<1> QED BY <1>2, <1>3, <1>4

\* The end of the list: its byte, and the rest of the header as padding.
LEMMA EndAccounted == ASSUME Accounted(parser), OptionEnd PROVE Accounted(parser')
<1> DEFINE end == Taken(parser, 1, 1)
<1>1. parser \in ParserStates /\ parser.state = "next_option" /\ 1 <= parser.left
    BY DEF OptionEnd, AtOption, Accounted, ParserStates
<1>2. Accounted(end) /\ end.state \in {"next_option", "reject"}
    BY <1>1, TakenAccounted
<1>3. parser' = IF end.state = "reject" THEN end
                ELSE IF end.left > PaddingBytes THEN Rejected(end, "HeaderTooShort")
                ELSE [end EXCEPT !.state = "accept", !.extracted = @ + end.left]
    BY DEF OptionEnd
<1> HIDE DEF end
<1>4. CASE end.state = "reject"
    BY <1>2, <1>3, <1>4
<1>5. CASE end.state # "reject" /\ end.left > PaddingBytes
    <2>1. "HeaderTooShort" \in Errors
        BY DEF Errors
    <2> QED BY <1>2, <1>3, <1>5, <2>1, RejectedAccounted
<1>6. CASE end.state # "reject" /\ ~(end.left > PaddingBytes)
    <2>1. parser' = [end EXCEPT !.state = "accept", !.extracted = end.extracted + end.left]
        BY <1>3, <1>6
    <2>2. /\ end \in ParserStates
          /\ \/ end.total - end.extracted - end.left = 0
             \/ end.total - end.extracted - end.left = 32
        BY <1>2, <1>6 DEF Accounted, Lost
    <2>3. end.left \in 0 .. 40 /\ end.total \in 0 .. 40 /\ end.extracted \in 0 .. 40
        BY <2>2 DEF ParserStates
    <2>4. /\ end.extracted + end.left \in 0 .. 40
          /\ \/ end.total - (end.extracted + end.left) = 0
             \/ end.total - (end.extracted + end.left) = 32
        BY <2>2, <2>3, MovedAll
    <2>5. parser' \in ParserStates
        BY <2>1, <2>2, <2>4 DEF ParserStates
    <2>6. /\ parser'.state = "accept" /\ parser'.total = end.total
          /\ parser'.extracted = end.extracted + end.left
        BY <2>1, <2>2 DEF ParserStates
    <2> QED BY <2>4, <2>5, <2>6 DEF Accounted
<1> QED BY <1>4, <1>5, <1>6

\* Every step keeps the account.
LEMMA ParserStep == ASSUME Accounted(parser), [ParserNext]_parser PROVE Accounted(parser')
<1>o. ASSUME AtOption
      PROVE  parser.state = "next_option" /\ 1 <= parser.left
    BY <1>o DEF AtOption, Accounted, ParserStates
<1>1. ASSUME OptionsDone PROVE Accounted(parser')
    <2>1. /\ parser.state = "next_option" /\ parser.left = 0
          /\ parser' = [parser EXCEPT !.state = "accept"]
        BY <1>1 DEF OptionsDone
    <2>2. parser \in ParserStates /\ (parser.total - parser.extracted = 0 \/ parser.total - parser.extracted = 32)
        BY <2>1 DEF Accounted, Lost
    <2>3. parser.total \in 0 .. 40 /\ parser.extracted \in 0 .. 40
        BY <2>2 DEF ParserStates
    <2>4. parser' \in ParserStates /\ parser'.state = "accept"
          /\ parser'.total = parser.total /\ parser'.extracted = parser.extracted
        BY <2>1, <2>2 DEF ParserStates
    <2> QED BY <2>2, <2>3, <2>4 DEF Accounted
<1>2. ASSUME OptionEnd PROVE Accounted(parser')
    BY <1>2, EndAccounted
<1>3. ASSUME OptionNop PROVE Accounted(parser')
    BY <1>3, <1>o, TakenAccounted DEF OptionNop
<1>4. ASSUME OptionSs PROVE Accounted(parser')
    BY <1>4, <1>o, VerifiedAccounted DEF OptionSs
<1>5. ASSUME OptionS PROVE Accounted(parser')
    BY <1>5, <1>o, VerifiedAccounted DEF OptionS
<1>6. ASSUME OptionSack PROVE Accounted(parser')
    <2>1. PICK n \in SackLengths :
              parser' = IF n \in LegalSackLengths
                        THEN Verified(parser, n, SackBytes(n))
                        ELSE Rejected(parser, "TcpBadSackOptionLength")
        BY <1>6 DEF OptionSack
    <2>2. parser.state = "next_option"
        BY <1>6, <1>o DEF OptionSack
    <2>3. CASE n \in LegalSackLengths
        <3>1. n \in 1 .. 34 /\ (SackBytes(n) = n \/ (n = 34 /\ SackBytes(n) = 2))
            BY <2>3, SackExtracted
        <3> QED BY <2>1, <2>2, <2>3, <3>1, VerifiedAccounted
    <2>4. CASE n \notin LegalSackLengths
        <3>1. "TcpBadSackOptionLength" \in Errors
            BY DEF Errors
        <3> QED BY <2>1, <2>2, <2>4, <3>1, RejectedAccounted
    <2> QED BY <2>3, <2>4
<1>7. ASSUME OptionOther PROVE Accounted(parser')
    <2>1. "NoMatch" \in Errors
        BY DEF Errors
    <2> QED BY <1>7, <1>o, <2>1, RejectedAccounted DEF OptionOther
<1>8. CASE UNCHANGED parser
    BY <1>8
<1> QED BY <1>1, <1>2, <1>3, <1>4, <1>5, <1>6, <1>7, <1>8 DEF ParserNext

\* What the account says of the states of the parser.
LEMMA AccountedHeader == HeaderInv => ParserTypeOK /\ HeaderIsAccounted
<1> SUFFICES ASSUME Accounted(parser) PROVE ParserTypeOK /\ HeaderIsAccounted
    BY DEF HeaderInv
<1>1. /\ parser.state \in {"next_option", "accept", "reject"}
      /\ parser.left \in 0 .. 40 /\ parser.total \in 0 .. 40 /\ parser.extracted \in 0 .. 40
    BY DEF Accounted, ParserStates
<1>2. parser.extracted <= parser.total
    <2>1. CASE parser.state = "accept"
        BY <1>1, <2>1 DEF Accounted
    <2>2. CASE parser.state # "accept"
        <3>1. \/ parser.total - parser.extracted - parser.left = 0
              \/ parser.total - parser.extracted - parser.left = 32
            BY <1>1, <2>2 DEF Accounted, Lost
        <3> QED BY <1>1, <3>1, MovedAll
    <2> QED BY <2>1, <2>2
<1> QED BY <1>2 DEF Accounted, ParserStates, Lost, ParserTypeOK, HeaderIsAccounted

\* The account holds at the start.
LEMMA ParserStarts == ParserInit => HeaderInv
BY OffsetsAssumption, StartedAccounted DEF ParserInit, HeaderInv

\* The parser keeps its variables within their bounds for all data offsets.
THEOREM ParserTypeCorrect == ParserSpec => []ParserTypeOK
<1>1. HeaderInv /\ [ParserNext]_parser => HeaderInv'
    BY ParserStep DEF HeaderInv
<1> QED BY <1>1, ParserStarts, AccountedHeader, PTL DEF ParserSpec

\* For every data offset and all options, the parser never extracts more than
\* the header, and what it loses is nothing or the blocks of one SACK option.
THEOREM ParserKeepsAccount == ParserSpec => []HeaderIsAccounted
<1>1. HeaderInv /\ [ParserNext]_parser => HeaderInv'
    BY ParserStep DEF HeaderInv
<1> QED BY <1>1, ParserStarts, AccountedHeader, PTL DEF ParserSpec
=============================================================================
