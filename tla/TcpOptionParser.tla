-------------------------- MODULE TcpOptionParser --------------------------
(***************************************************************************)
(* tcp_option_parser of p4src/include/parser.p4.  The bytes of the options *)
(* are chosen when the parser looks at them: a kind, and for a SACK option *)
(* its length.  The header itself is complete.                             *)
(***************************************************************************)
EXTENDS Integers

CONSTANT Offsets    \* values of the data offset field, bit<4>

ASSUME OffsetsAssumption == Offsets \subseteq 0 .. 15

StackSize == 10         \* elements of tcp_option_stack
PaddingBytes == 32      \* varbit<256> of tcp_option_padding_h
ToBit7(n) == n % 128
ToByte8(n) == n % 256

\* Values of the length byte behind a SACK kind; 2 stands for every other.
LegalSackLengths == {10, 18, 26, 34}
SackLengths == {2} \cup LegalSackLengths

(***************************************************************************)
(* parser: its state and error; left, the variable tcp_hdr_bytes_left; vec,*)
(* the elements of the option stack in use; and, not in the program, the   *)
(* bytes of options the header has and those extracted so far.             *)
(***************************************************************************)
VARIABLE parser

Rejected(p, error) == [p EXCEPT !.state = "reject", !.error = error]

\* The start state.
Started(offset) ==
    LET bytes == IF offset >= 5 THEN ToBit7(4 * (offset - 5)) ELSE 0
        p == [state |-> "next_option", error |-> "NoError", left |-> bytes,
              vec |-> 0, total |-> bytes, extracted |-> 0]
    IN  IF offset >= 5 THEN p ELSE Rejected(p, "TcpDataOffsetTooSmall")

\* One more option in the stack: n bytes are deducted, size are extracted.
\* What is left when parsing stops with an error is of no use to anyone.
Taken(p, n, size) ==
    IF p.vec = StackSize
    THEN Rejected(p, "StackOutOfBounds")
    ELSE [p EXCEPT !.left = ToBit7(@ - n), !.vec = @ + 1,
                   !.extracted = @ + size]

\* Mutant of Verified: the option is taken without looking at what is left.
VerifiedAlways(p, n, size) == Taken(p, n, size)

Verified(p, n, size) ==
    IF p.left >= n
    THEN Taken(p, n, size)
    ELSE Rejected(p, "TcpOptionTooLongForHeader")

\* Two fixed bytes and 8 * n - 16 bits, computed in eight bits.
SackBytes(n) == 2 + ToByte8(8 * n - 16) \div 8
-----------------------------------------------------------------------------
AtOption == parser.state = "next_option" /\ parser.left > 0

OptionsDone ==
    /\ parser.state = "next_option" /\ parser.left = 0
    /\ parser' = [parser EXCEPT !.state = "accept"]

\* The end of the list, and the rest of the header as padding.
OptionEnd ==
    /\ AtOption
    /\ LET end == Taken(parser, 1, 1)
       IN  parser' = IF end.state = "reject" THEN end
                     ELSE IF end.left > PaddingBytes
                     THEN Rejected(end, "HeaderTooShort")
                     ELSE [end EXCEPT !.state = "accept",
                                      !.extracted = @ + end.left]

OptionNop == AtOption /\ parser' = Taken(parser, 1, 1)

\* Maximum segment size and window scale, as the headers define them.
OptionSs == AtOption /\ parser' = Verified(parser, 5, 5)
OptionS == AtOption /\ parser' = Verified(parser, 4, 4)

OptionSack ==
    /\ AtOption
    /\ \E n \in SackLengths :
          parser' = IF n \in LegalSackLengths
                    THEN Verified(parser, n, SackBytes(n))
                    ELSE Rejected(parser, "TcpBadSackOptionLength")

\* No other kind has a case in the select.
OptionOther == AtOption /\ parser' = Rejected(parser, "NoMatch")

ParserInit == \E offset \in Offsets : parser = Started(offset)

ParserNext ==
    \/ OptionsDone
    \/ OptionEnd
    \/ OptionNop
    \/ OptionSs
    \/ OptionS
    \/ OptionSack
    \/ OptionOther

ParserSpec == ParserInit /\ [][ParserNext]_parser
-----------------------------------------------------------------------------
Errors == {"NoError", "TcpDataOffsetTooSmall", "TcpOptionTooLongForHeader",
           "TcpBadSackOptionLength", "StackOutOfBounds", "HeaderTooShort", "NoMatch"}

\* tcp_hdr_bytes_left stays in the 0 to 40 its comment gives it, the stack
\* within its elements, and nothing is extracted beyond 40 bytes.
ParserTypeOK ==
    parser \in [state : {"next_option", "accept", "reject"}, error : Errors,
                left : 0 .. 40, vec : 0 .. StackSize, total : 0 .. 40,
                extracted : 0 .. 40]

\* What the parser took for options never reaches past the TCP header, and
\* the bytes it has lost sight of when it accepts or looks for the next option
\* are none, or the blocks of the one SACK option of 34 bytes.
HeaderIsAccounted ==
    /\ parser.extracted <= parser.total
    /\ parser.state = "next_option" =>
           parser.total - parser.extracted - parser.left \in {0, 32}
    /\ parser.state = "accept" => parser.total - parser.extracted \in {0, 32}

\* tcp_hdr_bytes_left is the number of bytes of the header that are left.
LeftIsHonest ==
    parser.state = "next_option" =>
        parser.left = parser.total - parser.extracted

\* The end of the options skips past the rest of the TCP header, however many
\* bytes are left of it: it never overruns the padding.
EndSkipsTheRest == parser.error # "HeaderTooShort"
=============================================================================
