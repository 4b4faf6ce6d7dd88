--------------------------- MODULE HelpFunctions ----------------------------
(***************************************************************************)
(* The helpers of help_functions.c as functions, on inputs that a step     *)
(* picks: values kept in four copies, numbers in arrays of bits, card      *)
(* codes, dates, and the search for a text.                                *)
(***************************************************************************)
EXTENDS Integers, Sequences, FiniteSets, FiniteSetsExt

CONSTANTS
    Words,        \* values of an int kept in copies, 0 .. the greatest
    ArrayBits,    \* bits of an array
    ValueBits,    \* bits of a value in it, at most
    Cards,        \* card codes
    Days,         \* days since 1 January 1970
    Texts         \* what is searched, and what it is searched for

(* The first day that a year in one byte has, 1 January 2000, and the last   *)
(* before the calendar leaves out a leap day, 28 February 2100.              *)
FirstDay == 10957
LastDay == 47540

(* The place of a bit's byte, and the length of a text, have sixteen bits.    *)
ASSUME HelpAssumption ==
    /\ Words \in Nat /\ ValueBits \in 0..32 /\ Cards \subseteq Nat
    /\ ArrayBits \in Nat /\ ArrayBits \div 8 < 65536
    /\ Days \subseteq FirstDay..LastDay - 1
    /\ Texts \subseteq Seq(Nat) /\ \A text \in Texts : Len(text) < 65536

VARIABLE input

HelpInit == input = [helper |-> "none"]

(* The lowest bits of a number, and the number of such bits. *)
BitsOf(v, count) ==
    LET shifted[i \in 0..count] == IF i = 0 THEN v ELSE shifted[i - 1] \div 2
    IN  {i \in 0..count - 1 : shifted[i] % 2 = 1}

NumberOf(bits, count) ==
    LET upper[n \in 0..count] ==
            IF n = 0 THEN 0 ELSE 2 * upper[n - 1] + (IF count - n \in bits THEN 1 ELSE 0)
    IN  upper[count]

-----------------------------------------------------------------------------
(* vHF_PutIntToMajorBytesArray keeps a value and its complement, twice.      *)
Complement(v) == Words - v
MajorCopies(v) == <<v, Complement(v), v, Complement(v)>>

(* ucHF_GetMajorIntValueFromBytesArray: three of the four must agree. *)
MajorValue(c) ==
    LET v == <<c[1], Complement(c[2]), c[3], Complement(c[4])>>
    IN  IF v[1] # v[2]
        THEN IF v[2] = v[4] /\ v[2] = v[3] THEN v[2]
             ELSE IF v[1] = v[3] /\ v[1] = v[4] THEN v[1] ELSE -1
        ELSE IF v[3] = v[2] \/ v[4] = v[2] THEN v[1] ELSE -1

-----------------------------------------------------------------------------
(* Bit n of an array: byte n >> 3, bit 7 - (n & 7).  An array is the set of  *)
(* its one bits by that number.                                              *)
AddValueToArray(v, array, index, count) ==
    (array \ (index..index + count - 1))
        \cup {index + i : i \in {j \in 0..count - 1 : count - 1 - j \in BitsOf(v, count)}}

ExtractValue(array, index, count) ==
    NumberOf({i \in 0..count - 1 : index + count - 1 - i \in array}, count)

-----------------------------------------------------------------------------
(* uiHF_ConvertCardNumber: the low half and the two high bytes are each      *)
(* turned round.                                                             *)
Converted(bits) ==
    {15 - b : b \in bits \cap (0..15)} \cup {39 - b : b \in bits \cap (16..23)}
        \cup {55 - b : b \in bits \cap (24..31)}

(* bHF_DecodeWigandData on 26 or 50 bits: an even parity bit first, for the  *)
(* first half, and an odd one last, for the second half.                     *)
Odd(bits) == Cardinality(bits) % 2 = 1

Halves(bits, size) ==
    [first |-> {b \in bits : b \in 1..(size \div 2) - 1},
     second |-> {b \in bits : b \in (size \div 2)..size - 2}]

FirstParity(bits, size) == Odd(Halves(bits, size).first) <=> 0 \in bits
SecondParity(bits, size) == Odd(Halves(bits, size).second) <=> size - 1 \notin bits

CardCode(bits, size) == {i \in 0..31 : i < size - 2 /\ size - 2 - i \in bits}

(* Of 25 bits the first parity bit is missing: they are shifted by one. *)
DecodeWiegand(bits, size) ==
    LET all == IF size = 25 THEN {b + 1 : b \in bits} ELSE bits
        total == IF size = 25 THEN 26 ELSE size
    IN  IF (size = 25 \/ FirstParity(all, total)) /\ SecondParity(all, total)
        THEN CardCode(all, total) ELSE {-1}

(* What a reader of cards sends. *)
WiegandFrame(code) ==
    LET data == {24 - i : i \in BitsOf(code, 24)}
    IN  data \cup {b \in {0} : Odd(data \cap (1..12))} \cup {b \in {25} : ~Odd(data \cap (13..24))}

-----------------------------------------------------------------------------
(* Dates.  Years count from 1900; one in four is a leap year, but not 1900.  *)
lmos == <<0, 31, 60, 91, 121, 152, 182, 213, 244, 274, 305, 335>>
mos == <<0, 31, 59, 90, 120, 151, 181, 212, 243, 273, 304, 334>>

(* Mutant: years are taken for leap years by the remainder 1. *)
LateLeapYear(year) == IF year % 4 # 1 \/ year = 0 THEN mos ELSE lmos

MONTAB(year) == IF year % 4 # 0 \/ year = 0 THEN mos ELSE lmos
DAYS_TO_32(year, mon) == (year - 1) \div 4 + MONTAB(year)[mon + 1]

UnixToDateTime(day) ==
    LET days == 25567 + day
        StartOf(y) == DAYS_TO_32(y, 0) + 365 * y
        year == Max({y \in 0..days \div 365 : StartOf(y) <= days})
        rest == days - StartOf(year)
        month == Max({m \in 1..12 : MONTAB(year)[m] <= rest})
    IN  <<year - 100, month, rest - MONTAB(year)[month] + 1>>

DateTimeToUnix(date) ==
    LET month == IF date[2] = 0 THEN 0 ELSE date[2] - 1
        year == 100 + date[1]
    IN  DAYS_TO_32(year, month) - 1 + 365 * year + date[3] - 25567

(* The calendar itself, from 2000 on. *)
LeapYear(y) == y % 4 = 0 /\ (y % 100 # 0 \/ y % 400 = 0)
MonthLength(y, m) ==
    IF m = 2 THEN IF LeapYear(y) THEN 29 ELSE 28 ELSE IF m \in {4, 6, 9, 11} THEN 30 ELSE 31

NextDate(date) ==
    IF date[3] < MonthLength(2000 + date[1], date[2]) THEN <<date[1], date[2], date[3] + 1>>
    ELSE IF date[2] < 12 THEN <<date[1], date[2] + 1, 1>> ELSE <<date[1] + 1, 1, 1>>

-----------------------------------------------------------------------------
(* bHF_FindText: place by place, until the text is found or the input comes *)
(* to its end before the text does; a zero only ends the comparison.         *)
FindText(ref, text) ==
    LET Compared(i) ==
            LET stops == {k \in 1..Len(ref) : i + k > Len(text) \/ text[i + k] = 0}
            IN  IF stops = {} THEN Len(ref) ELSE Min(stops) - 1
        Here(i) == Compared(i) = Len(ref) /\ SubSeq(text, i + 1, i + Len(ref)) = ref
        TooLong(i) == Compared(i) < Len(ref) /\ i + Compared(i) = Len(text)
        last == {i \in 0..Len(text) - 1 : Here(i) \/ TooLong(i)}
    IN  IF last # {} /\ Here(Min(last)) THEN Min(last) ELSE -1

-----------------------------------------------------------------------------
HelpNext ==
    /\ input.helper = "none"
    /\ \/ \E v, w \in 0..Words, n \in 1..4 :
              input' = [helper |-> "major", v |-> v, copies |-> [MajorCopies(v) EXCEPT ![n] = w]]
       \/ \E array \in {{}, 0..ArrayBits - 1}, index \in 0..ArrayBits - 1, count \in 1..ValueBits :
              /\ index + count <= ArrayBits
              /\ \E bits \in SUBSET (0..count - 1) :
                     input' = [helper |-> "bits", array |-> array, index |-> index,
                               count |-> count, v |-> NumberOf(bits, count)]
       \/ \E code \in Cards, bit \in 0..26 : input' = [helper |-> "card", code |-> code, bit |-> bit]
       \/ \E day \in Days : input' = [helper |-> "date", day |-> day]
       \/ \E ref, text \in Texts : input' = [helper |-> "text", ref |-> ref, text |-> text]

(* A value of which one copy is damaged is read all the same. *)
MajorCorrects == input.helper = "major" => MajorValue(input.copies) = input.v

(* A number is read back from where it was put, and no other bit is touched. *)
BitsKept ==
    input.helper = "bits" =>
        LET array == AddValueToArray(input.v, input.array, input.index, input.count)
            place == input.index..input.index + input.count - 1
        IN  ExtractValue(array, input.index, input.count) = input.v
            /\ array \ place = input.array \ place

(* A card's code is read from its frame, and not when a bit is wrong; the    *)
(* code turned round twice is the code.                                      *)
CardRead ==
    input.helper = "card" =>
        LET frame == WiegandFrame(input.code)
            damaged == (frame \ {input.bit}) \cup ({input.bit} \ frame)
        IN  /\ DecodeWiegand(frame, 26) = BitsOf(input.code, 24)
            /\ DecodeWiegand({b - 1 : b \in frame \ {0}}, 25) = BitsOf(input.code, 24)
            /\ input.bit < 26 => DecodeWiegand(damaged, 26) = {-1}
            /\ Converted(Converted(BitsOf(input.code, 24))) = BitsOf(input.code, 24)

(* The date of the next day is the calendar's next date, and converting      *)
(* there and back again changes nothing.                                     *)
DateConverted ==
    input.helper = "date" =>
        /\ UnixToDateTime(input.day + 1) = NextDate(UnixToDateTime(input.day))
        /\ DateTimeToUnix(UnixToDateTime(input.day)) = input.day

(* The text is found at the first place where it stands. *)
TextFound ==
    input.helper = "text" =>
        LET places == {i \in 0..Len(input.text) - Len(input.ref) :
                           SubSeq(input.text, i + 1, i + Len(input.ref)) = input.ref}
        IN  0 \notin {input.ref[k] : k \in DOMAIN input.ref} /\ input.text # <<>> =>
                FindText(input.ref, input.text) = IF places = {} THEN -1 ELSE Min(places)

(* The helpers do on every input what their callers rely on: what is stored  *)
(* or converted is got back, a damaged value is corrected or refused, and    *)
(* dates follow the calendar (to 28 February 2100, which they take for a     *)
(* leap year).                                                               *)
HelpersAgree == MajorCorrects /\ BitsKept /\ CardRead /\ DateConverted /\ TextFound
=============================================================================
