------------------------------ MODULE MorseCode ------------------------------
(***************************************************************************)
(* The Morse alphabet of the two applications: the arrays of morse_code.h   *)
(* (identical in ls2kdev_play and ls2kdev_record but for the punctuation,   *)
(* which only the player's copy has), in the order the header declares      *)
(* them.  A character is a one-character string, a mark is DIAN or HUA.     *)
(***************************************************************************)
EXTENDS Integers, Sequences, FiniteSets

\* The 16-bit words of a code array (morse_code.h): dot, dash, the end of a
\* character and the space between two words.
DIAN      == 100
HUA       == 300
ZIFU_KONG == 3000
CI_KONG   == 7000

LOCAL d == DIAN
LOCAL h == HUA

\* morse_kong, morse_A, ..., morse_at: the marks of each array, without the
\* ZIFU_KONG that ends every one of them.
Table == <<
  << " ", <<CI_KONG>> >>,
  << "A", <<d,h>> >>,     << "B", <<h,d,d,d>> >>, << "C", <<h,d,h,d>> >>,
  << "D", <<h,d,d>> >>,   << "E", <<d>> >>,       << "F", <<d,d,h,d>> >>,
  << "G", <<h,h,d>> >>,   << "H", <<d,d,d,d>> >>, << "I", <<d,d>> >>,
  << "J", <<d,h,h,h>> >>, << "K", <<h,d,h>> >>,   << "L", <<d,h,d,d>> >>,
  << "M", <<h,h>> >>,     << "N", <<h,d>> >>,     << "O", <<h,h,h>> >>,
  << "P", <<d,h,h,d>> >>, << "Q", <<h,h,d,h>> >>, << "R", <<d,h,d>> >>,
  << "S", <<d,d,d>> >>,   << "T", <<h>> >>,       << "U", <<d,d,h>> >>,
  << "V", <<d,d,d,h>> >>, << "W", <<d,h,h>> >>,   << "X", <<h,d,d,h>> >>,
  << "Y", <<h,d,h,h>> >>, << "Z", <<h,h,d,d>> >>,
  << "0", <<h,h,h,h,h>> >>, << "1", <<d,h,h,h,h>> >>, << "2", <<d,d,h,h,h>> >>,
  << "3", <<d,d,d,h,h>> >>, << "4", <<d,d,d,d,h>> >>, << "5", <<d,d,d,d,d>> >>,
  << "6", <<h,d,d,d,d>> >>, << "7", <<h,h,d,d,d>> >>, << "8", <<h,h,h,d,d>> >>,
  << "9", <<h,h,h,h,d>> >>,
  << ".", <<d,h,d,h,d,h>> >>, << ":", <<h,h,h,d,d,d>> >>,
  << ",", <<h,h,d,d,h,h>> >>, << ";", <<h,d,h,d,h,d>> >>,
  << "?", <<d,d,h,h,d,d>> >>, << "=", <<h,d,d,d,h>> >>,
  << "'", <<d,h,h,h,h,d>> >>, << "/", <<h,d,d,h,d>> >>,
  << "!", <<h,d,h,d,h,h>> >>, << "-", <<h,d,d,d,d,h>> >>,
  << "_", <<d,d,h,h,d,h>> >>, << "\"", <<d,h,d,d,h,d>> >>,
  << "(", <<h,d,h,h,d>> >>,   << ")", <<h,d,h,h,d,h>> >>,
  << "$", <<d,d,d,h,d,d,h>> >>, << "&", <<d,d,d,d>> >>,
  << "@", <<d,h,h,d,h,d>> >> >>

Chars   == {Table[n][1] : n \in DOMAIN Table}
Letters == {Table[n][1] : n \in 2 .. 27}
Digits  == {Table[n][1] : n \in 28 .. 37}

\* The position of the array of character c, and the marks it declares.
Index(c) == CHOOSE n \in DOMAIN Table : Table[n][1] = c
Marks(c) == Table[Index(c)][2]

\* The words of array n, as declared.
Words(n) == Append(Table[n][2], ZIFU_KONG)
==============================================================================
