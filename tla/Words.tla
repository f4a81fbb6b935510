------------------------------- MODULE Words -------------------------------
(***************************************************************************)
(* The text helpers of util.cc: Split, which takes the lines of the joke   *)
(* and type files apart (joke.cc:55, 120), the two lower-casing functions, *)
(* and the kinds of words.                                                 *)
(*                                                                         *)
(* A text is a sequence of bytes, a byte is its class: a lower case letter *)
(* (with them the apostrophe, as in IsLetter), an upper case one, a digit, *)
(* a dot, another visible character, a blank or control character, or the  *)
(* first byte of a two-byte GBK character (negative as a char).  A second  *)
(* byte may be of any class.  The kinds of two-byte codes and of addresses  *)
(* are in modules of their own, GBK and Addresses; a code is given as its   *)
(* bytes, an address as its pieces.                                         *)
(***************************************************************************)
EXTENDS Integers, Sequences, FiniteSets, GBK, Addresses

CONSTANTS
  Chars,       \* classes a text is made of
  Delimiters,  \* what Split is called with
  MaxLength,   \* bound on texts
  Pieces,      \* what an address is made of
  MaxPieces    \* bound on addresses

Classes == {"lower", "upper", "digit", "dot", "punct", "blank", "high"}

ASSUME WordsAssumption ==
  /\ Chars \subseteq Classes
  /\ Delimiters \subseteq Seq(Chars) \ {<<>>}
  /\ MaxLength \in Nat /\ MaxPieces \in Nat

VARIABLES
  text, code, address,
  pc, delimer, sidx, parts   \* Split's parameters and locals

split == <<pc, delimer, sidx, parts>>
wordVars == <<text, code, address, split>>

NoCode == <<0, 0>>

InitWords ==
  /\ text = <<>> /\ code = NoCode /\ address = <<>>
  /\ pc = "idle" /\ delimer = <<>> /\ sidx = 1 /\ parts = <<>>

Type ==
  /\ pc = "idle" /\ Len(text) < MaxLength /\ code = NoCode /\ address = <<>>
  /\ \E c \in Chars : text' = Append(text, c)
  /\ UNCHANGED <<code, address, split>>

TypeCode ==
  /\ pc = "idle" /\ text = <<>> /\ code = NoCode /\ address = <<>>
  /\ code' \in Byte \X Byte
  /\ UNCHANGED <<text, address, split>>

TypeAddress ==
  /\ pc = "idle" /\ text = <<>> /\ code = NoCode /\ Len(address) < MaxPieces
  /\ \E piece \in Pieces : address' = Append(address, piece)
  /\ UNCHANGED <<text, code, split>>
Clear ==
  /\ <<code, address>> # <<NoCode, <<>>>> /\ code' = NoCode /\ address' = <<>>
  /\ UNCHANGED <<text, split>>
-----------------------------------------------------------------------------
(* Split *)
Occurs(d, str, k) == k + Len(d) - 1 <= Len(str) /\ SubSeq(str, k, k + Len(d) - 1) = d

FirstFrom(d, str, k) ==
  {e \in k..Len(str) : Occurs(d, str, e) /\ \A j \in k..(e - 1) : ~Occurs(d, str, j)}

CallSplit(d) ==
  /\ pc = "idle"
  /\ pc' = "split" /\ delimer' = d /\ sidx' = 1 /\ parts' = <<>>
  /\ code = NoCode /\ address = <<>> /\ UNCHANGED <<text, code, address>>

(* Mutant: the character after the delimiter is dropped. *)
PastOneMore(eidx) == eidx + Len(delimer) + 1
Past(eidx) == eidx + Len(delimer)

SplitStep ==
  /\ pc = "split"
  /\ \/ \E eidx \in FirstFrom(delimer, text, sidx) :
          /\ parts' = Append(parts, SubSeq(text, sidx, eidx - 1))
          /\ sidx' = Past(eidx) /\ UNCHANGED pc
     \/ /\ FirstFrom(delimer, text, sidx) = {}
        /\ parts' = Append(parts, SubSeq(text, sidx, Len(text)))
        /\ pc' = "done" /\ UNCHANGED sidx
  /\ UNCHANGED <<text, code, address, delimer>>

ReturnParts ==
  /\ pc = "done"
  /\ pc' = "idle" /\ delimer' = <<>> /\ sidx' = 1 /\ parts' = <<>>
  /\ UNCHANGED <<text, code, address>>

WordsNext ==
  \/ Type \/ TypeCode \/ TypeAddress \/ Clear
  \/ (\E d \in Delimiters : CallSplit(d)) \/ SplitStep \/ ReturnParts

WordsSpec == InitWords /\ [][WordsNext]_wordVars
-----------------------------------------------------------------------------
(* Lower case *)
Lower(c) == IF c = "upper" THEN "lower" ELSE c

(* The loop over indices, which steps over the byte after a negative one.   *)
ToLower(str) ==
  LET from[k \in 1..(Len(str) + 2)] ==
        IF k > Len(str) THEN str
        ELSE IF str[k] = "high" THEN from[k + 2]
        ELSE [from[k + 1] EXCEPT ![k] = Lower(str[k])]
  IN  from[1]

(* How far the pointer moves past a negative byte.  Mutant: one byte.       *)
OneByte(rest) == 1
CharWidth(rest) == IF Len(rest) = 1 THEN 1 ELSE 2

(* The loop over pointers, up to the NUL. *)
TranToLower(str) ==
  LET rest(k) == SubSeq(str, k + 1, Len(str))
      from[k \in 0..Len(str)] ==
        IF rest(k) = <<>> THEN <<>>
        ELSE LET step == IF Head(rest(k)) = "high" THEN CharWidth(rest(k)) ELSE 1
                 done == IF Head(rest(k)) = "high" THEN SubSeq(rest(k), 1, step)
                         ELSE <<Lower(Head(rest(k)))>>
             IN  done \o from[k + step]
  IN  from[0]

Strcmpcase(a, b) == Len(a) = Len(b) /\ \A k \in DOMAIN a : Lower(a[k]) = Lower(b[k])
-----------------------------------------------------------------------------
(* The kinds of words *)
IsLetter(c) == c \in {"lower", "upper"}
IsNumber(c) == c \in {"digit", "dot"}
IsNumberExact(c) == c = "digit"
IsValidChar(c) == c \notin {"blank", "high"}
IsReservedChar(c) == IsValidChar(c) /\ ~IsNumber(c) /\ ~IsLetter(c)

(* Mutant: the character after the dot is not looked at. *)
AnyDot(str, k) == IsReservedChar(str[k]) \/ (str[k] = "dot" /\ ~IsNumberExact(str[k - 1]))

(* A dot is punctuation unless it stands between digits. *)
IsPuncChar(str, k) ==
  \/ IsReservedChar(str[k])
  \/ /\ str[k] = "dot"
     /\ ~(IsNumberExact(str[k - 1]) /\ k < Len(str) /\ IsNumberExact(str[k + 1]))

IsValidCharWord(str) == str # <<>> /\ (IsLetter(str[1]) \/ IsNumberExact(str[1]))

IsNumberExactWord(str) == IsValidCharWord(str) /\ \A k \in DOMAIN str : IsNumberExact(str[k])
IsNumberWord(str) == IsValidCharWord(str) /\ \A k \in DOMAIN str : IsNumber(str[k])

(* The dots that are not punctuation. *)
Dots(str) == Cardinality({k \in 2..Len(str) : ~IsPuncChar(str, k) /\ str[k] = "dot"})

IsLetterNumberWord(str) ==
  /\ IsValidCharWord(str)
  /\ \A k \in 2..Len(str) : IsValidChar(str[k]) /\ ~IsPuncChar(str, k)
  /\ Dots(str) < 2

IsLetterNumberPuncWord(str) ==
  /\ IsValidCharWord(str)
  /\ \A k \in 2..Len(str) : IsValidChar(str[k])
  /\ (\E k \in 2..Len(str) : IsPuncChar(str, k)) \/ Dots(str) > 1
-----------------------------------------------------------------------------
(* Type invariant: Split never starts past the end of the text. *)
WordsTypeOK ==
  /\ text \in Seq(Chars) /\ Len(text) <= MaxLength
  /\ code \in Byte \X Byte /\ address \in Seq(Pieces)
  /\ pc \in {"idle", "split", "done"}
  /\ delimer \in Delimiters \cup {<<>>}
  /\ sidx \in 1..(Len(text) + 1)
  /\ parts \in Seq(Seq(Chars))

Rejoined(strs, d) ==
  LET whole[n \in 1..Len(strs)] == IF n = 1 THEN strs[1] ELSE whole[n - 1] \o d \o strs[n]
  IN  whole[Len(strs)]

(* The parts, with the delimiter put back between them, are the text, and   *)
(* none of them holds the delimiter: with a tab, two parts mean exactly one *)
(* tab, which is what joke.cc:56 and :121 rely on (util.cc:23-38).          *)
SplitIsInvertible ==
  pc = "done" =>
    /\ Rejoined(parts, delimer) = text
    /\ \A n \in DOMAIN parts : FirstFrom(delimer, parts[n], 1) = {}

(* Types (Split never starts past the end), and parts that give the text    *)
(* back (util.cc:23-38).                                                    *)
SplitInv == WordsTypeOK /\ SplitIsInvertible

(* The two lower-casing loops do the same, also when the text ends within a *)
(* character, and Strcmpcase does not see the difference to the original    *)
(* (util.cc:6-21, 40-66, 436-457).                                          *)
LowerCasingsAgree ==
  /\ TranToLower(text) = ToLower(text)
  /\ Strcmpcase(text, ToLower(text))

(* A word is never of both kinds, and of neither only if it holds a blank   *)
(* or a two-byte character: the two loops count punctuation and dots alike  *)
(* (util.cc:273-321).                                                       *)
KindsAreExclusive ==
  IsValidCharWord(text) =>
    /\ ~(IsLetterNumberWord(text) /\ IsLetterNumberPuncWord(text))
    /\ IsLetterNumberWord(text) \/ IsLetterNumberPuncWord(text)
         \/ \E k \in DOMAIN text : ~IsValidChar(text[k])

(* A number is a letter-number word exactly if it has at most one dot, and  *)
(* not at its end; without a dot always (util.cc:240-295).                  *)
NumbersAreLetterNumbers ==
  /\ IsNumberExactWord(text) => IsNumberWord(text) /\ IsLetterNumberWord(text)
  /\ IsNumberWord(text) =>
       (IsLetterNumberWord(text) <=>
          /\ Cardinality({k \in DOMAIN text : text[k] = "dot"}) <= 1
          /\ text[Len(text)] # "dot")

(* The ranges of two-byte codes lie within each other as util.h:38-41 draws *)
(* them and no code is Chinese and reserved; but A2FF, A4FF and A5FF are    *)
(* reserved and no GBK, and the codes that read before the table may be     *)
(* anything (util.h:100-128, util.cc:85-203).                               *)
CodesAreNested ==
  \A beyond \in BOOLEAN :
    LET strays == {\hA2, \hA4, \hA5} \X {\hFF}
        unread == {\hA1} \X (0..(\hA0 - 1))
    IN /\ IsGBK(code) => IsNotChar(code)
       /\ ~(IsChinese(code) /\ IsReservedGBK(code, beyond))
       /\ IsChinese(code) => IsStrictGBKChar(code)
       /\ IsReservedGBK(code, beyond) /\ code \notin unread =>
            IsStrictGBKChar(code) /\ (IsGBK(code) \/ code \in strays)
       /\ code \in strays => IsValidGBK(code, beyond) /\ ~IsGBK(code)

(* An address is not of both kinds, is of one if it ends in a domain, and   *)
(* stays a URL with more slashes at its end (util.cc:324-432).              *)
AddressesAreOneKind ==
  address # <<>> /\ ~OnlySlashes(address) =>
    LET url == IsLetterNumberPuncUrlWord(address)
        email == IsLetterNumberPuncEmailWord(address)
    IN /\ ~(url /\ email)
       /\ EndsIn(address, Domains) => url \/ email
       /\ url = IsLetterNumberPuncUrlWord(Append(address, "/"))
       /\ UrlDots(address) <= EmailDots(address)
       /\ url => UrlDots(address) = EmailDots(address)

(* The word kinds, each a loop or a list of ranges of its own, agree with   *)
(* each other (util.h:38-41, 100-128, util.cc:85-432).                      *)
KindsAgree ==
  KindsAreExclusive /\ NumbersAreLetterNumbers /\ CodesAreNested /\ AddressesAreOneKind
=============================================================================
