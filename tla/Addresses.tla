----------------------------- MODULE Addresses -----------------------------
(***************************************************************************)
(* The tests for URLs and e-mail addresses of util.cc.  A word is a        *)
(* sequence of pieces: the beginnings and endings these tests know, an at  *)
(* sign, a slash, and other text without a dot or any of these.            *)
(***************************************************************************)
EXTENDS Integers, Sequences, FiniteSets

Schemes == {"http:", "ftp:", "https:", "mms:", "www."}
Domains == {".com", ".edu", ".gov", ".net", ".org", ".cn"}
Pages == {".htm", ".asp", ".jsp", ".php", ".mht", ".html", ".aspx", ".shtml"}

(* Each piece with a dot has one, and that of an ending is its first byte.  *)
HasDot(piece) == piece \in Domains \cup Pages \cup {"www."}

(* Both loops begin at the second byte. *)
DotsBefore(word, end) ==
  Cardinality({k \in DOMAIN word : k < end /\ HasDot(word[k]) /\ (k > 1 \/ word[k] = "www.")})
AtSigns(word) == {k \in 2..Len(word) : word[k] = "@"}

(* Slashes at the end are cut off and put back.  A word of nothing else is  *)
(* not one to call these tests with: the loop would run below its start.    *)
OnlySlashes(word) == \A k \in DOMAIN word : word[k] = "/"
Slashes(word) == Len(word) - CHOOSE k \in DOMAIN word :
                               word[k] # "/" /\ \A j \in (k + 1)..Len(word) : word[j] = "/"
CutSlashes(word) == SubSeq(word, 1, Len(word) - Slashes(word))

EndsIn(word, endings) == Len(word) > 1 /\ word[Len(word)] \in endings

IsLetterNumberPuncUrlWord(word) ==
  LET cut == CutSlashes(word) IN
  /\ AtSigns(word) = {}
  /\ (Len(cut) > 1 /\ cut[1] \in Schemes) \/ EndsIn(cut, Domains \cup Pages)

(* The count of dots the URL test gives: those before the first at sign.    *)
UrlDots(word) ==
  DotsBefore(word, IF AtSigns(word) = {} THEN Len(word) + 1
                   ELSE CHOOSE k \in AtSigns(word) : \A j \in AtSigns(word) : k <= j)

IsLetterNumberPuncEmailWord(word) == AtSigns(word) # {} /\ EndsIn(word, Domains)
EmailDots(word) == DotsBefore(word, Len(word) + 1)
=============================================================================
