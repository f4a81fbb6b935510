-------------------------------- MODULE GBK --------------------------------
(***************************************************************************)
(* The kinds of two-byte codes of util.h and util.cc.  A code is a pair of *)
(* bytes; a char above 16#7F is negative.                                  *)
(***************************************************************************)
EXTENDS Integers, Sequences

Byte == 0..255
Within(c, lo, hi) == lo <= c /\ c <= hi

IsNotChar(code) == code[1] > \h7F /\ code[2] # 0

IsGBK(code) == Within(code[1], \h81, \hFE) /\ Within(code[2], \h40, \hFE)

IsChinese(code) ==
  \/ Within(code[1], \hB0, \hF7) /\ Within(code[2], \hA1, \hFE)
  \/ Within(code[1], \h81, \hA0) /\ Within(code[2], \h40, \hFE)
  \/ Within(code[1], \hAA, \hFE) /\ Within(code[2], \h40, \hA0)

(* The entries of the table that are 1; it has 100. *)
A1char == {4, 5, 6, 9, 10, 13} \cup 20..27 \cup {30, 31, 34, 35, 36} \cup 38..42
          \cup {45, 47, 48, 50, 51} \cup 53..59 \cup {62, 63, 64, 68, 70}
          \cup {73, 74, 75, 77, 87, 90, 93}

(* For codes A100 to A19F the table is read before its beginning, which may *)
(* be 1 (beyond) or not.                                                    *)
IsReservedA1(c2, beyond) == IF c2 < 160 THEN beyond ELSE c2 - 160 \in A1char

IsReservedGBK(code, beyond) ==
  LET c1 == code[1]  c2 == code[2]  In(lo, hi) == Within(c2, lo, hi) IN
  \/ c1 = \hA1 /\ IsReservedA1(c2, beyond)
  \/ c1 \in {\hA2, \hA4, \hA5} /\ c2 >= \hA0
  \/ c1 = \hA3 /\ c2 \in {\hA4, \hAB, \hDF}
  \/ c1 = \hA6 /\ (c2 \in {\hB7, \hF5} \/ In(\hC1, \hD8) \/ In(\hA1, \hB8))
  \/ c1 = \hA7 /\ (In(\hA1, \hC1) \/ In(\hD1, \hF1))
  \/ c1 = \hA8 /\ (\/ c2 \in {\h80, \h44, \h75, \h76, \h93}
                   \/ In(\hC5, \hE9) \/ In(\hA1, \hBA) \/ In(\h87, \h8C)
                   \/ In(\h78, \h7E) \/ In(\h47, \h4C) \/ In(\h8D, \h90))
  \/ c1 = \hA9 /\ (\/ c2 \in {\h85, \h56, \h7E, \h5C, \h96, \h59, \h5A, \h7D, \h87}
                   \/ In(\h60, \h62) \/ In(\h49, \h54) \/ In(\h68, \h6E))

IsValidGBK(code, beyond) == IsChinese(code) \/ IsReservedGBK(code, beyond)

IsStrictGBKChar(code) ==
  \/ Within(code[1], \hA1, \hA9) /\ code[2] >= \hA0
  \/ Within(code[1], \hA8, \hA9) /\ code[2] >= \h40
  \/ Within(code[1], \hB0, \hF7) /\ code[2] >= \hA0
  \/ Within(code[1], \h81, \hA0) /\ code[2] >= \h40
  \/ Within(code[1], \hAA, \hFE) /\ Within(code[2], \h40, \hAF)
=============================================================================
