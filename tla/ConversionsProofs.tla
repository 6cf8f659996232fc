------------------------- MODULE ConversionsProofs --------------------------
(***************************************************************************)
(* What the resolver converts is read as it was written, for all           *)
(* constants: dotted addresses of any length, names of any length, and     *)
(* answers with any questions, records and names.                          *)
(*                                                                         *)
(* What is written is defined by recursion on the input.  Induction comes  *)
(* from a set of numbers that has a least element; a recursive function    *)
(* comes from the lemma Recursion, which builds it rank by rank.           *)
(***************************************************************************)
EXTENDS Conversions, SequenceTheorems, WellFoundedInduction, TLAPS

-----------------------------------------------------------------------------
(* A set of numbers that is not empty has a least one.                     *)
LEMMA Least ==
  ASSUME NEW S \in SUBSET Nat, S # {}
  PROVE  \E s \in S : \A t \in S : s <= t
<1>1. IsWellFoundedOn({r \in Nat \X Nat : r[1] < r[2]}, Nat)
  BY NatLessThanWellFounded DEF OpToRel
<1>2. PICK s \in S : \A t \in S : <<t, s>> \notin {r \in Nat \X Nat : r[1] < r[2]}
  BY <1>1, WFMin
<1>3. ASSUME NEW t \in S PROVE s <= t
  <2>1. ~(<<t, s>>[1] < <<t, s>>[2]) /\ t \in Nat /\ s \in Nat
    BY <1>2
  <2> QED BY <2>1
<1> QED BY <1>3

(* A set with 0 that has the next of each of its numbers has all numbers.  *)
LEMMA Induct ==
  ASSUME NEW S, 0 \in S, \A n \in Nat : n \in S => n + 1 \in S
  PROVE  Nat \subseteq S
<1> SUFFICES ASSUME Nat \ S # {} PROVE FALSE
  OBVIOUS
<1>1. PICK n \in Nat \ S : \A t \in Nat \ S : n <= t
  BY Least
<1>2. n - 1 \in Nat /\ n - 1 \in S
  BY <1>1
<1> QED BY <1>1, <1>2

(* A function may be defined by its value at an argument of smaller rank.  *)
Descends(D, V, N, rank, before, base, step) ==
  /\ N \in Nat /\ rank \in [D -> 0 .. N]
  /\ base \in [D -> V] /\ step \in [D \X V -> V]
  /\ \A d \in D : before[d] \in D => rank[before[d]] < rank[d]

LEMMA Recursion ==
  ASSUME NEW D, NEW V, NEW N, NEW rank, NEW before, NEW base, NEW step,
         Descends(D, V, N, rank, before, base, step)
  PROVE  \E f \in [D -> V] : \A d \in D :
           f[d] = IF before[d] \in D THEN step[<<d, f[before[d]]>>] ELSE base[d]
<1> USE DEF Descends
<1> DEFINE Right(f, d) ==
             f[d] = IF before[d] \in D THEN step[<<d, f[before[d]]>>] ELSE base[d]
           S == {n \in Nat : \E f \in [D -> V] :
                               \A d \in D : rank[d] < n => Right(f, d)}
<1>1. 0 \in S
  BY DEF S
<1>2. ASSUME NEW n \in Nat, n \in S PROVE n + 1 \in S
  <2>1. PICK f \in [D -> V] : \A d \in D : rank[d] < n => Right(f, d)
    BY <1>2
  <2> DEFINE g == [d \in D |-> IF rank[d] < n THEN f[d]
                    ELSE IF before[d] \in D THEN step[<<d, f[before[d]]>>] ELSE base[d]]
  <2>2. g \in [D -> V]
    OBVIOUS
  <2>3. ASSUME NEW d \in D, rank[d] < n + 1 PROVE Right(g, d)
    <3>1. rank[d] \in Nat
      BY DEF Descends
    <3>2. before[d] \in D => rank[before[d]] < n /\ g[before[d]] = f[before[d]]
      <4>1. before[d] \in D => rank[before[d]] \in Nat /\ rank[before[d]] < rank[d]
        OBVIOUS
      <4> QED BY <2>3, <3>1, <4>1
    <3>3. g[d] = IF before[d] \in D THEN step[<<d, f[before[d]]>>] ELSE base[d]
      BY <2>1
    <3> QED BY <3>2, <3>3
  <2> HIDE DEF g
  <2>4. \E h \in [D -> V] : \A d \in D : rank[d] < n + 1 => Right(h, d)
    BY <2>2, <2>3
  <2> QED BY <2>4
<1> HIDE DEF S
<1>3. N + 1 \in S
  BY <1>1, <1>2, Induct
<1>4. PICK f \in [D -> V] : \A d \in D : rank[d] < N + 1 => Right(f, d)
  BY <1>3 DEF S
<1>5. \A d \in D : rank[d] < N + 1
  OBVIOUS
<1> QED BY <1>4, <1>5

-----------------------------------------------------------------------------
(* A dotted address.  The numbers that the beginnings of ds write.         *)
UpTo(ds) ==
  CHOOSE f : f = [n \in 0 .. Len(ds) |->
                   IF n = 0 THEN 0 ELSE 10 * f[n - 1] + ds[n]]

LEMMA NumberGrows ==
  ASSUME NEW ds \in Seq(Int)
  PROVE  /\ Aton!Number(ds) = UpTo(ds)[Len(ds)]
         /\ UpTo(ds) \in [0 .. Len(ds) -> Int] /\ UpTo(ds)[0] = 0
         /\ \A n \in 1 .. Len(ds) : UpTo(ds)[n] = 10 * UpTo(ds)[n - 1] + ds[n]
<1> DEFINE D == 0 .. Len(ds)
           rank == [n \in D |-> n]
           before == [n \in D |-> n - 1]
           base == [n \in D |-> 0]
           step == [e \in D \X Int |-> IF e[1] = 0 THEN 0 ELSE 10 * e[2] + ds[e[1]]]
<1>1. Len(ds) \in Nat
  OBVIOUS
<1>2. PICK f \in [D -> Int] : \A d \in D :
         f[d] = IF before[d] \in D THEN step[<<d, f[before[d]]>>] ELSE base[d]
  <2>1. rank \in [D -> 0 .. Len(ds)] /\ base \in [D -> Int]
    OBVIOUS
  <2>2. step \in [D \X Int -> Int]
    <3>1. ASSUME NEW e \in D \X Int
          PROVE  (IF e[1] = 0 THEN 0 ELSE 10 * e[2] + ds[e[1]]) \in Int
      <4>1. e[1] \in D /\ e[2] \in Int
        OBVIOUS
      <4>2. e[1] # 0 => ds[e[1]] \in Int
        BY <1>1, <4>1
      <4> QED BY <4>1, <4>2
    <3> QED BY <3>1
  <2>3. \A d \in D : before[d] \in D => rank[before[d]] < rank[d]
    BY <1>1
  <2>4. Descends(D, Int, Len(ds), rank, before, base, step)
    BY <1>1, <2>1, <2>2, <2>3 DEF Descends
  <2> HIDE DEF D, rank, base, step, before
  <2> QED BY <2>4, Recursion
<1>3. \A d \in D : f[d] = IF d = 0 THEN 0 ELSE 10 * f[d - 1] + ds[d]
  <2> SUFFICES ASSUME NEW d \in D
               PROVE  f[d] = IF d = 0 THEN 0 ELSE 10 * f[d - 1] + ds[d]
    OBVIOUS
  <2>1. CASE d = 0
    BY <1>1, <1>2, <2>1
  <2>2. CASE d # 0
    <3>1. before[d] = d - 1 /\ d - 1 \in D
      BY <1>1, <2>2
    <3>2. f[d - 1] \in Int
      BY <3>1
    <3>3. step[<<d, f[d - 1]>>] = 10 * f[d - 1] + ds[d]
      BY <2>2, <3>2
    <3> HIDE DEF D, step, before
    <3> QED BY <1>2, <2>2, <3>1, <3>3
  <2> QED BY <2>1, <2>2
<1> DEFINE Def(g) == g = [n \in 0 .. Len(ds) |->
                           IF n = 0 THEN 0 ELSE 10 * g[n - 1] + ds[n]]
<1>4. Def(f)
  BY <1>3
<1>5. UpTo(ds) = CHOOSE g : Def(g)
  BY DEF UpTo
<1>6. Def(UpTo(ds))
  BY <1>4, <1>5, Zenon
<1> DEFINE h == UpTo(ds)
<1>7. h = [n \in 0 .. Len(ds) |-> IF n = 0 THEN 0 ELSE 10 * h[n - 1] + ds[n]]
  BY <1>6
<1> HIDE DEF h
<1>8. DOMAIN h = 0 .. Len(ds) /\ h[0] = 0
      /\ \A n \in 1 .. Len(ds) : h[n] = 10 * h[n - 1] + ds[n]
  BY <1>1, <1>7
<1>9. \A n \in Nat : n <= Len(ds) => h[n] \in Int
  <2> DEFINE S == {n \in Nat : n <= Len(ds) => h[n] \in Int}
  <2>1. 0 \in S
    BY <1>8
  <2>2. ASSUME NEW n \in Nat, n \in S PROVE n + 1 \in S
    <3>1. CASE n + 1 <= Len(ds)
      <4>1. h[n] \in Int /\ n + 1 \in 1 .. Len(ds)
        BY <1>1, <2>2, <3>1
      <4>2. ds[n + 1] \in Int /\ h[n + 1] = 10 * h[n] + ds[n + 1]
        BY <1>8, <4>1
      <4> QED BY <4>1, <4>2
    <3> QED BY <3>1
  <2> HIDE DEF S
  <2>3. Nat \subseteq S
    BY <2>1, <2>2, Induct
  <2> QED BY <2>3 DEF S
<1>10. h \in [0 .. Len(ds) -> Int]
  <2>1. \A n \in 0 .. Len(ds) : h[n] \in Int
    BY <1>1, <1>9
  <2> QED BY <1>7, <2>1
<1>11. Aton!Number(ds) = h[Len(ds)]
  BY DEF Aton!Number, UpTo, h
<1> QED BY <1>8, <1>10, <1>11 DEF h

(* What an address writes is not below zero.                               *)
LEMMA NumberIsNat ==
  ASSUME NEW ds \in Seq(Int), \A n \in 1 .. Len(ds) : ds[n] \in 0 .. 9
  PROVE  Aton!Number(ds) \in Nat
<1> DEFINE h == UpTo(ds)
           S == {n \in Nat : n <= Len(ds) => h[n] \in Nat}
<1>1. /\ Aton!Number(ds) = h[Len(ds)] /\ h[0] = 0 /\ Len(ds) \in Nat
      /\ \A n \in 1 .. Len(ds) : h[n] = 10 * h[n - 1] + ds[n]
  BY NumberGrows
<1> HIDE DEF h
<1>2. 0 \in S
  BY <1>1
<1>3. ASSUME NEW n \in Nat, n \in S PROVE n + 1 \in S
  <2>1. CASE n + 1 <= Len(ds)
    <3>1. h[n] \in Nat /\ n + 1 \in 1 .. Len(ds)
      BY <1>1, <1>3, <2>1
    <3>2. ds[n + 1] \in 0 .. 9 /\ h[n + 1] = 10 * h[n] + ds[n + 1]
      BY <1>1, <3>1
    <3> QED BY <3>1, <3>2
  <2> QED BY <2>1
<1> HIDE DEF S
<1>4. Nat \subseteq S
  BY <1>2, <1>3, Induct
<1>5. Len(ds) \in S
  BY <1>1, <1>4
<1> QED BY <1>1, <1>5 DEF S

(* The k-th segment of s, and a cut that makes an address of s.            *)
Piece(s, cut, k) == SubSeq(s, cut[k] + 1, cut[k + 1] - 1)

IsCut(s, cut) ==
  /\ cut \in [1 .. 5 -> Int] /\ cut[1] = 0 /\ cut[5] = Len(s) + 1
  /\ \A k \in 2 .. 4 : cut[k] \in 1 .. Len(s) /\ s[cut[k]] = Aton!Dot
  /\ \A k \in 1 .. 4 : Aton!IsNumber(Piece(s, cut, k))

LEMMA PieceIs ==
  ASSUME NEW s \in Seq(Int), NEW cut, IsCut(s, cut), NEW k \in 1 .. 4
  PROVE  /\ cut[k] \in 0 .. Len(s) /\ cut[k + 1] \in 1 .. Len(s) + 1
         /\ cut[k] < cut[k + 1] /\ k + 1 \in 2 .. 5
         /\ Piece(s, cut, k) \in Seq(Int)
         /\ Len(Piece(s, cut, k)) = cut[k + 1] - cut[k] - 1
         /\ \A n \in 1 .. Len(Piece(s, cut, k)) : Piece(s, cut, k)[n] \in 0 .. 9
<1> DEFINE m == cut[k] + 1
           n == cut[k + 1] - 1
<1>1. k + 1 \in 2 .. 5 /\ k \in 1 .. 5
  OBVIOUS
<1>2. cut[k] \in 0 .. Len(s)
  BY <1>1 DEF IsCut
<1>3. cut[k + 1] \in 1 .. Len(s) + 1
  BY <1>1 DEF IsCut
<1>4. m \in Int /\ n \in Int /\ \A j \in m .. n : s[j] \in Int
  BY <1>2, <1>3
<1>5. /\ SubSeq(s, m, n) \in Seq(Int)
      /\ Len(SubSeq(s, m, n)) = IF m <= n THEN n - m + 1 ELSE 0
      /\ \A j \in 1 .. n - m + 1 : SubSeq(s, m, n)[j] = s[m + j - 1]
  BY <1>4, SubSeqProperties
<1>6. /\ Len(SubSeq(s, m, n)) > 0
      /\ \A j \in 1 .. Len(SubSeq(s, m, n)) : SubSeq(s, m, n)[j] \in 0 .. 9
  BY DEF IsCut, Piece, Aton!IsNumber
<1>7. m <= n /\ Len(SubSeq(s, m, n)) = n - m + 1
  BY <1>5, <1>6
<1>8. \A j \in 1 .. n - m + 1 : s[m + j - 1] = s[cut[k] + j]
  BY <1>2
<1>9. n - m + 1 = cut[k + 1] - cut[k] - 1 /\ cut[k] < cut[k + 1]
  <2> DEFINE a == cut[k]
             b == cut[k + 1]
  <2>1. a \in Int /\ b \in Int /\ a + 1 <= b - 1
    BY <1>2, <1>3, <1>7
  <2> HIDE DEF a, b
  <2>2. b - 1 - (a + 1) + 1 = b - a - 1 /\ a < b
    BY <2>1
  <2> QED BY <2>2 DEF a, b
<1> QED BY <1>1, <1>2, <1>3, <1>5, <1>6, <1>7, <1>8, <1>9 DEF Piece

LEMMA PieceAt ==
  ASSUME NEW s \in Seq(Int), NEW cut, IsCut(s, cut), NEW k \in 1 .. 4,
         NEW n \in 1 .. Len(Piece(s, cut, k))
  PROVE  Piece(s, cut, k)[n] = s[cut[k] + n]
<1> DEFINE a == cut[k]
           b == cut[k + 1]
<1>1. /\ a \in 0 .. Len(s) /\ b \in 1 .. Len(s) + 1 /\ a < b
      /\ Len(Piece(s, cut, k)) = b - a - 1
  BY PieceIs
<1>2. Piece(s, cut, k) = SubSeq(s, a + 1, b - 1)
  BY DEF Piece
<1> HIDE DEF a, b
<1>3. a + 1 \in Int /\ b - 1 \in Int /\ n \in 1 .. b - 1 - (a + 1) + 1
      /\ \A j \in a + 1 .. b - 1 : s[j] \in Int
  BY <1>1
<1>4. SubSeq(s, a + 1, b - 1)[n] = s[a + 1 + n - 1]
  BY <1>3, SubSeqProperties
<1>5. a + 1 + n - 1 = a + n
  BY <1>1
<1> QED BY <1>2, <1>4, <1>5 DEF a

(* A character is a dot at the end of a segment other than the last, and   *)
(* nowhere else.                                                           *)
LEMMA DotEnds ==
  ASSUME NEW s \in Seq(Int), NEW cut, IsCut(s, cut), NEW k \in 1 .. 4,
         NEW n \in Nat, cut[k] <= n, n < cut[k + 1], n < Len(s)
  PROVE  s[n + 1] = Aton!Dot <=> n + 1 = cut[k + 1]
<1> DEFINE t == Piece(s, cut, k)
           a == cut[k]
           b == cut[k + 1]
<1>1. /\ a \in Nat /\ b \in Nat /\ k + 1 \in 2 .. 5 /\ a <= n /\ n < b
      /\ Len(t) = b - a - 1
      /\ \A j \in 1 .. Len(t) : t[j] \in 0 .. 9 /\ t[j] = s[a + j]
  <2>1. cut[k] \in Nat /\ cut[k + 1] \in Nat /\ k + 1 \in 2 .. 5
    <3>1. cut[k] \in 0 .. Len(s) /\ cut[k + 1] \in 1 .. Len(s) + 1 /\ k + 1 \in 2 .. 5
      BY PieceIs
    <3> QED BY <3>1
  <2>2. Len(t) = cut[k + 1] - cut[k] - 1
    BY PieceIs
  <2>3. \A j \in 1 .. Len(t) : t[j] \in 0 .. 9
    BY PieceIs
  <2>4. ASSUME NEW j \in 1 .. Len(t) PROVE t[j] = s[cut[k] + j]
    BY PieceAt
  <2> HIDE DEF t
  <2> QED BY <2>1, <2>2, <2>3, <2>4
<1>2. b = cut[k + 1]
  OBVIOUS
<1> HIDE DEF t, a, b
<1>3. CASE n + 1 = b
  <2>1. k + 1 # 5
    BY <1>2, <1>3 DEF IsCut
  <2>2. k + 1 \in 2 .. 4
    BY <1>1, <2>1
  <2>3. s[cut[k + 1]] = Aton!Dot
    BY <2>2 DEF IsCut
  <2> QED BY <1>2, <1>3, <2>3
<1>4. CASE n + 1 # b
  <2> DEFINE j == n + 1 - a
  <2>1. j \in 1 .. Len(t) /\ a + j = n + 1
    BY <1>1, <1>4
  <2>2. s[n + 1] \in 0 .. 9
    BY <1>1, <2>1
  <2>3. s[n + 1] # Aton!Dot
    BY <2>2 DEF Aton!Dot
  <2> QED BY <1>2, <1>4, <2>3
<1> QED BY <1>3, <1>4

(* What was read of an address: the segments before this one, and of this  *)
(* one its beginning.                                                      *)
InSegment(s, cut) ==
  /\ segment \in 0 .. 3 /\ cut[segment + 1] <= p /\ p < cut[segment + 2]
  /\ value = UpTo(Piece(s, cut, segment + 1))[p - cut[segment + 1]]
  /\ \A k \in 1 .. segment : addr[k - 1] = Aton!Number(Piece(s, cut, k))

CutIsRead(s, cut) ==
  /\ atonResult # "refused"
  /\ atonResult = "reading" => InSegment(s, cut)
  /\ atonResult = "accepted" =>
       \A k \in 1 .. 4 : addr[k - 1] = Aton!Number(Piece(s, cut, k))

AtonInv == Aton!TypeOK /\ \A cut : IsCut(str, cut) => CutIsRead(str, cut)

(* The byte of a number that fits.                                         *)
LEMMA CutFits ==
  ASSUME Aton!AtonAssumption, NEW n \in Int
  PROVE  /\ Aton!Cut(n) \in 0 .. MaxSegment
         /\ n \in 0 .. MaxSegment => Aton!Cut(n) = n
<1> DEFINE m == MaxSegment + 1
<1>1. m \in Nat \ {0} /\ MaxSegment \in Nat
  BY DEF Aton!AtonAssumption
<1> HIDE DEF m
<1>2. n % m \in 0 .. m - 1
  BY <1>1, Z3
<1>3. n \in 0 .. m - 1 => n % m = n
  BY <1>1, SMT
<1> QED BY <1>1, <1>2, <1>3 DEF Aton!Cut, m

(* Characters are numbers.                                                 *)
LEMMA StringIsNumbers ==
  ASSUME Aton!AtonAssumption, NEW s \in Seq(Alphabet) PROVE s \in Seq(Int)
<1>1. Alphabet \subseteq Int
  BY DEF Aton!AtonAssumption
<1> QED BY <1>1, SeqMonotonic

(* At the start nothing is read.                                           *)
LEMMA AtonInit ==
  ASSUME Aton!AtonAssumption, Aton!Init PROVE AtonInv
<1>1. PICK n \in 0 .. MaxLength : str \in [1 .. n -> Alphabet]
  BY DEF Aton!Init, Aton!Strings
<1>2. str \in Seq(Alphabet) /\ str \in Seq(Int) /\ Len(str) \in Nat
  <2>1. n \in Nat /\ str \in Seq(Alphabet)
    BY <1>1, IsASeq DEF Aton!AtonAssumption
  <2> QED BY <2>1, StringIsNumbers, LenProperties
<1>3. addr \in [0 .. 3 -> -1 .. MaxSegment]
  BY DEF Aton!Init, Aton!AtonAssumption
<1>4. Aton!TypeOK
  BY <1>2, <1>3 DEF Aton!Init, Aton!TypeOK
<1>5. ASSUME NEW cut, IsCut(str, cut) PROVE CutIsRead(str, cut)
  <2>1. cut[1] = 0 /\ cut[1] < cut[1 + 1]
    BY <1>2, <1>5, PieceIs DEF IsCut
  <2>2. UpTo(Piece(str, cut, 1))[0] = 0
    BY <1>2, <1>5, PieceIs, NumberGrows
  <2> QED BY <2>1, <2>2 DEF Aton!Init, CutIsRead, InSegment
<1> QED BY <1>4, <1>5 DEF AtonInv

(* The types are kept.                                                     *)
LEMMA AtonKeepsType ==
  ASSUME Aton!AtonAssumption, Aton!TypeOK, Aton!Next PROVE Aton!TypeOK'
<1> USE DEF Aton!TypeOK
<1>1. Aton!Cut(value) \in 0 .. MaxSegment
  BY CutFits
<1>2. ASSUME segment \in 0 .. 3
      PROVE  [addr EXCEPT ![segment] = Aton!Cut(value)]
               \in [0 .. 3 -> -1 .. MaxSegment]
  BY <1>1, <1>2 DEF Aton!AtonAssumption
<1>3. Len(str) \in Nat
  OBVIOUS
<1>4. CASE Aton!EndSegment
  <2>1. p + 1 \in 0 .. Len(str)
    BY <1>3, <1>4 DEF Aton!EndSegment, Aton!Reading
  <2>2. CASE atonResult' = "refused"
    BY <1>4, <2>2 DEF Aton!EndSegment, Aton!Reading, Aton!Restart
  <2>3. CASE atonResult' # "refused"
    BY <1>2, <1>4, <2>1, <2>3 DEF Aton!EndSegment, Aton!Reading, Aton!Restart
  <2> QED BY <2>2, <2>3
<1>5. CASE Aton!NextDigit
  <2>1. p + 1 \in 1 .. Len(str)
    BY <1>3, <1>5 DEF Aton!NextDigit, Aton!Reading
  <2>2. str[p + 1] \in Int
    <3>1. str \in Seq(Int)
      BY StringIsNumbers
    <3> QED BY <2>1, <3>1
  <2> QED BY <1>5, <2>1, <2>2 DEF Aton!NextDigit
<1>6. CASE Aton!Finish
  BY <1>2, <1>6 DEF Aton!Finish, Aton!TooMuch
<1>7. CASE Aton!Done
  BY <1>7 DEF Aton!Done, Aton!atonVars
<1> QED BY <1>4, <1>5, <1>6, <1>7 DEF Aton!Next

(* What was read of an address is kept.                                    *)
LEMMA CutStaysRead ==
  ASSUME Aton!AtonAssumption, Aton!TypeOK, Aton!Next,
         NEW s, s = str, NEW cut, IsCut(s, cut), CutIsRead(s, cut)
  PROVE  CutIsRead(s, cut)'
<1> DEFINE k == segment + 1
           t == Piece(s, cut, k)
           a == cut[k]
           b == cut[k + 1]
<1>1. /\ s \in Seq(Int) /\ p \in 0 .. Len(s) /\ Len(s) \in Nat
      /\ segment \in 0 .. 4 /\ addr \in [0 .. 3 -> -1 .. MaxSegment]
  <2>1. str \in Seq(Int)
    BY StringIsNumbers DEF Aton!TypeOK
  <2>2. Len(s) \in Nat
    BY <2>1, LenProperties
  <2> QED BY <2>1, <2>2 DEF Aton!TypeOK
<1>2. ASSUME InSegment(s, cut)
      PROVE  /\ k \in 1 .. 4 /\ a \in Nat /\ b \in Nat /\ a <= p /\ p < b
             /\ Len(t) = b - a - 1 /\ t \in Seq(Int)
             /\ value = UpTo(t)[p - a]
  <2>1. k \in 1 .. 4 /\ segment + 2 = k + 1
    BY <1>2 DEF InSegment
  <2> HIDE DEF k
  <2>2. a \in 0 .. Len(s) /\ b \in 1 .. Len(s) + 1
    BY <1>1, <2>1, PieceIs
  <2>3. Len(t) = b - a - 1 /\ t \in Seq(Int)
    BY <1>1, <2>1, PieceIs
  <2>4. a <= p /\ p < b /\ value = UpTo(t)[p - a]
    BY <1>2, <2>1 DEF InSegment, k
  <2> QED BY <1>1, <2>1, <2>2, <2>3, <2>4
<1> HIDE DEF k, t, a, b
<1>3. ASSUME InSegment(s, cut), p < Len(s)
      PROVE  s[p + 1] = Aton!Dot <=> p + 1 = b
  <2>1. k \in 1 .. 4 /\ p \in Nat /\ cut[k] <= p /\ p < cut[k + 1]
    BY <1>1, <1>2, <1>3 DEF a, b
  <2> QED BY <1>1, <1>3, <2>1, DotEnds DEF b
<1>4. Aton!IsNumber(t) => Aton!Number(t) <= MaxSegment
  BY DEF Aton!IsNumber
<1>5. ASSUME InSegment(s, cut), p - a = Len(t)
      PROVE  value = Aton!Number(t) /\ value \in 0 .. MaxSegment
  <2>1. k \in 1 .. 4 /\ t \in Seq(Int) /\ value = UpTo(t)[Len(t)]
    BY <1>2, <1>5
  <2>2. Aton!IsNumber(t)
    BY <2>1 DEF IsCut, t
  <2>3. value = Aton!Number(t)
    BY <2>1, NumberGrows
  <2>4. Aton!Number(t) \in Nat
    BY <2>1, <2>2, NumberIsNat DEF Aton!IsNumber
  <2> QED BY <1>4, <2>2, <2>3, <2>4 DEF Aton!AtonAssumption
<1>6. ASSUME InSegment(s, cut), value \in 0 .. MaxSegment, value = Aton!Number(t),
             addr' = [addr EXCEPT ![segment] = Aton!Cut(value)]
      PROVE  \A j \in 1 .. k : addr'[j - 1] = Aton!Number(Piece(s, cut, j))
  <2>1. Aton!Cut(value) = value /\ segment \in 0 .. 3
    BY <1>6, CutFits DEF InSegment
  <2>2. addr' = [addr EXCEPT ![segment] = value] /\ addr'[segment] = value
    BY <1>1, <1>6, <2>1
  <2> SUFFICES ASSUME NEW j \in 1 .. k
               PROVE  addr'[j - 1] = Aton!Number(Piece(s, cut, j))
    OBVIOUS
  <2>3. CASE j = k
    BY <1>6, <2>1, <2>2, <2>3 DEF k, t
  <2>4. CASE j # k
    <3>1. j \in 1 .. segment /\ j - 1 \in 0 .. 3 /\ j - 1 # segment
      BY <2>1, <2>4 DEF k
    <3>2. addr'[j - 1] = addr[j - 1]
      BY <1>1, <2>2, <3>1
    <3> QED BY <1>6, <3>1, <3>2 DEF InSegment
  <2> QED BY <2>3, <2>4
<1>7. CASE Aton!EndSegment
  <2>1. /\ InSegment(s, cut) /\ p < Len(s) /\ s[p + 1] = Aton!Dot
        /\ atonResult = "reading"
    BY <1>7 DEF Aton!EndSegment, Aton!Reading, CutIsRead
  <2>2. p + 1 = b /\ k \in 1 .. 4 /\ p - a = Len(t)
    <3>1. k \in 1 .. 4 /\ a \in Nat /\ b \in Nat /\ Len(t) = b - a - 1
      BY <1>2, <2>1
    <3>2. p \in Nat /\ p + 1 = b
      BY <1>1, <1>3, <2>1
    <3> HIDE DEF k, a, b, t
    <3> QED BY <3>1, <3>2
  <2>3. value = Aton!Number(t) /\ value \in 0 .. MaxSegment
    BY <1>5, <2>1, <2>2
  <2>4. ~(value > MaxSegment)
    <3>1. MaxSegment \in Nat
      BY DEF Aton!AtonAssumption
    <3> QED BY <2>3, <3>1
  <2>5. /\ addr' = [addr EXCEPT ![segment] = Aton!Cut(value)]
        /\ segment' = segment + 1 /\ value' = 0 /\ p' = p + 1
        /\ atonResult' = atonResult
    BY <1>7, <2>4 DEF Aton!EndSegment, Aton!Restart
  <2>6. k # 4
    BY <1>1, <2>1, <2>2 DEF IsCut, b
  <2>7. k + 1 \in 1 .. 4
    BY <2>2, <2>6
  <2>8. b < cut[k + 1 + 1] /\ Piece(s, cut, k + 1) \in Seq(Int)
    BY <1>1, <2>7, PieceIs DEF b
  <2>9. UpTo(Piece(s, cut, k + 1))[0] = 0
    BY <2>8, NumberGrows
  <2>10. \A j \in 1 .. k : addr'[j - 1] = Aton!Number(Piece(s, cut, j))
    BY <1>6, <2>1, <2>3, <2>5
  <2>11. /\ segment' = k /\ k \in 0 .. 3 /\ k + 1 + 1 = k + 2
         /\ p' = b /\ b - b = 0 /\ b <= b
    <3>1. segment' = k
      BY <2>5 DEF k
    <3>2. k \in 0 .. 3 /\ k + 1 + 1 = k + 2
      BY <2>2, <2>7
    <3>3. b \in Nat
      BY <1>2, <2>1
    <3> QED BY <2>2, <2>5, <3>1, <3>2, <3>3
  <2>12. value' = UpTo(Piece(s, cut, k + 1))[p' - cut[k + 1]]
    BY <2>5, <2>9, <2>11 DEF b
  <2>13. cut[k + 1] <= p' /\ p' < cut[k + 2]
    BY <2>8, <2>11 DEF b
  <2>14. InSegment(s, cut)'
    BY <2>10, <2>11, <2>12, <2>13 DEF InSegment
  <2> QED BY <2>1, <2>5, <2>14 DEF CutIsRead
<1>8. CASE Aton!NextDigit
  <2>1. /\ InSegment(s, cut) /\ p < Len(s) /\ s[p + 1] # Aton!Dot
        /\ atonResult = "reading"
        /\ value' = value * 10 + s[p + 1] /\ p' = p + 1
        /\ UNCHANGED <<segment, addr, atonResult>>
    BY <1>8 DEF Aton!NextDigit, Aton!Reading, CutIsRead
  <2>2. /\ k \in 1 .. 4 /\ a \in Nat /\ b \in Nat
        /\ a <= p /\ p + 1 < b /\ p \in Nat
    <3>1. k \in 1 .. 4 /\ a \in Nat /\ b \in Nat /\ a <= p /\ p < b
      BY <1>2, <2>1
    <3>2. p \in Nat /\ p + 1 # b
      BY <1>1, <1>3, <2>1
    <3> HIDE DEF k, a, b
    <3> QED BY <3>1, <3>2
  <2> DEFINE j == p + 1 - a
  <2>3. j \in 1 .. Len(t) /\ j - 1 = p - a /\ a + j = p + 1
    BY <1>2, <2>1, <2>2
  <2> HIDE DEF j
  <2>4. t[j] = s[p + 1]
    <3>1. k \in 1 .. 4 /\ j \in 1 .. Len(Piece(s, cut, k))
      BY <2>2, <2>3 DEF t
    <3> HIDE DEF k
    <3>2. s \in Seq(Int) /\ IsCut(s, cut)
      BY <1>1
    <3>3. Piece(s, cut, k)[j] = s[cut[k] + j]
      BY <3>1, <3>2, PieceAt
    <3> QED BY <2>3, <3>3 DEF t, a
  <2>5. t \in Seq(Int) /\ UpTo(t)[j] = 10 * UpTo(t)[j - 1] + t[j]
    BY <1>2, <2>1, <2>3, NumberGrows
  <2>6. UpTo(t)[j - 1] = value /\ value \in Int /\ t[j] \in Int
    <3>1. UpTo(t)[j - 1] = value
      BY <1>2, <2>1, <2>3
    <3>2. t[j] \in Int
      BY <2>3, <2>5, ElementOfSeq
    <3> QED BY <3>1, <3>2 DEF Aton!TypeOK
  <2>7. value' = UpTo(t)[j]
    BY <2>1, <2>4, <2>5, <2>6
  <2>8. p' - cut[k] = j /\ cut[k] <= p' /\ p' < cut[k + 1]
    BY <2>1, <2>2 DEF a, b, j
  <2>9. segment' + 1 = k /\ segment' + 2 = k + 1
    BY <1>1, <2>1 DEF k
  <2>10. InSegment(s, cut)'
    BY <2>1, <2>7, <2>8, <2>9 DEF InSegment, t
  <2> QED BY <2>1, <2>10 DEF CutIsRead
<1>9. CASE Aton!Finish
  <2>1. /\ InSegment(s, cut) /\ ~(p < Len(s) /\ segment < 4)
        /\ atonResult = "reading"
    BY <1>9 DEF Aton!Finish, Aton!Reading, CutIsRead
  <2>2. p = Len(s) /\ k \in 1 .. 4 /\ p < b /\ p \in Nat
    <3>1. k \in 1 .. 4 /\ segment < 4 /\ p < b
      BY <1>1, <1>2, <2>1 DEF k
    <3> QED BY <1>1, <2>1, <3>1
  <2>3. k = 4
    <3>1. CASE k # 4
      <4>1. k + 1 \in 2 .. 4
        BY <2>2, <3>1
      <4>2. b \in 1 .. Len(s)
        BY <4>1 DEF IsCut, b
      <4> QED BY <2>2, <4>2
    <3> QED BY <3>1
  <2>4. b = Len(s) + 1 /\ p - a = Len(t)
    <3>1. b = Len(s) + 1
      BY <2>3 DEF IsCut, b
    <3> QED BY <1>1, <1>2, <2>1, <2>2, <3>1
  <2>5. value = Aton!Number(t) /\ value \in 0 .. MaxSegment
    BY <1>5, <2>1, <2>4
  <2>6. ~(value > MaxSegment \/ segment > 3)
    <3>1. MaxSegment \in Nat /\ segment = 3
      BY <1>1, <2>3 DEF Aton!AtonAssumption, k
    <3> QED BY <2>5, <3>1
  <2>7. /\ atonResult' = "accepted"
        /\ addr' = [addr EXCEPT ![segment] = Aton!Cut(value)]
    BY <1>9, <2>6 DEF Aton!Finish, Aton!TooMuch
  <2>8. \A j \in 1 .. 4 : addr'[j - 1] = Aton!Number(Piece(s, cut, j))
    BY <1>6, <2>1, <2>3, <2>5, <2>7
  <2> QED BY <2>7, <2>8 DEF CutIsRead
<1>10. CASE Aton!Done
  BY <1>10 DEF Aton!Done, Aton!atonVars, CutIsRead, InSegment
<1> QED BY <1>7, <1>8, <1>9, <1>10 DEF Aton!Next

(* Every step of the conversion keeps the invariant.                       *)
LEMMA AtonKeeps ==
  ASSUME Aton!AtonAssumption, AtonInv, [Aton!Next]_(Aton!atonVars)
  PROVE  AtonInv'
<1>1. CASE UNCHANGED Aton!atonVars
  BY <1>1 DEF AtonInv, Aton!TypeOK, CutIsRead, InSegment, Aton!atonVars
<1>2. CASE Aton!Next
  <2>1. Aton!TypeOK'
    BY <1>2, AtonKeepsType DEF AtonInv
  <2>2. str' = str
    BY <1>2 DEF Aton!Next, Aton!EndSegment, Aton!NextDigit, Aton!Finish,
       Aton!Done, Aton!atonVars
  <2>3. PICK s : s = str
    OBVIOUS
  <2>4. ASSUME NEW cut, IsCut(s, cut) PROVE CutIsRead(s, cut)'
    BY <1>2, <2>3, <2>4, CutStaysRead DEF AtonInv
  <2> QED BY <2>1, <2>2, <2>3, <2>4 DEF AtonInv
<1> QED BY <1>1, <1>2

(* What the invariant says of three dots.                                  *)
LEMMA AtonRead ==
  ASSUME Aton!AtonAssumption, AtonInv PROVE Aton!AddressIsRead
<1> SUFFICES ASSUME atonResult # "reading",
                    NEW a \in Aton!Dots, NEW b \in Aton!Dots, NEW c \in Aton!Dots,
                    \A k \in 1 .. 4 : Aton!IsNumber(
                       Aton!Segment(<<0, a, b, c, Len(str) + 1>>, k))
             PROVE  /\ atonResult = "accepted"
                    /\ \A k \in 1 .. 4 : addr[k - 1] = Aton!Number(
                         Aton!Segment(<<0, a, b, c, Len(str) + 1>>, k))
  BY DEF Aton!AddressIsRead
<1> DEFINE cut == <<0, a, b, c, Len(str) + 1>>
<1>1. Len(str) \in Nat
  BY LenProperties DEF AtonInv, Aton!TypeOK
<1>2. cut \in [1 .. 5 -> Int]
  BY <1>1 DEF Aton!Dots
<1>3. /\ cut[1] = 0 /\ cut[5] = Len(str) + 1
      /\ cut[2] = a /\ cut[3] = b /\ cut[4] = c
  OBVIOUS
<1> HIDE DEF cut
<1>4. \A k \in 2 .. 4 : cut[k] \in 1 .. Len(str) /\ str[cut[k]] = Aton!Dot
  BY <1>3 DEF Aton!Dots
<1>5. \A k \in 1 .. 4 : Aton!Segment(cut, k) = Piece(str, cut, k)
  BY DEF Aton!Segment, Piece
<1>6. IsCut(str, cut)
  BY <1>2, <1>3, <1>4, <1>5 DEF IsCut, cut
<1>7. CutIsRead(str, cut) /\ atonResult \in {"reading", "accepted", "refused"}
  BY <1>6 DEF AtonInv, Aton!TypeOK
<1> QED BY <1>5, <1>7 DEF CutIsRead, cut

-----------------------------------------------------------------------------
(* The question.  The parts that the beginnings of the name s have.        *)
Code == 1 .. 255

With(s, before, k) ==
  IF s[k] = DotCode THEN before
  ELSE IF k = 1 \/ s[k - 1] = DotCode THEN Append(before, <<s[k]>>)
  ELSE [before EXCEPT ![Len(before)] = Append(@, s[k])]

PartsTo(s) ==
  CHOOSE f : f = [k \in 0 .. Len(s) |->
                   IF k = 0 THEN <<>> ELSE With(s, f[k - 1], k)]

(* One code more leaves parts.                                             *)
LEMMA WithType ==
  ASSUME NEW s \in Seq(Code), NEW before \in Seq(Seq(Code)), NEW k \in 1 .. Len(s)
  PROVE  With(s, before, k) \in Seq(Seq(Code))
<1>1. s[k] \in Code
  BY ElementOfSeq
<1>2. <<s[k]>> \in Seq(Code)
  BY <1>1
<1>3. Append(before, <<s[k]>>) \in Seq(Seq(Code))
  BY <1>2, AppendProperties
<1>4. [before EXCEPT ![Len(before)] = Append(@, s[k])] \in Seq(Seq(Code))
  <2> DEFINE n == Len(before)
  <2>1. CASE before = <<>>
    <3>1. n \notin DOMAIN before
      BY <2>1
    <3>2. [before EXCEPT ![n] = Append(@, s[k])] = before
      BY <2>1, <3>1
    <3> QED BY <3>2
  <2>2. CASE before # <<>>
    <3>1. n \in 1 .. Len(before)
      BY <2>2, EmptySeq
    <3>2. Append(before[n], s[k]) \in Seq(Code)
      BY <1>1, <3>1, ElementOfSeq, AppendProperties
    <3> QED BY <3>1, <3>2, ExceptSeq
  <2> QED BY <2>1, <2>2
<1> QED BY <1>3, <1>4 DEF With

LEMMA PartsGrow ==
  ASSUME NEW s \in Seq(Code)
  PROVE  /\ PartsTo(s) \in [0 .. Len(s) -> Seq(Seq(Code))]
         /\ PartsTo(s)[0] = <<>>
         /\ \A k \in 1 .. Len(s) : PartsTo(s)[k] = With(s, PartsTo(s)[k - 1], k)
<1> DEFINE D == 0 .. Len(s)
           V == Seq(Seq(Code))
           rank == [n \in D |-> n]
           before == [n \in D |-> n - 1]
           base == [n \in D |-> <<>>]
           step == [e \in D \X V |-> IF e[1] = 0 THEN <<>> ELSE With(s, e[2], e[1])]
<1>1. Len(s) \in Nat /\ <<>> \in V
  BY LenProperties, EmptySeq
<1>2. PICK f \in [D -> V] : \A d \in D :
         f[d] = IF before[d] \in D THEN step[<<d, f[before[d]]>>] ELSE base[d]
  <2>1. rank \in [D -> 0 .. Len(s)] /\ base \in [D -> V]
    BY <1>1
  <2>2. step \in [D \X V -> V]
    <3>1. ASSUME NEW e \in D \X V
          PROVE  (IF e[1] = 0 THEN <<>> ELSE With(s, e[2], e[1])) \in V
      <4>1. e[1] \in D /\ e[2] \in V
        OBVIOUS
      <4>2. e[1] # 0 => e[1] \in 1 .. Len(s)
        BY <1>1, <4>1
      <4> HIDE DEF V
      <4>3. e[1] # 0 => With(s, e[2], e[1]) \in V
        BY <4>1, <4>2, WithType DEF V
      <4> QED BY <1>1, <4>3
    <3> HIDE DEF V, D
    <3> QED BY <3>1
  <2>3. \A d \in D : before[d] \in D => rank[before[d]] < rank[d]
    BY <1>1
  <2>4. Descends(D, V, Len(s), rank, before, base, step)
    BY <1>1, <2>1, <2>2, <2>3 DEF Descends
  <2> HIDE DEF D, V, rank, base, step, before
  <2> QED BY <2>4, Recursion
<1>3. \A d \in D : f[d] = IF d = 0 THEN <<>> ELSE With(s, f[d - 1], d)
  <2> SUFFICES ASSUME NEW d \in D
               PROVE  f[d] = IF d = 0 THEN <<>> ELSE With(s, f[d - 1], d)
    OBVIOUS
  <2>1. CASE d = 0
    BY <1>1, <1>2, <2>1
  <2>2. CASE d # 0
    <3>1. before[d] = d - 1 /\ d - 1 \in D
      BY <1>1, <2>2
    <3> HIDE DEF V
    <3>2. <<d, f[d - 1]>> \in D \X V
      BY <3>1
    <3>3. step[<<d, f[d - 1]>>] = With(s, f[d - 1], d)
      BY <2>2, <3>2
    <3> HIDE DEF D, step, before
    <3> QED BY <1>2, <2>2, <3>1, <3>3
  <2> QED BY <2>1, <2>2
<1> DEFINE Def(g) == g = [k \in 0 .. Len(s) |->
                           IF k = 0 THEN <<>> ELSE With(s, g[k - 1], k)]
<1> HIDE DEF V
<1>4. Def(f)
  BY <1>3
<1>5. PartsTo(s) = CHOOSE g : Def(g)
  BY DEF PartsTo
<1>6. Def(PartsTo(s))
  BY <1>4, <1>5, Zenon
<1> DEFINE h == PartsTo(s)
<1>7. h = [k \in 0 .. Len(s) |-> IF k = 0 THEN <<>> ELSE With(s, h[k - 1], k)]
  BY <1>6
<1> HIDE DEF h, Def
<1>8. DOMAIN h = 0 .. Len(s) /\ h[0] = <<>>
      /\ \A k \in 1 .. Len(s) : h[k] = With(s, h[k - 1], k)
  BY <1>1, <1>7
<1>9. \A n \in Nat : n <= Len(s) => h[n] \in Seq(Seq(Code))
  <2> DEFINE S == {n \in Nat : n <= Len(s) => h[n] \in Seq(Seq(Code))}
  <2>1. 0 \in S
    BY <1>1, <1>8 DEF V
  <2>2. ASSUME NEW n \in Nat, n \in S PROVE n + 1 \in S
    <3>1. CASE n + 1 <= Len(s)
      <4>1. h[n] \in Seq(Seq(Code)) /\ n + 1 \in 1 .. Len(s) /\ n + 1 - 1 = n
        BY <1>1, <2>2, <3>1
      <4>2. h[n + 1] = With(s, h[n], n + 1)
        BY <1>8, <4>1
      <4> QED BY <4>1, <4>2, WithType
    <3> QED BY <3>1
  <2> HIDE DEF S
  <2>3. Nat \subseteq S
    BY <2>1, <2>2, Induct
  <2> QED BY <2>3 DEF S
<1>10. h \in [0 .. Len(s) -> Seq(Seq(Code))]
  <2>1. \A n \in 0 .. Len(s) : h[n] \in Seq(Seq(Code))
    BY <1>1, <1>9
  <2> QED BY <1>7, <2>1
<1> QED BY <1>8, <1>10 DEF h


LEMMA NamePartsIs ==
  Question!NameParts = PartsTo(aName)[Len(aName)]
BY DEF Question!NameParts, PartsTo, With

(* A code at the end of the last part.                                     *)
LEMMA LastGrows ==
  ASSUME NEW b \in Seq(Seq(Code)), NEW t \in Seq(Code), NEW c \in Code
  PROVE  [Append(b, t) EXCEPT ![Len(Append(b, t))] = Append(@, c)]
           = Append(b, Append(t, c))
<1> DEFINE w == Append(b, t)
           n == Len(b) + 1
           u == Append(t, c)
           l == [w EXCEPT ![n] = u]
           r == Append(b, u)
<1>1. /\ w \in Seq(Seq(Code)) /\ Len(w) = n /\ n \in Nat /\ w[n] = t
      /\ \A k \in 1 .. Len(b) : w[k] = b[k]
  BY AppendProperties, LenProperties
<1>2. u \in Seq(Code)
  BY AppendProperties
<1>3. r \in Seq(Seq(Code)) /\ Len(r) = n /\ r[n] = u
      /\ \A k \in 1 .. Len(b) : r[k] = b[k]
  BY <1>2, AppendProperties
<1>4. n \in 1 .. Len(w)
  BY <1>1
<1> HIDE DEF w, u
<1>5. /\ l \in Seq(Seq(Code)) /\ Len(l) = Len(w)
      /\ \A k \in 1 .. Len(w) : l[k] = IF k = n THEN u ELSE w[k]
  BY <1>1, <1>2, <1>4, ExceptSeq
<1> HIDE DEF l, r
<1>6. \A k \in 1 .. Len(l) : l[k] = r[k]
  <2> SUFFICES ASSUME NEW k \in 1 .. Len(l) PROVE l[k] = r[k]
    OBVIOUS
  <2>1. k \in 1 .. n
    BY <1>1, <1>5
  <2>2. k # n => k \in 1 .. Len(b)
    BY <1>1, <2>1, LenProperties
  <2> QED BY <1>1, <1>3, <1>5, <2>1, <2>2
<1>7. l = r
  BY <1>1, <1>3, <1>5, <1>6, SeqEqual
<1>8. [w EXCEPT ![Len(w)] = Append(@, c)] = l
  BY <1>1 DEF l, u
<1> QED BY <1>7, <1>8 DEF r, u, w

(* A stretch without a dot behind a dot, or at the start, is a part.       *)
LEMMA RunIsPart ==
  ASSUME NEW s \in Seq(Code), NEW a \in 1 .. Len(s), NEW e \in a + 1 .. Len(s) + 1,
         a = 1 \/ s[a - 1] = DotCode, \A j \in a .. e - 1 : s[j] # DotCode
  PROVE  PartsTo(s)[e - 1] = Append(PartsTo(s)[a - 1], SubSeq(s, a, e - 1))
<1> DEFINE h == PartsTo(s)
           b == h[a - 1]
           S == {n \in Nat : a + n < e => h[a + n] = Append(b, SubSeq(s, a, a + n))}
<1>1. /\ Len(s) \in Nat /\ h \in [0 .. Len(s) -> Seq(Seq(Code))]
      /\ \A k \in 1 .. Len(s) : h[k] = With(s, h[k - 1], k)
  BY PartsGrow, LenProperties
<1>2. b \in Seq(Seq(Code))
  <2>1. a - 1 \in 0 .. Len(s)
    BY <1>1
  <2> QED BY <1>1, <2>1
<1> HIDE DEF h
<1>3. 0 \in S
  <2>1. With(s, b, a) = Append(b, <<s[a]>>)
    BY DEF With
  <2>2. SubSeq(s, a, a) = SubSeq(s, a, a - 1) \o <<s[a]>>
    BY <1>1, SubSeqRecursiveSecond
  <2>3. SubSeq(s, a, a - 1) = <<>> /\ <<s[a]>> \in Seq(Code)
    BY <1>1, SubSeqEmpty, ElementOfSeq
  <2>4. SubSeq(s, a, a) = <<s[a]>>
    BY <2>2, <2>3, ConcatEmptySeq
  <2> QED BY <1>1, <2>1, <2>4
<1>4. ASSUME NEW n \in Nat, n \in S PROVE n + 1 \in S
  <2> SUFFICES ASSUME a + (n + 1) < e
               PROVE  h[a + (n + 1)] = Append(b, SubSeq(s, a, a + (n + 1)))
    OBVIOUS
  <2> DEFINE k == a + n + 1
             t == SubSeq(s, a, a + n)
  <2>1. /\ k \in a + 1 .. Len(s) /\ k \in 1 .. Len(s) /\ k - 1 = a + n /\ k < e
        /\ a + n < e /\ a + (n + 1) = k /\ a + n \in a .. e - 1 /\ k \in a .. e - 1
        /\ a \in Int /\ a + n \in Int /\ k # 1 /\ k \in a .. Len(s)
    BY <1>1
  <2>2. h[k - 1] = Append(b, t)
    BY <1>4, <2>1
  <2>3. t \in Seq(Code) /\ s[k] \in Code
    <3>1. \A j \in a .. a + n : s[j] \in Code
      <4> SUFFICES ASSUME NEW j \in a .. a + n PROVE s[j] \in Code
        OBVIOUS
      <4>1. j \in 1 .. Len(s)
        BY <1>1, <2>1
      <4> QED BY <4>1, ElementOfSeq
    <3>2. s[k] \in Code
      BY <2>1, ElementOfSeq
    <3> QED BY <2>1, <3>1, <3>2, SubSeqProperties
  <2> HIDE DEF k, t
  <2>4. s[k] # DotCode /\ s[k - 1] # DotCode
    BY <2>1
  <2>5. With(s, Append(b, t), k)
          = [Append(b, t) EXCEPT ![Len(Append(b, t))] = Append(@, s[k])]
    BY <2>1, <2>4 DEF With
  <2>6. h[k] = Append(b, Append(t, s[k]))
    <3>1. h[k] = With(s, Append(b, t), k)
      BY <1>1, <2>1, <2>2
    <3>2. With(s, Append(b, t), k) = Append(b, Append(t, s[k]))
      <4> DEFINE c == s[k]
      <4>1. c \in Code
        BY <2>3
      <4> HIDE DEF b, c
      <4>2. [Append(b, t) EXCEPT ![Len(Append(b, t))] = Append(@, c)]
              = Append(b, Append(t, c))
        BY <1>2, <2>3, <4>1, LastGrows
      <4> QED BY <2>5, <4>2 DEF c
    <3> QED BY <3>1, <3>2
  <2>7. SubSeq(s, a, k) = t \o <<s[k]>>
    BY <2>1, SubSeqRecursiveSecond DEF t
  <2>8. Append(t, s[k]) = t \o <<s[k]>>
    BY <2>3, AppendIsConcat
  <2> QED BY <2>1, <2>6, <2>7, <2>8
<1> HIDE DEF S
<1>5. Nat \subseteq S
  BY <1>3, <1>4, Induct
<1>6. e - 1 - a \in Nat /\ a + (e - 1 - a) = e - 1 /\ e - 1 < e
  BY <1>1
<1>7. e - 1 - a \in S
  BY <1>5, <1>6
<1> QED BY <1>6, <1>7 DEF S, h

(* The bytes w are the parts ps, each behind its length; q[k] is where the *)
(* k-th ends.                                                              *)
Octet == 0 .. 255

Ends(w, ps, q) ==
  /\ q \in [0 .. Len(ps) -> 0 .. Len(w)] /\ q[0] = 0 /\ q[Len(ps)] = Len(w)
  /\ \A k \in 1 .. Len(ps) :
       /\ Len(ps[k]) \in 1 .. 255
       /\ q[k] = q[k - 1] + 1 + Len(ps[k])
       /\ w[q[k - 1] + 1] = Len(ps[k])
       /\ SubSeq(w, q[k - 1] + 2, q[k]) = ps[k]

Coded(w, ps) == \E q : Ends(w, ps, q)

LEMMA EndsAt ==
  ASSUME NEW w \in Seq(Octet), NEW ps \in Seq(Seq(Code)), NEW q, Ends(w, ps, q),
         NEW k \in 1 .. Len(ps)
  PROVE  /\ q[k - 1] \in Int /\ q[k] \in Int /\ Len(ps[k]) \in Int /\ Len(w) \in Int
         /\ 0 <= q[k - 1] /\ q[k] <= Len(w) /\ 1 <= Len(ps[k]) /\ Len(ps[k]) <= 255
         /\ q[k] = q[k - 1] + 1 + Len(ps[k])
         /\ w[q[k - 1] + 1] = Len(ps[k])
         /\ SubSeq(w, q[k - 1] + 2, q[k]) = ps[k]
<1>1. Len(ps) \in Nat /\ Len(w) \in Nat
  BY LenProperties
<1>2. k \in 0 .. Len(ps) /\ k - 1 \in 0 .. Len(ps)
  BY <1>1
<1>3. q[k] \in 0 .. Len(w) /\ q[k - 1] \in 0 .. Len(w)
  BY <1>2 DEF Ends
<1>4. /\ Len(ps[k]) \in 1 .. 255
      /\ q[k] = q[k - 1] + 1 + Len(ps[k])
      /\ w[q[k - 1] + 1] = Len(ps[k])
      /\ SubSeq(w, q[k - 1] + 2, q[k]) = ps[k]
  BY DEF Ends
<1>5. Len(ps[k]) \in Int /\ 1 <= Len(ps[k]) /\ Len(ps[k]) <= 255
  <2> DEFINE m == Len(ps[k])
  <2>1. m \in 1 .. 255
    BY <1>4
  <2> HIDE DEF m
  <2>2. m \in Int /\ 1 <= m /\ m <= 255
    BY <2>1
  <2> QED BY <2>2 DEF m
<1>6. q[k] \in Int /\ q[k] <= Len(w) /\ q[k - 1] \in Int /\ 0 <= q[k - 1]
  BY <1>1, <1>3
<1> QED BY <1>1, <1>4, <1>5, <1>6

LEMMA NothingIsCoded == Coded(<<>>, <<>>)
<1> DEFINE q == [k \in {0} |-> 0]
<1>1. Len(<<>>) = 0 /\ 0 .. 0 = {0} /\ 1 .. 0 = {}
  BY EmptySeq
<1>2. Ends(<<>>, <<>>, q)
  BY <1>1 DEF Ends
<1> QED BY <1>2 DEF Coded

(* One part more.                                                          *)
LEMMA CodedGrows ==
  ASSUME NEW w \in Seq(Octet), NEW ps \in Seq(Seq(Code)), Coded(w, ps),
         NEW l \in Seq(Code), Len(l) \in 1 .. 255
  PROVE  /\ w \o (<<Len(l)>> \o l) \in Seq(Octet)
         /\ Coded(w \o (<<Len(l)>> \o l), Append(ps, l))
<1> DEFINE c == <<Len(l)>> \o l
           v == w \o c
           us == Append(ps, l)
           n == Len(ps)
<1>1. PICK q : Ends(w, ps, q)
  BY DEF Coded
<1>2. l \in Seq(Octet) /\ <<Len(l)>> \in Seq(Octet) /\ Len(<<Len(l)>>) = 1
  BY SeqMonotonic DEF Code, Octet
<1>3. /\ c \in Seq(Octet) /\ Len(c) = 1 + Len(l) /\ c[1] = Len(l)
      /\ \A k \in 1 .. 1 + Len(l) : k > 1 => c[k] = l[k - 1]
  BY <1>2, ConcatProperties
<1> HIDE DEF c
<1>4. SubSeq(c, 2, Len(c)) = l
  <2> DEFINE h == Len(c)
             g == Len(l)
             m1 == 2
             u == SubSeq(c, m1, h)
  <2>1. h = g + 1 /\ g \in Int /\ 1 <= g
    BY <1>3
  <2>2. \A k \in 1 .. h : c[k] \in Octet
    BY <1>3, ElementOfSeq DEF h
  <2>3. \A k \in 1 .. g : c[k + 1] = l[k]
    <3> SUFFICES ASSUME NEW k \in 1 .. g PROVE c[k + 1] = l[k]
      OBVIOUS
    <3>1. k + 1 \in 1 .. 1 + g /\ k + 1 > 1 /\ k + 1 - 1 = k
      BY <2>1
    <3> QED BY <1>3, <3>1
  <2> HIDE DEF h, g
  <2>4. /\ m1 \in Int /\ h \in Int /\ m1 <= h /\ h - m1 + 1 = g
        /\ \A k \in m1 .. h : c[k] \in Octet
    BY <2>1, <2>2
  <2>5. ASSUME NEW k \in 1 .. g PROVE m1 + k - 1 = k + 1
    BY <2>1
  <2> HIDE DEF m1
  <2>6. /\ u \in Seq(Octet) /\ Len(u) = IF m1 <= h THEN h - m1 + 1 ELSE 0
        /\ \A k \in 1 .. h - m1 + 1 : u[k] = c[m1 + k - 1]
    BY <2>4, SubSeqProperties
  <2> HIDE DEF u
  <2>7. Len(u) = g
    BY <2>4, <2>6
  <2>8. ASSUME NEW k \in 1 .. Len(u) PROVE u[k] = l[k]
    BY <2>3, <2>4, <2>5, <2>6, <2>7, <2>8
  <2>9. u = l
    BY <1>2, <2>6, <2>7, <2>8, SeqEqual DEF g
  <2> QED BY <2>9 DEF u, m1, h
<1>5. /\ v \in Seq(Octet) /\ Len(v) = Len(w) + 1 + Len(l) /\ Len(w) \in Nat
      /\ \A k \in 1 .. Len(w) : v[k] = w[k]
      /\ v[Len(w) + 1] = Len(l)
  <2>1. /\ v \in Seq(Octet) /\ Len(v) = Len(w) + Len(c)
        /\ \A k \in 1 .. Len(w) + Len(c) :
             v[k] = IF k <= Len(w) THEN w[k] ELSE c[k - Len(w)]
    <3>1. c \in Seq(Octet)
      BY <1>3
    <3> QED BY <3>1, ConcatProperties
  <2>2. Len(w) \in Nat
    BY LenProperties
  <2> DEFINE a == Len(w)
             b == Len(c)
             m == Len(l)
  <2>3. a \in Nat /\ m \in Nat /\ b = 1 + m
    BY <1>3, <2>2
  <2> HIDE DEF v, a, b, m
  <2>4. a + b = a + 1 + m /\ a + 1 \in 1 .. a + b /\ a + 1 - a = 1 /\ ~(a + 1 <= a)
        /\ \A k \in 1 .. a : k \in 1 .. a + b /\ k <= a
    BY <2>3
  <2>5. \A k \in 1 .. a : v[k] = w[k]
    BY <2>1, <2>4 DEF a, b
  <2>6. v[a + 1] = Len(l)
    <3>1. v[a + 1] = IF a + 1 <= a THEN w[a + 1] ELSE c[a + 1 - a]
      BY <2>1, <2>4 DEF a, b
    <3> QED BY <1>3, <2>4, <3>1
  <2> QED BY <2>1, <2>2, <2>4, <2>5, <2>6 DEF a, b, m
<1>6. SubSeq(v, Len(w) + 2, Len(v)) = l
  <2>1. Len(w) + 2 \in Len(w) + 1 .. Len(w) + Len(c) /\ Len(v) = Len(w) + Len(c)
        /\ Len(v) \in Len(w) + 1 .. Len(w) + Len(c)
        /\ Len(w) + 2 - Len(w) = 2 /\ Len(v) - Len(w) = Len(c)
    <3> DEFINE a == Len(w)
               b == Len(c)
               m == Len(l)
               h == Len(v)
    <3>1. a \in Nat /\ m \in 1 .. 255 /\ b = 1 + m /\ h = a + 1 + m
      BY <1>3, <1>5
    <3> HIDE DEF v, a, b, m, h
    <3>2. a + 2 \in a + 1 .. a + b /\ h = a + b /\ h \in a + 1 .. a + b
          /\ a + 2 - a = 2 /\ h - a = b
      BY <3>1
    <3> QED BY <3>2 DEF a, b, h
  <2>2. SubSeq(v, Len(w) + 2, Len(v)) = SubSeq(c, Len(w) + 2 - Len(w), Len(v) - Len(w))
    <3> DEFINE m1 == Len(w) + 2
               m2 == Len(v)
    <3>1. m1 \in Len(w) + 1 .. Len(w) + Len(c) /\ m2 \in Len(w) + 1 .. Len(w) + Len(c)
      BY <2>1
    <3> HIDE DEF m1, m2
    <3>2. SubSeq(w \o c, m1, m2) = SubSeq(c, m1 - Len(w), m2 - Len(w))
      BY <1>3, <3>1, SubSeqOfConcat2
    <3> QED BY <3>2 DEF m1, m2
  <2> QED BY <1>4, <2>1, <2>2
<1>7. /\ n \in Nat /\ us \in Seq(Seq(Code)) /\ Len(us) = n + 1 /\ us[n + 1] = l
      /\ \A k \in 1 .. n : us[k] = ps[k]
  BY AppendProperties, LenProperties
<1>8. \A k \in 1 .. n : SubSeq(v, q[k - 1] + 2, q[k]) = ps[k]
  <2> SUFFICES ASSUME NEW k \in 1 .. n PROVE SubSeq(v, q[k - 1] + 2, q[k]) = ps[k]
    OBVIOUS
  <2> DEFINE a == q[k - 1]
             b == q[k]
             m == Len(ps[k])
             h == Len(w)
  <2>1. /\ a \in Int /\ b \in Int /\ m \in Int /\ h \in Int /\ 0 <= a /\ b <= h
        /\ 1 <= m /\ b = a + 1 + m /\ SubSeq(w, a + 2, b) = ps[k]
    BY <1>1, EndsAt
  <2> HIDE DEF a, b, m
  <2>2. a + 2 \in 1 .. h /\ b \in 1 .. h
    <3> HIDE DEF h
    <3> QED BY <2>1
  <2>3. SubSeq(v, a + 2, b) = SubSeq(w, a + 2, b)
    BY <1>3, <2>2, SubSeqOfConcat1
  <2> QED BY <2>1, <2>3 DEF a, b
<1> HIDE DEF v, us
<1> DEFINE r == [k \in 0 .. n + 1 |-> IF k = n + 1 THEN Len(v) ELSE q[k]]
<1>9. /\ q \in [0 .. n -> 0 .. Len(w)] /\ q[0] = 0 /\ q[n] = Len(w)
      /\ r \in [0 .. n + 1 -> 0 .. Len(v)] /\ r[0] = 0 /\ r[n + 1] = Len(v)
      /\ \A k \in 0 .. n : r[k] = q[k] /\ q[k] \in 0 .. Len(w)
  <2>1. q \in [0 .. n -> 0 .. Len(w)] /\ q[0] = 0 /\ q[n] = Len(w)
    BY <1>1 DEF Ends
  <2>2. n \in Nat /\ Len(w) \in Nat /\ Len(v) \in Nat /\ Len(w) <= Len(v)
    BY <1>5, <1>7
  <2> DEFINE a == Len(w)
             b == Len(v)
  <2> HIDE DEF n, a, b
  <2>3. \A k \in 0 .. a : k \in 0 .. b
    BY <2>2 DEF a, b
  <2>4. \A k \in 0 .. n : r[k] = q[k] /\ q[k] \in 0 .. a
    BY <2>1, <2>2 DEF a
  <2>5. r[n + 1] = b /\ b \in 0 .. b /\ r[0] = 0 /\ n + 1 \in 0 .. n + 1
    BY <2>1, <2>2 DEF b
  <2>6. \A k \in 0 .. n + 1 : r[k] \in 0 .. b
    <3> SUFFICES ASSUME NEW k \in 0 .. n + 1 PROVE r[k] \in 0 .. b
      OBVIOUS
    <3>1. k # n + 1 => k \in 0 .. n
      BY <2>2
    <3> HIDE DEF r
    <3> QED BY <2>3, <2>4, <2>5, <3>1
  <2> QED BY <2>1, <2>4, <2>5, <2>6 DEF a, b
<1>10. \A k \in 1 .. n + 1 :
         /\ Len(us[k]) \in 1 .. 255
         /\ r[k] = r[k - 1] + 1 + Len(us[k])
         /\ v[r[k - 1] + 1] = Len(us[k])
         /\ SubSeq(v, r[k - 1] + 2, r[k]) = us[k]
  <2> HIDE DEF r
  <2> SUFFICES ASSUME NEW k \in 1 .. n + 1
               PROVE /\ Len(us[k]) \in 1 .. 255
                     /\ r[k] = r[k - 1] + 1 + Len(us[k])
                     /\ v[r[k - 1] + 1] = Len(us[k])
                     /\ SubSeq(v, r[k - 1] + 2, r[k]) = us[k]
    OBVIOUS
  <2>1. CASE k = n + 1
    <3>1. r[k - 1] = Len(w) /\ r[k] = Len(v) /\ us[k] = l
      <4>1. k - 1 = n /\ n \in 0 .. n
        BY <1>7, <2>1
      <4>2. r[n] = q[n] /\ q[n] = Len(w)
        BY <1>9, <4>1
      <4> QED BY <1>7, <1>9, <2>1, <4>1, <4>2
    <3> QED BY <1>5, <1>6, <3>1
  <2>2. CASE k # n + 1
    <3>1. k \in 1 .. n /\ k \in 0 .. n /\ k - 1 \in 0 .. n
      BY <1>7, <2>2
    <3>2. us[k] = ps[k] /\ r[k] = q[k] /\ r[k - 1] = q[k - 1]
      BY <1>7, <1>9, <3>1
    <3>3. /\ Len(ps[k]) \in 1 .. 255 /\ q[k] = q[k - 1] + 1 + Len(ps[k])
          /\ w[q[k - 1] + 1] = Len(ps[k])
      BY <1>1, <3>1 DEF Ends
    <3>5. q[k - 1] + 1 \in 1 .. Len(w)
      <4> DEFINE a == q[k - 1]
                 b == q[k]
                 m == Len(ps[k])
                 h == Len(w)
      <4>1. /\ a \in Int /\ b \in Int /\ m \in Int /\ h \in Int /\ 0 <= a /\ b <= h
            /\ 1 <= m /\ b = a + 1 + m
        BY <1>1, <3>1, EndsAt
      <4> HIDE DEF a, b, m, h
      <4>2. a + 1 \in 1 .. h
        BY <4>1
      <4> QED BY <4>2 DEF a, h
    <3> QED BY <1>5, <1>8, <3>1, <3>2, <3>3, <3>5
  <2> QED BY <2>1, <2>2
<1> HIDE DEF r
<1>11. Ends(v, us, r)
  BY <1>7, <1>9, <1>10 DEF Ends
<1> QED BY <1>5, <1>11 DEF Coded, v, us, c

(* What a server reads of the bytes w.                                     *)
Nowhere(w, k) == k > Len(w) \/ w[k] > Len(w) - k

ReadAt(w, k, f) ==
  IF Nowhere(w, k) THEN [labels |-> <<>>, rest |-> <<"nowhere">>]
  ELSE IF w[k] = 0 THEN [labels |-> <<>>, rest |-> SubSeq(w, k + 1, Len(w))]
  ELSE [f[k + 1 + w[k]] EXCEPT !.labels = <<SubSeq(w, k + 1, k + w[k])>> \o @]

ReadFrom(w) ==
  CHOOSE f : f = [k \in 1 .. Len(w) + 1 |->
    IF k > Len(w) \/ w[k] > Len(w) - k
    THEN [labels |-> <<>>, rest |-> <<"nowhere">>]
    ELSE IF w[k] = 0
    THEN [labels |-> <<>>, rest |-> SubSeq(w, k + 1, Len(w))]
    ELSE [f[k + 1 + w[k]] EXCEPT
            !.labels = <<SubSeq(w, k + 1, k + w[k])>> \o @]]

LEMMA ReadIs ==
  Question!Read = ReadFrom(written)[1]
BY DEF Question!Read, ReadFrom

LEMMA ReadGoesOn ==
  ASSUME NEW w \in Seq(Octet)
  PROVE  \A k \in 1 .. Len(w) + 1 : ReadFrom(w)[k] = ReadAt(w, k, ReadFrom(w))
<1> DEFINE D == 1 .. Len(w) + 1
           R == {<<"nowhere">>} \cup {SubSeq(w, k + 1, Len(w)) : k \in D}
           L == Seq(Seq(Octet))
           V == [labels : L, rest : R]
           goes(k) == ~Nowhere(w, k) /\ w[k] # 0
           n == Len(w)
           rank == [k \in D |-> n + 1 - k]
           before == [k \in D |-> IF goes(k) THEN k + 1 + w[k] ELSE 0]
           base == [k \in D |->
                     IF Nowhere(w, k) THEN [labels |-> <<>>, rest |-> <<"nowhere">>]
                     ELSE [labels |-> <<>>, rest |-> SubSeq(w, k + 1, Len(w))]]
           label(k) == SubSeq(w, k + 1, k + w[k])
           step == [e \in D \X V |->
                     IF goes(e[1]) THEN [e[2] EXCEPT !.labels = <<label(e[1])>> \o @]
                     ELSE e[2]]
<1>1. n \in Nat /\ \A k \in 1 .. n : w[k] \in Nat
  <2>1. ASSUME NEW k \in 1 .. Len(w) PROVE w[k] \in Octet
    BY ElementOfSeq
  <2>2. ASSUME NEW x \in Octet PROVE x \in Nat
    BY DEF Octet
  <2> QED BY <2>1, <2>2, LenProperties
<1>2. ASSUME NEW k \in D, goes(k)
      PROVE  /\ k \in 1 .. n /\ w[k] \in Nat /\ k + w[k] <= n
             /\ k + 1 + w[k] \in D /\ n + 1 - (k + 1 + w[k]) < n + 1 - k
             /\ before[k] = k + 1 + w[k] /\ label(k) \in Seq(Octet)
  <2>1. k \in 1 .. n /\ w[k] \in Nat /\ k + w[k] <= n
    <3>1. k <= n /\ ~(w[k] > n - k)
      BY <1>1, <1>2 DEF Nowhere
    <3>2. k \in 1 .. n /\ w[k] \in Nat
      BY <1>1, <3>1
    <3> QED BY <1>1, <3>1, <3>2
  <2>2. before[k] = k + 1 + w[k]
    BY <1>2
  <2>3. label(k) \in Seq(Octet)
    <3>1. \A j \in k + 1 .. k + w[k] : w[j] \in Octet
      <4> SUFFICES ASSUME NEW j \in k + 1 .. k + w[k] PROVE w[j] \in Octet
        OBVIOUS
      <4>1. j \in 1 .. Len(w)
        BY <1>1, <2>1
      <4> QED BY <4>1, ElementOfSeq
    <3>2. k + 1 \in Int /\ k + w[k] \in Int
      BY <2>1
    <3> QED BY <3>1, <3>2, SubSeqProperties
  <2> HIDE DEF before, label
  <2> QED BY <1>1, <2>1, <2>2, <2>3
<1>3. ASSUME NEW k \in D, ~goes(k) PROVE before[k] = 0 /\ 0 \notin D
  BY <1>1, <1>3
<1>4. PICK f \in [D -> V] : \A k \in D :
         f[k] = IF before[k] \in D THEN step[<<k, f[before[k]]>>] ELSE base[k]
  <2>1. rank \in [D -> 0 .. n]
    BY <1>1
  <2>2. base \in [D -> V]
    <3>1. <<>> \in L
      BY EmptySeq
    <3> HIDE DEF L
    <3> QED BY <3>1
  <2>3. step \in [D \X V -> V]
    <3>1. ASSUME NEW e \in D \X V
          PROVE  (IF goes(e[1]) THEN [e[2] EXCEPT !.labels = <<label(e[1])>> \o @]
                  ELSE e[2]) \in V
      <4> DEFINE k == e[1]
                 v == e[2]
      <4>1. k \in D /\ v \in V /\ v.labels \in L /\ v.rest \in R
        <5> HIDE DEF L, R
        <5> QED OBVIOUS
      <4>2. goes(k) => <<label(k)>> \o v.labels \in L
        <5> SUFFICES ASSUME goes(k) PROVE <<label(k)>> \o v.labels \in L
          OBVIOUS
        <5>1. label(k) \in Seq(Octet)
          BY <1>2, <4>1
        <5> HIDE DEF label, k, v
        <5>2. <<label(k)>> \in L
          BY <5>1
        <5> QED BY <4>1, <5>2, ConcatProperties
      <4> HIDE DEF L, R, label, k, v, goes
      <4>3. [v EXCEPT !.labels = <<label(k)>> \o @] = [v EXCEPT !.labels = <<label(k)>> \o v.labels]
        BY <4>1
      <4>4. goes(k) => [v EXCEPT !.labels = <<label(k)>> \o v.labels] \in V
        BY <4>1, <4>2
      <4> QED BY <4>1, <4>3, <4>4 DEF k, v
    <3> HIDE DEF V, D, goes, label
    <3> QED BY <3>1
  <2>4. \A k \in D : before[k] \in D => rank[before[k]] < rank[k]
    <3> SUFFICES ASSUME NEW k \in D, before[k] \in D PROVE rank[before[k]] < rank[k]
      OBVIOUS
    <3>1. goes(k)
      BY <1>3
    <3>2. k + 1 + w[k] \in D /\ before[k] = k + 1 + w[k]
          /\ n + 1 - (k + 1 + w[k]) < n + 1 - k
      BY <1>2, <3>1
    <3> QED BY <3>2
  <2>5. Descends(D, V, n, rank, before, base, step)
    <3> HIDE DEF D, V, rank, before, base, step
    <3> QED BY <1>1, <2>1, <2>2, <2>3, <2>4 DEF Descends
  <2> HIDE DEF D, V, n, rank, base, step, before
  <2> QED BY <2>5, Recursion
<1>5. \A k \in D : f[k] = ReadAt(w, k, f)
  <2> SUFFICES ASSUME NEW k \in D PROVE f[k] = ReadAt(w, k, f)
    OBVIOUS
  <2>1. CASE goes(k)
    <3>1. before[k] = k + 1 + w[k] /\ k + 1 + w[k] \in D
      BY <1>2, <2>1
    <3> HIDE DEF V, label
    <3>2. <<k, f[k + 1 + w[k]]>> \in D \X V
      BY <3>1
    <3>3. step[<<k, f[k + 1 + w[k]]>>]
            = [f[k + 1 + w[k]] EXCEPT !.labels = <<label(k)>> \o @]
      BY <2>1, <3>2
    <3> HIDE DEF D, step, before
    <3> QED BY <1>4, <2>1, <3>1, <3>3 DEF ReadAt, label
  <2>2. CASE ~goes(k)
    <3>1. before[k] \notin D
      BY <1>3, <2>2
    <3>2. f[k] = base[k]
      <4> HIDE DEF D, step, before, base, V
      <4> QED BY <1>4, <3>1
    <3> QED BY <2>2, <3>2 DEF ReadAt
  <2> QED BY <2>1, <2>2
<1> DEFINE Def(g) == g = [k \in 1 .. Len(w) + 1 |-> ReadAt(w, k, g)]
<1> HIDE DEF V, R, L
<1>6. Def(f)
  BY <1>5
<1>7. ReadFrom(w) = CHOOSE g : Def(g)
  BY DEF ReadFrom, ReadAt, Nowhere
<1>8. Def(ReadFrom(w))
  BY <1>6, <1>7, Zenon
<1> DEFINE h == ReadFrom(w)
<1>9. h = [k \in 1 .. Len(w) + 1 |-> ReadAt(w, k, h)]
  BY <1>8
<1> HIDE DEF h
<1>10. \A k \in 1 .. Len(w) + 1 : h[k] = ReadAt(w, k, h)
  BY <1>9, Zenon
<1> QED BY <1>10 DEF h

(* Behind the parts an empty one, and what follows it.                     *)
LEMMA CodedIsRead ==
  ASSUME NEW w \in Seq(Octet), NEW ps \in Seq(Seq(Code)), Coded(w, ps),
         NEW t \in Seq(Octet)
  PROVE  ReadFrom(w \o (<<0>> \o t))[1] = [labels |-> ps, rest |-> t]
<1> DEFINE v == w \o (<<0>> \o t)
<1>0. v = w \o (<<0>> \o t)
  OBVIOUS
<1> HIDE DEF v
<1> DEFINE h == ReadFrom(v)
           n == Len(ps)
           a == Len(w)
           m == Len(t)
           c == <<0>> \o t
           Rest(k) == [labels |-> SubSeq(ps, k + 1, n), rest |-> t]
<1>1. PICK q : Ends(w, ps, q)
  BY DEF Coded
<1>2. n \in Nat /\ a \in Nat /\ m \in Nat
  BY LenProperties
<1>3. /\ c \in Seq(Octet) /\ Len(c) = m + 1 /\ c[1] = 0
      /\ \A k \in 1 .. m : c[k + 1] = t[k]
  <2>1. <<0>> \in Seq(Octet) /\ Len(<<0>>) = 1
    BY DEF Octet
  <2>2. /\ c \in Seq(Octet) /\ Len(c) = 1 + m
        /\ \A k \in 1 .. 1 + m : c[k] = IF k <= 1 THEN <<0>>[k] ELSE t[k - 1]
    BY <2>1, ConcatProperties
  <2> HIDE DEF c, m
  <2>3. c[1] = 0
    BY <1>2, <2>2
  <2>4. \A k \in 1 .. m : c[k + 1] = t[k]
    <3> SUFFICES ASSUME NEW k \in 1 .. m PROVE c[k + 1] = t[k]
      OBVIOUS
    <3>1. k + 1 \in 1 .. 1 + m /\ ~(k + 1 <= 1) /\ k + 1 - 1 = k
      BY <1>2
    <3> QED BY <2>2, <3>1
  <2> QED BY <1>2, <2>2, <2>3, <2>4
<1>4. SubSeq(c, 2, m + 1) = t
  <2> HIDE DEF c
  <2>1. \A k \in 2 .. m + 1 : c[k] \in Octet
    <3> SUFFICES ASSUME NEW k \in 2 .. m + 1 PROVE c[k] \in Octet
      OBVIOUS
    <3>1. k \in 1 .. Len(c)
      <4> HIDE DEF m
      <4> QED BY <1>2, <1>3
    <3>2. c \in Seq(Octet)
      BY <1>3
    <3> QED BY <3>1, <3>2, ElementOfSeq
  <2>2. 2 \in Int /\ m + 1 \in Int /\ m + 1 - 2 + 1 = m
        /\ (2 <= m + 1 => m + 1 - 2 + 1 = m) /\ (~(2 <= m + 1) => m = 0)
    <3> HIDE DEF m
    <3> QED BY <1>2
  <2> DEFINE u == SubSeq(c, 2, m + 1)
  <2>3. /\ u \in Seq(Octet)
        /\ Len(u) = IF 2 <= m + 1 THEN m + 1 - 2 + 1 ELSE 0
        /\ \A k \in 1 .. m + 1 - 2 + 1 : u[k] = c[2 + k - 1]
    BY <2>1, <2>2, SubSeqProperties
  <2> HIDE DEF u
  <2>4. Len(u) = Len(t)
    BY <2>2, <2>3 DEF m
  <2>5. \A k \in 1 .. Len(u) : u[k] = t[k]
    <3> SUFFICES ASSUME NEW k \in 1 .. Len(u) PROVE u[k] = t[k]
      OBVIOUS
    <3>1. k \in 1 .. m /\ 2 + k - 1 = k + 1
      BY <2>4
    <3>2. k \in 1 .. m + 1 - 2 + 1
      BY <2>2, <3>1
    <3> QED BY <1>3, <2>3, <3>1, <3>2
  <2>6. u = t
    BY <2>3, <2>4, <2>5, SeqEqual
  <2> QED BY <2>6 DEF u
<1> HIDE DEF c
<1>5. /\ v \in Seq(Octet) /\ Len(v) = a + m + 1 /\ v[a + 1] = 0
      /\ \A k \in 1 .. a : v[k] = w[k]
  <2>1. c \in Seq(Octet)
    BY <1>3
  <2>2. v = w \o c
    BY <1>0 DEF c
  <2>3. /\ v \in Seq(Octet) /\ Len(v) = Len(w) + Len(c)
        /\ \A k \in 1 .. Len(w) + Len(c) :
             v[k] = IF k <= Len(w) THEN w[k] ELSE c[k - Len(w)]
    BY <2>1, <2>2, ConcatProperties
  <2>4. Len(c) = m + 1 /\ c[1] = 0
    BY <1>3
  <2> HIDE DEF m, a
  <2>5. a + (m + 1) = a + m + 1 /\ a + 1 \in 1 .. a + (m + 1) /\ a + 1 - a = 1
        /\ ~(a + 1 <= a) /\ \A k \in 1 .. a : k \in 1 .. a + (m + 1) /\ k <= a
    BY <1>2
  <2>6. \A k \in 1 .. a + (m + 1) : v[k] = IF k <= a THEN w[k] ELSE c[k - a]
    BY <2>3, <2>4 DEF a
  <2>7. v[a + 1] = 0
    <3> DEFINE k == a + 1
    <3>1. k \in 1 .. a + (m + 1) /\ ~(k <= a) /\ k - a = 1
      BY <1>2
    <3> HIDE DEF k
    <3>2. v[k] = c[1]
      BY <2>6, <3>1
    <3> QED BY <2>4, <3>2 DEF k
  <2>8. \A k \in 1 .. a : v[k] = w[k]
    BY <2>5, <2>6
  <2> QED BY <2>3, <2>4, <2>5, <2>7, <2>8 DEF a
<1>6. SubSeq(v, a + 1 + 1, Len(v)) = t
  <2>1. m = 0 => t = <<>> /\ SubSeq(v, a + 1 + 1, Len(v)) = <<>>
    <3>1. m = 0 => t = <<>>
      BY EmptySeq
    <3>2. m = 0 => a + 1 + 1 \in Int /\ Len(v) \in Int /\ Len(v) < a + 1 + 1
      <4> HIDE DEF m, a
      <4> QED BY <1>2, <1>5
    <3> QED BY <3>1, <3>2, SubSeqEmpty
  <2>2. CASE m # 0
    <3>1. /\ a + 1 + 1 \in a + 1 .. a + (m + 1) /\ Len(v) \in a + 1 .. a + (m + 1)
          /\ a + 1 + 1 - a = 2 /\ Len(v) - a = m + 1
      <4> DEFINE b == Len(v)
      <4>1. b = a + m + 1
        BY <1>5
      <4> HIDE DEF m, a, b
      <4>2. /\ a + 1 + 1 \in a + 1 .. a + (m + 1) /\ b \in a + 1 .. a + (m + 1)
            /\ a + 1 + 1 - a = 2 /\ b - a = m + 1
        BY <1>2, <2>2, <4>1
      <4> QED BY <4>2 DEF b
    <3>2. v = w \o c /\ c \in Seq(Octet) /\ Len(c) = m + 1
      BY <1>0, <1>3 DEF c
    <3>3. SubSeq(v, a + 1 + 1, Len(v)) = SubSeq(c, a + 1 + 1 - a, Len(v) - a)
      <4> HIDE DEF m
      <4> QED BY <3>1, <3>2, SubSeqOfConcat2
    <3> QED BY <1>4, <3>1, <3>3
  <2> QED BY <2>1, <2>2
<1>7. \A k \in 1 .. Len(v) + 1 : h[k] = ReadAt(v, k, h)
  BY <1>5, ReadGoesOn
<1> HIDE DEF h
<1>8. q[n] = a /\ h[q[n] + 1] = Rest(n)
  <2>1. q[n] = a
    BY <1>1 DEF Ends
  <2>2. a + 1 \in 1 .. Len(v) + 1 /\ ~(a + 1 > Len(v)) /\ ~(0 > Len(v) - (a + 1))
    <3> HIDE DEF a, m
    <3> QED BY <1>2, <1>5
  <2>3. ReadAt(v, a + 1, h) = [labels |-> <<>>, rest |-> t]
    <3>1. ~Nowhere(v, a + 1)
      BY <1>5, <2>2 DEF Nowhere
    <3> QED BY <1>5, <1>6, <3>1 DEF ReadAt
  <2>4. SubSeq(ps, n + 1, n) = <<>>
    <3>1. n + 1 \in Int /\ n \in Int /\ n < n + 1
      BY <1>2
    <3> QED BY <3>1, SubSeqEmpty
  <2> QED BY <1>7, <2>1, <2>2, <2>3, <2>4
<1>9. ASSUME NEW k \in 1 .. n, h[q[k] + 1] = Rest(k) PROVE h[q[k - 1] + 1] = Rest(k - 1)
  <2> DEFINE x == q[k - 1]
             y == q[k]
             l == Len(ps[k])
             b == Len(v)
  <2>1. /\ x \in Int /\ y \in Int /\ l \in Int /\ a \in Int /\ b \in Int
        /\ 0 <= x /\ y <= a /\ 1 <= l /\ l <= 255 /\ y = x + 1 + l
        /\ w[x + 1] = l /\ SubSeq(w, x + 2, y) = ps[k] /\ b = a + m + 1
    <3>1. /\ x \in Int /\ y \in Int /\ l \in Int
          /\ 0 <= x /\ y <= a /\ 1 <= l /\ l <= 255 /\ y = x + 1 + l
          /\ w[x + 1] = l /\ SubSeq(w, x + 2, y) = ps[k]
      BY <1>1, EndsAt
    <3>2. b = a + m + 1
      BY <1>5
    <3> HIDE DEF x, y, l, b, a, m
    <3> QED BY <1>2, <3>1, <3>2
  <2>2. h[y + 1] = Rest(k)
    BY <1>9
  <2>3. h[x + 1] = ReadAt(v, x + 1, h) => x + 1 \in Int
    BY <2>1
  <2> DEFINE z == x + 1
  <2>4. /\ z \in 1 .. a /\ z \in 1 .. b + 1 /\ ~(z > b) /\ ~(l > b - z) /\ l # 0
        /\ z + 1 + l = y + 1 /\ z + 1 = x + 2 /\ z + l = y
        /\ x + 2 \in 1 .. a /\ y \in 1 .. a
    <3> HIDE DEF x, y, l, b, a, m
    <3> QED BY <1>2, <2>1
  <2>5. v[z] = l
    <3> HIDE DEF x, y, l, b, a, m
    <3> QED BY <1>5, <2>1, <2>4
  <2>6. h[z] = ReadAt(v, z, h)
    BY <1>7, <2>4
  <2>7. SubSeq(v, x + 2, y) = ps[k]
    <3>1. v = w \o c /\ c \in Seq(Octet)
      BY <1>0, <1>3 DEF c
    <3>2. x + 2 \in 1 .. Len(w) /\ y \in 1 .. Len(w)
      BY <2>4
    <3> DEFINE i1 == x + 2
    <3> HIDE DEF x, y, i1, a
    <3>3. SubSeq(w \o c, i1, y) = SubSeq(w, i1, y)
      <4>1. i1 \in 1 .. Len(w)
        BY <3>2 DEF i1
      <4> QED BY <3>1, <3>2, <4>1, SubSeqOfConcat1
    <3>4. SubSeq(v, x + 2, y) = SubSeq(w, x + 2, y)
      BY <3>1, <3>3 DEF i1
    <3> QED BY <2>1, <3>4
  <2> HIDE DEF x, y, l, z, b
  <2>8. ReadAt(v, z, h) = [h[y + 1] EXCEPT !.labels = <<ps[k]>> \o @]
    <3>1. ~Nowhere(v, z)
      BY <2>4, <2>5 DEF Nowhere, b
    <3>2. v[z] # 0 /\ z + 1 + v[z] = y + 1 /\ z + 1 = x + 2 /\ z + v[z] = y
      BY <2>4, <2>5
    <3> QED BY <2>7, <3>1, <3>2 DEF ReadAt
  <2>9. <<ps[k]>> \o SubSeq(ps, k + 1, n) = SubSeq(ps, k, n)
    <3>1. k \in 1 .. Len(ps) /\ n \in k .. Len(ps)
      BY <1>2
    <3> QED BY <3>1, SubSeqRecursiveFirst
  <2>10. [h[y + 1] EXCEPT !.labels = <<ps[k]>> \o @]
           = [labels |-> SubSeq(ps, k, n), rest |-> t]
    <3>1. h[y + 1] = [labels |-> SubSeq(ps, k + 1, n), rest |-> t]
      BY <2>2
    <3>2. [[labels |-> SubSeq(ps, k + 1, n), rest |-> t]
             EXCEPT !.labels = <<ps[k]>> \o @]
           = [labels |-> <<ps[k]>> \o SubSeq(ps, k + 1, n), rest |-> t]
      <4> DEFINE u == SubSeq(ps, k + 1, n)
                 r == [labels |-> u, rest |-> t]
                 g == <<ps[k]>> \o u
      <4>1. r.labels = u
        OBVIOUS
      <4> HIDE DEF u, g
      <4>2. [r EXCEPT !.labels = g] = [labels |-> g, rest |-> t]
        OBVIOUS
      <4> QED BY <4>1, <4>2 DEF u, g
    <3> HIDE DEF n
    <3> QED BY <2>9, <3>1, <3>2
  <2>11. k - 1 + 1 = k
    OBVIOUS
  <2> QED BY <2>6, <2>8, <2>10, <2>11 DEF z, x
<1> DEFINE S == {j \in Nat : j <= n => h[q[n - j] + 1] = Rest(n - j)}
<1>10. Nat \subseteq S
  <2>1. 0 \in S
    <3>1. n - 0 = n
      BY <1>2
    <3> QED BY <1>8, <3>1
  <2>2. ASSUME NEW j \in Nat, j \in S PROVE j + 1 \in S
    <3>1. CASE j + 1 <= n
      <4>1. n - j \in 1 .. n /\ n - j - 1 = n - (j + 1) /\ j <= n
        BY <1>2, <3>1
      <4>2. h[q[n - j] + 1] = Rest(n - j)
        BY <2>2, <4>1
      <4>3. h[q[n - j - 1] + 1] = Rest(n - j - 1)
        BY <1>9, <4>1, <4>2
      <4> HIDE DEF Rest
      <4> QED BY <4>1, <4>3
    <3> QED BY <3>1
  <2> HIDE DEF S
  <2> QED BY <2>1, <2>2, Induct
<1>11. n \in S /\ n - n = 0
  <2> HIDE DEF S, n
  <2> QED BY <1>2, <1>10
<1>12. h[q[0] + 1] = Rest(0)
  <2> HIDE DEF Rest
  <2> QED BY <1>2, <1>11
<1>13. q[0] = 0 /\ q[0] + 1 = 1 /\ 0 + 1 = 1
  BY <1>1 DEF Ends
<1>14. SubSeq(ps, 1, n) = ps
  BY SubSeqFull
<1> QED BY <1>12, <1>13, <1>14 DEF h, v

(* The parts before the e-th place of s are written in w; a is start.      *)
PartsWritten(s, a, e, w) ==
  /\ e \in 1 .. Len(s) + 1 /\ w \in Seq(Octet)
  /\ \/ a = 1 /\ e = 1
     \/ a = e + 1 /\ (e \in 1 .. Len(s) => s[e] = DotCode)
  /\ Coded(w, PartsTo(s)[e - 1])

AllWritten(s, v) ==
  \E w \in Seq(Octet) :
    /\ Coded(w, PartsTo(s)[Len(s)])
    /\ v = w \o (<<0>> \o (Question!TypeA \o Question!ClassIn))

QuestionInv ==
  \E s \in AskedNames : \E a, e, w :
    /\ aName = s /\ start = a /\ end = e /\ written = w
    /\ reads \subseteq 1 .. Len(s) + 1
    /\ reqPc \in {"parts", "done"}
    /\ reqPc = "parts" => PartsWritten(s, a, e, w)
    /\ reqPc = "done" => AllWritten(s, w)

(* The place f ends the part that starts at a.                             *)
IsEnd(s, a, f) ==
  /\ f \in a .. Len(s) + 1
  /\ f \in 1 .. Len(s) => s[f] = DotCode
  /\ \A j \in a .. f - 1 : j \in 1 .. Len(s) /\ s[j] # DotCode

(* Parts fit the byte of their length.                                     *)
LEMMA PartIsShort ==
  ASSUME NEW s \in Seq(Code), NEW a \in Nat \ {0}, NEW f, IsEnd(s, a, f),
         \A k \in 256 .. Len(s) : \E j \in k - 255 .. k : s[j] = DotCode
  PROVE  f - a \in 0 .. 255 /\ (f - a) % 256 = f - a
<1>1. Len(s) \in Nat
  BY LenProperties
<1>2. f \in Int /\ a <= f /\ f <= Len(s) + 1 /\ a \in Int /\ 0 < a
  BY <1>1 DEF IsEnd
<1>3. ASSUME f - a > 255 PROVE FALSE
  <2>1. a + 255 \in 256 .. Len(s)
    BY <1>1, <1>2, <1>3
  <2>2. PICK j \in a + 255 - 255 .. a + 255 : s[j] = DotCode
    BY <2>1
  <2>3. j \in a .. f - 1
    BY <1>2, <1>3
  <2> QED BY <2>2, <2>3 DEF IsEnd
<1>4. f - a \in 0 .. 255
  BY <1>2, <1>3
<1> DEFINE n == f - a
<1>5. n \in 0 .. 255
  BY <1>4
<1> HIDE DEF n
<1>6. n % 256 = n
  BY <1>5, SMT
<1> QED BY <1>5, <1>6 DEF n

(* A part is written.                                                      *)
LEMMA PartStep ==
  ASSUME NEW s \in Seq(Code), NEW a, NEW e, NEW w, PartsWritten(s, a, e, w),
         e \in 1 .. Len(s), NEW f, IsEnd(s, a, f),
         \A k \in 256 .. Len(s) : \E j \in k - 255 .. k : s[j] = DotCode
  PROVE  PartsWritten(s, f + 1, f,
           w \o (IF f > a THEN <<(f - a) % 256>> \o SubSeq(s, a, f - 1) ELSE <<>>))
<1> DEFINE h == PartsTo(s)
           l == SubSeq(s, a, f - 1)
<1>1. Len(s) \in Nat /\ h \in [0 .. Len(s) -> Seq(Seq(Code))]
      /\ \A k \in 1 .. Len(s) : h[k] = With(s, h[k - 1], k)
  BY PartsGrow, LenProperties
<1>2. w \in Seq(Octet)
  BY DEF PartsWritten
<1>3. a \in Nat \ {0}
  BY <1>1 DEF PartsWritten
<1>4. Coded(w, h[a - 1])
  <2>1. CASE a = 1 /\ e = 1
    BY <2>1 DEF PartsWritten
  <2>2. CASE a = e + 1 /\ s[e] = DotCode
    <3>1. a - 1 = e
      BY <1>1, <2>2
    <3> HIDE DEF h
    <3>2. h[e] = With(s, h[e - 1], e)
      BY <1>1
    <3>3. h[e] = h[e - 1]
      BY <2>2, <3>2 DEF With
    <3> QED BY <3>1, <3>3 DEF PartsWritten, h
  <2> QED BY <2>1, <2>2 DEF PartsWritten
<1>5. f \in a .. Len(s) + 1 /\ f \in 1 .. Len(s) + 1 /\ a \in Int /\ f \in Int
      /\ (f \in 1 .. Len(s) => s[f] = DotCode)
  BY <1>1, <1>3 DEF IsEnd
<1>6. f - a \in 0 .. 255 /\ (f - a) % 256 = f - a
  BY <1>3, PartIsShort
<1>7. CASE f > a
  <2>1. a \in 1 .. Len(s) /\ f \in a + 1 .. Len(s) + 1 /\ f - a \in 1 .. 255
        /\ a - 1 \in 0 .. Len(s)
    BY <1>1, <1>3, <1>5, <1>6, <1>7
  <2>2. a = 1 \/ s[a - 1] = DotCode
    <3>1. a = e + 1 => a - 1 = e
      OBVIOUS
    <3> QED BY <3>1 DEF PartsWritten
  <2>3. \A j \in a .. f - 1 : s[j] # DotCode /\ s[j] \in Code
    BY ElementOfSeq DEF IsEnd
  <2>4. h[f - 1] = Append(h[a - 1], l)
    BY <2>1, <2>2, <2>3, RunIsPart
  <2>5. l \in Seq(Code) /\ Len(l) = f - a
    <3>1. /\ l \in Seq(Code)
          /\ Len(l) = IF a <= f - 1 THEN f - 1 - a + 1 ELSE 0
      <4>1. a \in Int /\ f - 1 \in Int
        BY <1>5
      <4> QED BY <2>3, <4>1, SubSeqProperties
    <3>2. a <= f - 1 /\ f - 1 - a + 1 = f - a
      BY <1>5, <1>7
    <3> QED BY <3>1, <3>2
  <2>6. Len(l) \in 1 .. 255 /\ h[a - 1] \in Seq(Seq(Code))
    BY <1>1, <2>1, <2>5
  <2> DEFINE v == w \o (<<Len(l)>> \o l)
  <2> HIDE DEF h, l
  <2>7. v \in Seq(Octet) /\ Coded(v, Append(h[a - 1], l))
    BY <1>2, <1>4, <2>5, <2>6, CodedGrows
  <2>8. Coded(v, h[f - 1])
    BY <2>4, <2>7
  <2>9. v = w \o (IF f > a THEN <<(f - a) % 256>> \o SubSeq(s, a, f - 1) ELSE <<>>)
    BY <1>6, <1>7, <2>5 DEF l
  <2> HIDE DEF v
  <2>10. PartsWritten(s, f + 1, f, v)
    BY <1>5, <2>7, <2>8 DEF PartsWritten, h
  <2> QED BY <2>9, <2>10
<1>8. CASE ~(f > a)
  <2>1. f = a
    BY <1>5, <1>8
  <2>2. w \o <<>> = w
    BY <1>2, ConcatEmptySeq
  <2>3. PartsWritten(s, f + 1, f, w)
    BY <1>2, <1>4, <1>5, <2>1 DEF PartsWritten
  <2> QED BY <1>8, <2>2, <2>3
<1> QED BY <1>7, <1>8

(* The inner loop finds the end of a part.                                 *)
LEMMA EndIsFound ==
  ASSUME NEW s \in Seq(Code), aName = s, NEW a \in 1 .. Len(s) + 1, DotCode \in Code
  PROVE  IsEnd(s, a, Question!EndOf(a))
<1> DEFINE Ended(k) == Question!At(k) \in {DotCode, 0}
           S == {k \in a .. Len(s) + 1 : Ended(k)}
           Last(k) == /\ Ended(k) /\ \A j \in a .. k - 1 : ~Ended(j)
<1>1. Len(s) \in Nat /\ a \in Nat
  BY LenProperties
<1>2. \A k \in 1 .. Len(s) : s[k] \in Code /\ Question!At(k) = s[k]
  <2>1. ASSUME NEW k \in 1 .. Len(s) PROVE s[k] \in Code /\ Question!At(k) = s[k]
    BY <1>1, ElementOfSeq DEF Question!At
  <2> QED BY <2>1
<1>3. Ended(Len(s) + 1)
  BY <1>1 DEF Question!At
<1>4. S \in SUBSET Nat /\ Len(s) + 1 \in S
  BY <1>1, <1>3
<1> HIDE DEF S
<1>5. PICK k \in S : \A j \in S : k <= j
  BY <1>4, Least
<1>6. k \in a .. Len(s) + 1 /\ Last(k)
  <2>1. k \in a .. Len(s) + 1 /\ Ended(k)
    BY <1>5 DEF S
  <2>2. ASSUME NEW j \in a .. k - 1, Ended(j) PROVE FALSE
    <3>1. j \in S
      BY <1>1, <2>1, <2>2 DEF S
    <3>2. ~(k <= j)
      BY <1>1, <2>1
    <3> QED BY <1>5, <3>1, <3>2
  <2> QED BY <2>1, <2>2
<1> DEFINE f == Question!EndOf(a)
<1>7. f = CHOOSE n \in a .. Len(s) + 1 : Last(n)
  BY DEF Question!EndOf
<1> HIDE DEF Last, f
<1>8. f \in a .. Len(s) + 1 /\ Last(f)
  BY <1>6, <1>7
<1>9. f \in 1 .. Len(s) => s[f] = DotCode
  <2> SUFFICES ASSUME f \in 1 .. Len(s) PROVE s[f] = DotCode
    OBVIOUS
  <2>1. s[f] \in Code /\ Question!At(f) = s[f]
    BY <1>2
  <2>2. s[f] \in {DotCode, 0}
    BY <1>8, <2>1 DEF Last
  <2>3. 0 \notin Code
    BY DEF Code
  <2> QED BY <2>1, <2>2, <2>3
<1>10. ASSUME NEW j \in a .. f - 1 PROVE j \in 1 .. Len(s) /\ s[j] # DotCode
  <2>1. j \in 1 .. Len(s)
    BY <1>1, <1>8
  <2> QED BY <1>2, <1>8, <2>1 DEF Last
<1> QED BY <1>8, <1>9, <1>10 DEF IsEnd, f

LEMMA QuestionInit ==
  ASSUME Question!Init, Question!DnsRequestAssumption PROVE QuestionInv
<1>1. /\ aName \in AskedNames /\ aName \in Seq(Code)
      /\ start = 1 /\ end = 1 /\ written = <<>> /\ reads = {} /\ reqPc = "parts"
  BY DEF Question!Init, Question!DnsRequestAssumption, Code
<1>2. Len(aName) \in Nat /\ <<>> \in Seq(Octet)
  BY <1>1, LenProperties, EmptySeq
<1>3. Coded(<<>>, PartsTo(aName)[1 - 1])
  BY <1>1, PartsGrow, NothingIsCoded
<1>4. PartsWritten(aName, 1, 1, <<>>)
  BY <1>2, <1>3 DEF PartsWritten
<1> QED BY <1>1, <1>4 DEF QuestionInv

(* What follows the parts.                                                 *)
LEMMA QuestionTail ==
  ASSUME NEW w \in Seq(Octet)
  PROVE  /\ ((w \o <<0>>) \o Question!TypeA) \o Question!ClassIn
              = w \o (<<0>> \o (Question!TypeA \o Question!ClassIn))
         /\ Question!TypeA \o Question!ClassIn \in Seq(Octet)
<1> DEFINE z == <<0>>
           t == Question!TypeA
           c == Question!ClassIn
<1>1. z \in Seq(Octet) /\ t \in Seq(Octet) /\ c \in Seq(Octet)
  BY DEF Octet, Question!TypeA, Question!ClassIn
<1> HIDE DEF z, t, c
<1>2. t \o c \in Seq(Octet) /\ w \o z \in Seq(Octet) /\ z \o (t \o c) \in Seq(Octet)
  BY <1>1, ConcatProperties
<1>3. ((w \o z) \o t) \o c = (w \o z) \o (t \o c)
  <2> DEFINE u == w \o z
  <2>1. u \in Seq(Octet)
    BY <1>2
  <2> HIDE DEF u
  <2>2. (u \o t) \o c = u \o (t \o c)
    BY <1>1, <2>1, ConcatAssociative
  <2> QED BY <2>2 DEF u
<1>4. (w \o z) \o (t \o c) = w \o (z \o (t \o c))
  <2> DEFINE u == t \o c
  <2>1. u \in Seq(Octet)
    BY <1>2
  <2> HIDE DEF u
  <2>2. (w \o z) \o u = w \o (z \o u)
    BY <1>1, <2>1, ConcatAssociative
  <2> QED BY <2>2 DEF u
<1> QED BY <1>2, <1>3, <1>4 DEF z, t, c

LEMMA QuestionKeeps ==
  ASSUME Question!DnsRequestAssumption, QuestionInv,
         [Question!Next]_(Question!requestVars)
  PROVE  QuestionInv'
<1>1. PICK s, a, e, w :
        /\ s \in AskedNames
        /\ aName = s /\ start = a /\ end = e /\ written = w
        /\ reads \subseteq 1 .. Len(s) + 1
        /\ reqPc \in {"parts", "done"}
        /\ reqPc = "parts" => PartsWritten(s, a, e, w)
        /\ reqPc = "done" => AllWritten(s, w)
  BY DEF QuestionInv
<1>2. /\ s \in Seq(Code) /\ DotCode \in Code
      /\ \A k \in 256 .. Len(s) : \E j \in k - 255 .. k : s[j] = DotCode
  BY <1>1 DEF Question!DnsRequestAssumption, Code
<1>3. Len(s) \in Nat
  BY <1>2, LenProperties
<1>4. ASSUME NEW k \in 1 .. Len(s) PROVE s[k] \in Code /\ Question!At(k) = s[k]
  BY <1>1, <1>2, <1>3, <1>4, ElementOfSeq DEF Question!At
<1>5. CASE Question!Part
  <2> DEFINE f == Question!EndOf(a)
             v == w \o (IF f > a THEN <<(f - a) % 256>> \o SubSeq(s, a, f - 1) ELSE <<>>)
  <2>1. /\ reqPc = "parts" /\ Question!At(e) # 0 /\ end' = f /\ start' = f + 1
        /\ written' = v /\ reads' = reads \cup {e} \cup a .. f
        /\ aName' = s /\ reqPc' = "parts"
    BY <1>1, <1>5 DEF Question!Part, Question!Tested, Question!Behind, Question!Written
  <2>2. PartsWritten(s, a, e, w) /\ e \in 1 .. Len(s) + 1
    BY <1>1, <2>1 DEF PartsWritten
  <2>3. e \in 1 .. Len(s)
    <3>1. e > Len(s) => Question!At(e) = 0
      BY <1>1 DEF Question!At
    <3> QED BY <1>3, <2>1, <2>2, <3>1
  <2>4. a \in 1 .. Len(s) + 1
    BY <1>3, <2>2, <2>3 DEF PartsWritten
  <2>5. IsEnd(s, a, f)
    BY <1>1, <1>2, <2>4, EndIsFound
  <2> HIDE DEF f
  <2>6. PartsWritten(s, f + 1, f, v)
    BY <1>2, <2>2, <2>3, <2>5, PartStep
  <2>7. reads' \subseteq 1 .. Len(s) + 1
    <3>1. f \in a .. Len(s) + 1
      BY <2>5 DEF IsEnd
    <3>2. \A j \in a .. f : j \in 1 .. Len(s) + 1
      BY <1>3, <2>4, <3>1
    <3> QED BY <1>1, <2>1, <2>2, <3>2
  <2> HIDE DEF v
  <2> QED BY <1>1, <2>1, <2>6, <2>7 DEF QuestionInv
<1>6. CASE Question!Terminate
  <2> DEFINE v == w \o (<<0>> \o (Question!TypeA \o Question!ClassIn))
  <2>1. /\ reqPc = "parts" /\ Question!At(e) = 0 /\ end' = e /\ start' = a
        /\ reads' = reads \cup {e} /\ aName' = s /\ reqPc' = "done"
        /\ written' = ((w \o <<0>>) \o Question!TypeA) \o Question!ClassIn
    BY <1>1, <1>6 DEF Question!Terminate, Question!Tested
  <2>2. PartsWritten(s, a, e, w) /\ e \in 1 .. Len(s) + 1 /\ w \in Seq(Octet)
    BY <1>1, <2>1 DEF PartsWritten
  <2>3. written' = v
    BY <2>1, <2>2, QuestionTail
  <2>4. e - 1 = Len(s)
    <3>1. e \notin 1 .. Len(s)
      <4> SUFFICES ASSUME e \in 1 .. Len(s) PROVE FALSE
        OBVIOUS
      <4>1. s[e] \in Code /\ Question!At(e) = s[e]
        BY <1>4
      <4>2. Question!At(e) = 0
        BY <2>1
      <4>3. 0 \notin Code
        BY DEF Code
      <4> QED BY <4>1, <4>2, <4>3
    <3> QED BY <1>3, <2>2, <3>1
  <2>5. AllWritten(s, v)
    BY <2>2, <2>4 DEF AllWritten, PartsWritten
  <2>6. reads' \subseteq 1 .. Len(s) + 1
    BY <1>1, <2>1, <2>2
  <2> HIDE DEF v
  <2> QED BY <1>1, <2>1, <2>3, <2>5, <2>6 DEF QuestionInv
<1>7. CASE UNCHANGED Question!requestVars
  BY <1>1, <1>7 DEF QuestionInv, Question!requestVars
<1> QED BY <1>5, <1>6, <1>7 DEF Question!Next

LEMMA QuestionRead ==
  ASSUME Question!DnsRequestAssumption, QuestionInv
  PROVE  Question!ServerReadsTheName /\ Question!ReadsInside
<1>1. PICK s, w :
        /\ s \in AskedNames
        /\ aName = s /\ written = w
        /\ reads \subseteq 1 .. Len(s) + 1
        /\ reqPc = "done" => AllWritten(s, w)
  BY DEF QuestionInv
<1>2. Question!ReadsInside
  BY <1>1 DEF Question!ReadsInside
<1>3. ASSUME reqPc = "done"
      PROVE  Question!Read = [labels |-> Question!NameParts,
                              rest |-> Question!TypeA \o Question!ClassIn]
  <2> DEFINE t == Question!TypeA \o Question!ClassIn
             ps == PartsTo(s)[Len(s)]
  <2>1. PICK u \in Seq(Octet) : Coded(u, ps) /\ w = u \o (<<0>> \o t)
    BY <1>1, <1>3 DEF AllWritten
  <2>2. t \in Seq(Octet)
    BY <2>1, QuestionTail
  <2>3. s \in Seq(Code)
    BY <1>1 DEF Question!DnsRequestAssumption, Code
  <2>4. ps \in Seq(Seq(Code))
    BY <2>3, PartsGrow, LenProperties
  <2> HIDE DEF t, ps
  <2>5. ReadFrom(w)[1] = [labels |-> ps, rest |-> t]
    BY <2>1, <2>2, <2>4, CodedIsRead
  <2>6. Question!NameParts = ps
    BY <1>1, NamePartsIs DEF ps
  <2> QED BY <1>1, <2>5, <2>6, ReadIs DEF t
<1> QED BY <1>2, <1>3 DEF Question!ServerReadsTheName

(* Every name is read as it was written.                                   *)
LEMMA QuestionAlways ==
  Question!DnsRequestAssumption /\ Question!Spec
    => [](Question!ServerReadsTheName /\ Question!ReadsInside)
<1> SUFFICES ASSUME Question!DnsRequestAssumption
             PROVE  Question!Spec => [](Question!ServerReadsTheName /\ Question!ReadsInside)
  OBVIOUS
<1>1. Question!Init => QuestionInv
  BY QuestionInit
<1>2. QuestionInv /\ [Question!Next]_(Question!requestVars) => QuestionInv'
  BY QuestionKeeps
<1>3. QuestionInv => Question!ServerReadsTheName /\ Question!ReadsInside
  BY QuestionRead
<1> HIDE DEF QuestionInv
<1> QED BY <1>1, <1>2, <1>3, PTL DEF Question!Spec
-----------------------------------------------------------------------------
(* The answer.  A message is laid out chunk behind chunk: the chunks up to *)
(* the k-th, and where the k-th ends.                                      *)
Flats(ss) ==
  CHOOSE f : f = [k \in 1 .. Len(ss) |-> IF k = 1 THEN ss[k] ELSE f[k - 1] \o ss[k]]

Flat(ss) == IF Len(ss) = 0 THEN ss ELSE Flats(ss)[Len(ss)]

Place(ss, k) == IF k = 0 THEN 0 ELSE Len(Flats(ss)[k])

LEMMA FlatIs ==
  ASSUME NEW ss PROVE Response!FlattenSeq(ss) = Flat(ss)
BY DEF Response!FlattenSeq, Flat, Flats

LEMMA FlatsGrow ==
  ASSUME NEW ss \in Seq(Seq(Octet))
  PROVE  /\ \A k \in 1 .. Len(ss) : Flats(ss)[k] \in Seq(Octet)
         /\ 1 \in 1 .. Len(ss) => Flats(ss)[1] = ss[1]
         /\ \A k \in 2 .. Len(ss) : Flats(ss)[k] = Flats(ss)[k - 1] \o ss[k]
<1> DEFINE n == Len(ss)
           D == 1 .. n
           V == Seq(Octet)
           rank == [k \in D |-> k]
           before == [k \in D |-> k - 1]
           base == [k \in D |-> ss[k]]
           step == [e \in D \X V |-> e[2] \o ss[e[1]]]
<1>1. n \in Nat /\ \A k \in D : ss[k] \in V
  <2>1. ASSUME NEW k \in D PROVE ss[k] \in Seq(Octet)
    BY ElementOfSeq
  <2> QED BY <2>1, LenProperties
<1>2. PICK f \in [D -> V] : \A d \in D :
         f[d] = IF before[d] \in D THEN step[<<d, f[before[d]]>>] ELSE base[d]
  <2>1. rank \in [D -> 0 .. n] /\ base \in [D -> V]
    <3> HIDE DEF V, n
    <3> QED BY <1>1
  <2>2. step \in [D \X V -> V]
    <3>1. ASSUME NEW e \in D \X V PROVE e[2] \o ss[e[1]] \in V
      <4>1. e[2] \in Seq(Octet) /\ ss[e[1]] \in Seq(Octet)
        BY <1>1
      <4> QED BY <4>1, ConcatProperties
    <3> HIDE DEF V, D
    <3> QED BY <3>1
  <2>3. \A d \in D : before[d] \in D => rank[before[d]] < rank[d]
    BY <1>1
  <2> HIDE DEF D, V, rank, base, step, before, n
  <2>4. Descends(D, V, n, rank, before, base, step)
    BY <1>1, <2>1, <2>2, <2>3 DEF Descends
  <2> QED BY <2>4, Recursion
<1>3. \A d \in D : f[d] = IF d = 1 THEN ss[d] ELSE f[d - 1] \o ss[d]
  <2> SUFFICES ASSUME NEW d \in D
               PROVE  f[d] = IF d = 1 THEN ss[d] ELSE f[d - 1] \o ss[d]
    OBVIOUS
  <2>1. CASE d = 1
    <3>1. before[d] \notin D /\ base[d] = ss[d]
      BY <1>1, <2>1
    <3> HIDE DEF D, V, base, step, before
    <3> QED BY <1>2, <2>1, <3>1
  <2>2. CASE d # 1
    <3>1. before[d] = d - 1 /\ d - 1 \in D
      BY <1>1, <2>2
    <3> HIDE DEF V
    <3>2. <<d, f[d - 1]>> \in D \X V
      BY <3>1
    <3>3. step[<<d, f[d - 1]>>] = f[d - 1] \o ss[d]
      BY <2>2, <3>2
    <3> HIDE DEF D, step, before
    <3> QED BY <1>2, <2>2, <3>1, <3>3
  <2> QED BY <2>1, <2>2
<1> DEFINE Def(g) == g = [k \in 1 .. Len(ss) |->
                           IF k = 1 THEN ss[k] ELSE g[k - 1] \o ss[k]]
<1>4. Def(f)
  <2> HIDE DEF V
  <2> QED BY <1>3
<1>5. Flats(ss) = CHOOSE g : Def(g)
  BY DEF Flats
<1>6. Def(Flats(ss))
  BY <1>4, <1>5, Zenon
<1> DEFINE h == Flats(ss)
<1>7. h = [k \in 1 .. Len(ss) |-> IF k = 1 THEN ss[k] ELSE h[k - 1] \o ss[k]]
  BY <1>6
<1> HIDE DEF h, Def
<1>8. \A k \in D : h[k] = IF k = 1 THEN ss[k] ELSE h[k - 1] \o ss[k]
  BY <1>7
<1>9. 1 \in D => h[1] = ss[1]
  BY <1>8
<1>10. ASSUME NEW k \in 2 .. n PROVE h[k] = h[k - 1] \o ss[k]
  <2>1. k \in D /\ k # 1
    BY <1>1
  <2> HIDE DEF D
  <2> QED BY <1>8, <2>1
<1>11. \A k \in D : h[k] \in V
  <2> DEFINE S == {k \in Nat : k + 1 <= n => h[k + 1] \in V}
  <2>1. 0 \in S
    BY <1>1, <1>9
  <2>2. ASSUME NEW k \in Nat, k \in S PROVE k + 1 \in S
    <3>1. CASE k + 1 + 1 <= n
      <4>1. h[k + 1] \in V /\ k + 1 + 1 \in 2 .. n /\ k + 1 + 1 - 1 = k + 1
        BY <1>1, <2>2, <3>1
      <4> DEFINE j == k + 1 + 1
      <4>2. j \in 2 .. n /\ j \in D /\ j - 1 = k + 1
        BY <1>1, <4>1
      <4> HIDE DEF j, D
      <4>3. h[j] = h[k + 1] \o ss[j] /\ ss[j] \in V
        BY <1>1, <1>10, <4>2
      <4>4. h[j] \in V
        BY <4>1, <4>3, ConcatProperties
      <4> QED BY <4>4 DEF j
    <3> QED BY <3>1
  <2> HIDE DEF S, V
  <2>3. Nat \subseteq S
    BY <2>1, <2>2, Induct
  <2> SUFFICES ASSUME NEW k \in D PROVE h[k] \in V
    OBVIOUS
  <2>4. k - 1 \in Nat /\ k - 1 + 1 = k /\ k <= n
    BY <1>1
  <2>5. k - 1 \in S
    BY <2>3, <2>4
  <2> QED BY <2>4, <2>5 DEF S
<1> QED BY <1>9, <1>10, <1>11 DEF h

LEMMA PlacesGrow ==
  ASSUME NEW ss \in Seq(Seq(Octet))
  PROVE  /\ Flat(ss) \in Seq(Octet) /\ Len(Flat(ss)) = Place(ss, Len(ss))
         /\ Len(ss) \in Nat /\ Place(ss, 0) = 0
         /\ \A k \in 0 .. Len(ss) : Place(ss, k) \in Nat
<1>1. Len(ss) \in Nat
  BY LenProperties
<1>2. Place(ss, 0) = 0
  BY DEF Place
<1>3. ASSUME NEW k \in 0 .. Len(ss) PROVE Place(ss, k) \in Nat
  <2>1. CASE k = 0
    BY <2>1 DEF Place
  <2>2. CASE k # 0
    <3>1. k \in 1 .. Len(ss)
      BY <1>1, <2>2
    <3>2. Flats(ss)[k] \in Seq(Octet)
      BY <3>1, FlatsGrow
    <3> QED BY <2>2, <3>2, LenProperties DEF Place
  <2> QED BY <2>1, <2>2
<1>4. Flat(ss) \in Seq(Octet) /\ Len(Flat(ss)) = Place(ss, Len(ss))
  <2>1. CASE Len(ss) = 0
    <3>1. ss = <<>>
      BY <2>1, EmptySeq
    <3>2. Flat(ss) = <<>> /\ Place(ss, Len(ss)) = 0
      BY <2>1, <3>1 DEF Flat, Place
    <3> QED BY <3>2, EmptySeq
  <2>2. CASE Len(ss) # 0
    <3>1. Len(ss) \in 1 .. Len(ss)
      BY <1>1, <2>2
    <3>2. Flat(ss) = Flats(ss)[Len(ss)] /\ Place(ss, Len(ss)) = Len(Flats(ss)[Len(ss)])
      BY <2>2 DEF Flat, Place
    <3> QED BY <3>1, <3>2, FlatsGrow
  <2> QED BY <2>1, <2>2
<1> QED BY <1>1, <1>2, <1>3, <1>4

LEMMA NextPlace ==
  ASSUME NEW ss \in Seq(Seq(Octet)), NEW k \in 1 .. Len(ss)
  PROVE  /\ Place(ss, k) = Place(ss, k - 1) + Len(ss[k])
         /\ Len(ss[k]) \in Nat /\ Place(ss, k - 1) \in Nat
<1>1. Len(ss) \in Nat /\ Len(ss[k]) \in Nat
  <2>1. ss[k] \in Seq(Octet)
    BY ElementOfSeq
  <2> QED BY <2>1, LenProperties
<1>2. k - 1 \in 0 .. Len(ss)
  BY <1>1
<1>3. Place(ss, k - 1) \in Nat
  BY <1>2, PlacesGrow
<1>4. CASE k = 1
  <2>1. Flats(ss)[1] = ss[1]
    BY <1>4, FlatsGrow
  <2>2. Place(ss, k) = Len(ss[k]) /\ Place(ss, k - 1) = 0
    BY <1>4, <2>1 DEF Place
  <2> QED BY <1>1, <1>3, <2>2
<1>5. CASE k # 1
  <2>1. k \in 2 .. Len(ss) /\ k - 1 \in 1 .. Len(ss) /\ k # 0 /\ k - 1 # 0
    BY <1>1, <1>5
  <2>2. Flats(ss)[k] = Flats(ss)[k - 1] \o ss[k]
    BY <2>1, FlatsGrow
  <2>3. Flats(ss)[k - 1] \in Seq(Octet) /\ ss[k] \in Seq(Octet)
    BY <2>1, FlatsGrow, ElementOfSeq
  <2>4. Len(Flats(ss)[k]) = Len(Flats(ss)[k - 1]) + Len(ss[k])
    BY <2>2, <2>3, ConcatProperties
  <2>5. Place(ss, k) = Len(Flats(ss)[k]) /\ Place(ss, k - 1) = Len(Flats(ss)[k - 1])
    BY <2>1 DEF Place
  <2> QED BY <1>1, <1>3, <2>4, <2>5
<1> QED BY <1>4, <1>5

(* The bytes c stand in b behind the first o.                              *)
Lies(b, o, c) ==
  /\ o \in Nat /\ o + Len(c) <= Len(b)
  /\ \A j \in 1 .. Len(c) : b[o + j] = c[j]

LEMMA BothLie ==
  ASSUME NEW b \in Seq(Octet), NEW o, NEW c \in Seq(Octet), NEW d \in Seq(Octet),
         Lies(b, o, c \o d)
  PROVE  Lies(b, o, c) /\ Lies(b, o + Len(c), d)
<1> DEFINE x == Len(c)
           y == Len(d)
           z == Len(b)
           e == c \o d
<1>1. x \in Nat /\ y \in Nat /\ z \in Nat /\ o \in Nat
  BY LenProperties DEF Lies
<1>2. /\ Len(e) = x + y
      /\ \A j \in 1 .. x + y : e[j] = IF j <= x THEN c[j] ELSE d[j - x]
  BY ConcatProperties
<1> HIDE DEF e, x, y, z
<1>3. o + (x + y) <= z /\ \A j \in 1 .. x + y : b[o + j] = e[j]
  BY <1>2 DEF Lies, e, z
<1>4. o + x <= z /\ o + x \in Nat /\ o + x + y <= z
  BY <1>1, <1>3
<1>5. ASSUME NEW j \in 1 .. x PROVE b[o + j] = c[j]
  <2>1. j \in 1 .. x + y /\ j <= x
    BY <1>1
  <2> QED BY <1>2, <1>3, <2>1
<1>6. ASSUME NEW j \in 1 .. y PROVE b[o + x + j] = d[j]
  <2> DEFINE k == x + j
  <2>1. k \in 1 .. x + y /\ ~(k <= x) /\ k - x = j /\ o + k = o + x + j
    BY <1>1
  <2> HIDE DEF k
  <2>2. b[o + k] = e[k] /\ e[k] = d[k - x]
    BY <1>2, <1>3, <2>1
  <2> QED BY <2>1, <2>2
<1>7. Lies(b, o, c)
  BY <1>1, <1>4, <1>5 DEF Lies, x, z
<1>8. Lies(b, o + x, d)
  BY <1>4, <1>6 DEF Lies, y, z
<1> QED BY <1>7, <1>8 DEF x

LEMMA WholeLies ==
  ASSUME NEW b \in Seq(Octet) PROVE Lies(b, 0, b)
<1>1. Len(b) \in Nat /\ 0 + Len(b) <= Len(b)
  BY LenProperties
<1>2. \A j \in 1 .. Len(b) : 0 + j = j
  BY <1>1
<1> QED BY <1>1, <1>2 DEF Lies

(* The chunks stand at their places.                                       *)
LEMMA ChunkLies ==
  ASSUME NEW b \in Seq(Octet), NEW o, NEW ss \in Seq(Seq(Octet)),
         Lies(b, o, Flat(ss)), NEW k \in 1 .. Len(ss)
  PROVE  Lies(b, o + Place(ss, k - 1), ss[k])
<1> DEFINE h == Flats(ss)
           n == Len(ss)
           S == {j \in Nat : j < n => Lies(b, o, h[n - j])}
<1>1. n \in Nat /\ o \in Nat /\ n # 0
  BY LenProperties DEF Lies
<1>2. \A j \in 1 .. n : h[j] \in Seq(Octet) /\ ss[j] \in Seq(Octet)
  <2>1. ASSUME NEW j \in 1 .. Len(ss) PROVE Flats(ss)[j] \in Seq(Octet) /\ ss[j] \in Seq(Octet)
    BY FlatsGrow, ElementOfSeq
  <2> QED BY <2>1
<1>3. \A j \in 2 .. n : h[j] = h[j - 1] \o ss[j]
  BY FlatsGrow
<1>4. 0 \in S
  BY <1>1 DEF Flat
<1>5. ASSUME NEW j \in Nat, j \in S PROVE j + 1 \in S
  <2>1. CASE j + 1 < n
    <3> DEFINE m == n - j
    <3>1. m \in 2 .. n /\ m - 1 = n - (j + 1) /\ j < n /\ m \in 1 .. n /\ m - 1 \in 1 .. n
      BY <1>1, <2>1
    <3>2. Lies(b, o, h[m])
      BY <1>5, <3>1
    <3> HIDE DEF h, m, n, S
    <3>3. Lies(b, o, h[m - 1] \o ss[m])
      BY <1>3, <3>1, <3>2
    <3>4. h[m - 1] \in Seq(Octet) /\ ss[m] \in Seq(Octet)
      BY <1>2, <3>1
    <3>5. Lies(b, o, h[m - 1])
      BY <3>3, <3>4, BothLie
    <3> QED BY <3>1, <3>5 DEF S
  <2> QED BY <2>1
<1> HIDE DEF S
<1>6. Nat \subseteq S
  BY <1>4, <1>5, Induct
<1>7. Lies(b, o, h[k])
  <2>1. n - k \in Nat /\ n - k < n /\ n - (n - k) = k
    BY <1>1
  <2>2. n - k \in S
    BY <1>6, <2>1
  <2> HIDE DEF h, n
  <2> QED BY <2>1, <2>2 DEF S
<1>8. CASE k = 1
  <2>1. h[1] = ss[1] /\ Place(ss, k - 1) = 0 /\ o + 0 = o
    <3>1. 1 \in 1 .. Len(ss) /\ k - 1 = 0 /\ o + 0 = o
      BY <1>1, <1>8
    <3>2. Flats(ss)[1] = ss[1]
      BY <3>1, FlatsGrow
    <3> QED BY <3>1, <3>2, PlacesGrow
  <2> QED BY <1>7, <1>8, <2>1
<1>9. CASE k # 1
  <2>1. k \in 2 .. n /\ k - 1 \in 1 .. n /\ k - 1 # 0 /\ k \in 1 .. n
    BY <1>1, <1>9
  <2>2. Place(ss, k - 1) = Len(h[k - 1])
    BY <2>1 DEF Place
  <2> HIDE DEF h, n
  <2>3. Lies(b, o, h[k - 1] \o ss[k]) /\ h[k - 1] \in Seq(Octet) /\ ss[k] \in Seq(Octet)
    BY <1>2, <1>3, <1>7, <2>1
  <2>4. Lies(b, o + Len(h[k - 1]), ss[k])
    BY <2>3, BothLie
  <2> QED BY <2>2, <2>4
<1> QED BY <1>8, <1>9

(* Types of what the messages are made of.                                 *)
LabelChunks(name) ==
  [k \in 1 .. Len(name.labels) |-> <<Len(name.labels[k])>> \o name.labels[k]]

NameEnd(name) == IF name.pointer THEN Response!Pointer ELSE <<0>>

LEMMA NameIs ==
  ASSUME NEW name
  PROVE  Response!NameBytes(name) = Flat(LabelChunks(name)) \o NameEnd(name)
BY FlatIs DEF Response!NameBytes, LabelChunks, NameEnd

LEMMA LabelIs ==
  ASSUME NEW name \in Response!Name, NEW k \in 1 .. Len(name.labels)
  PROVE  /\ name.labels[k] \in Seq(Octet) /\ Len(name.labels[k]) \in 1 .. 63
         /\ LabelChunks(name)[k] \in Seq(Octet)
         /\ Len(LabelChunks(name)[k]) = 1 + Len(name.labels[k])
         /\ LabelChunks(name)[k][1] = Len(name.labels[k])
<1> DEFINE l == name.labels[k]
           z == <<Len(l)>>
<1>1. name.labels \in Seq(Response!Label)
  BY DEF Response!Name
<1>2. l \in Response!Label
  BY <1>1, ElementOfSeq
<1>3. l \in Seq(Octet) /\ Len(l) \in 1 .. 63
  BY <1>2 DEF Response!Label, Response!Byte, Octet
<1>4. LabelChunks(name)[k] = z \o l
  BY DEF LabelChunks
<1>5. z \in Seq(Octet) /\ Len(z) = 1 /\ z[1] = Len(l)
  BY <1>3 DEF Octet
<1> HIDE DEF l, z
<1>6. /\ z \o l \in Seq(Octet) /\ Len(z \o l) = Len(z) + Len(l)
      /\ \A j \in 1 .. Len(z) + Len(l) :
           (z \o l)[j] = IF j <= Len(z) THEN z[j] ELSE l[j - Len(z)]
  BY <1>3, <1>5, ConcatProperties
<1>7. (z \o l)[1] = z[1]
  BY <1>3, <1>5, <1>6
<1> QED BY <1>3, <1>4, <1>5, <1>6, <1>7 DEF l

LEMMA NameType ==
  ASSUME NEW name \in Response!Name
  PROVE  /\ LabelChunks(name) \in Seq(Seq(Octet))
         /\ Len(LabelChunks(name)) = Len(name.labels) /\ Len(name.labels) \in Nat
         /\ NameEnd(name) \in Seq(Octet) /\ Response!NameBytes(name) \in Seq(Octet)
         /\ Len(NameEnd(name)) = IF name.pointer THEN 2 ELSE 1
         /\ NameEnd(name)[1] = IF name.pointer THEN 192 ELSE 0
<1> DEFINE n == Len(name.labels)
<1>1. name.labels \in Seq(Response!Label) /\ n \in Nat
  BY LenProperties DEF Response!Name
<1>2. \A k \in 1 .. n : <<Len(name.labels[k])>> \o name.labels[k] \in Seq(Octet)
  BY LabelIs DEF LabelChunks
<1>3. LabelChunks(name) \in Seq(Seq(Octet)) /\ Len(LabelChunks(name)) = n
  <2>1. LabelChunks(name) = [k \in 1 .. n |-> <<Len(name.labels[k])>> \o name.labels[k]]
    BY DEF LabelChunks
  <2>2. LabelChunks(name) \in Seq(Seq(Octet))
    <3> HIDE DEF n
    <3> QED BY <1>1, <1>2, <2>1, IsASeq
  <2>3. DOMAIN LabelChunks(name) = 1 .. n
    BY <2>1
  <2>4. Len(LabelChunks(name)) \in Nat /\ DOMAIN LabelChunks(name) = 1 .. Len(LabelChunks(name))
    BY <2>2, LenProperties
  <2> QED BY <1>1, <2>2, <2>3, <2>4
<1>4. /\ NameEnd(name) \in Seq(Octet)
      /\ Len(NameEnd(name)) = IF name.pointer THEN 2 ELSE 1
      /\ NameEnd(name)[1] = IF name.pointer THEN 192 ELSE 0
  <2>1. /\ <<192, 12>> \in Seq(Octet) /\ Len(<<192, 12>>) = 2 /\ <<192, 12>>[1] = 192
        /\ <<0>> \in Seq(Octet) /\ Len(<<0>>) = 1 /\ <<0>>[1] = 0
    BY DEF Octet
  <2>2. CASE name.pointer
    <3>1. NameEnd(name) = <<192, 12>>
      BY <2>2 DEF NameEnd, Response!Pointer
    <3> QED BY <2>1, <2>2, <3>1
  <2>3. CASE ~name.pointer
    <3>1. NameEnd(name) = <<0>>
      BY <2>3 DEF NameEnd
    <3> QED BY <2>1, <2>3, <3>1
  <2> QED BY <2>2, <2>3
<1>5. Response!NameBytes(name) \in Seq(Octet)
  <2>1. Flat(LabelChunks(name)) \in Seq(Octet)
    BY <1>3, PlacesGrow
  <2> QED BY <1>4, <2>1, NameIs, ConcatProperties
<1> QED BY <1>1, <1>3, <1>4, <1>5

(* A name read at o: its labels, each behind its length, then its end.     *)
LabelAt(name, k) == Place(LabelChunks(name), k)

LEMMA NameLies ==
  ASSUME NEW b \in Seq(Octet), NEW o, NEW name \in Response!Name,
         Lies(b, o, Response!NameBytes(name)), NEW k \in 0 .. Len(name.labels)
  PROVE  /\ LabelAt(name, 0) = 0 /\ LabelAt(name, k) \in Nat
         /\ o + LabelAt(name, k) < Len(b)
         /\ k < Len(name.labels) =>
              /\ b[o + LabelAt(name, k) + 1] \in 1 .. 63
              /\ LabelAt(name, k + 1) = LabelAt(name, k) + 1 + b[o + LabelAt(name, k) + 1]
              /\ o + LabelAt(name, k + 1) < Len(b)
         /\ k = Len(name.labels) =>
              /\ b[o + LabelAt(name, k) + 1] = IF name.pointer THEN 192 ELSE 0
              /\ Len(Response!NameBytes(name))
                   = LabelAt(name, k) + (IF name.pointer THEN 2 ELSE 1)
<1> DEFINE ss == LabelChunks(name)
           n == Len(name.labels)
           f == Flat(ss)
           z == NameEnd(name)
           a == Len(b)
<1>1. /\ ss \in Seq(Seq(Octet)) /\ Len(ss) = n /\ n \in Nat /\ z \in Seq(Octet)
      /\ Response!NameBytes(name) = f \o z
      /\ Len(z) = (IF name.pointer THEN 2 ELSE 1)
      /\ z[1] = IF name.pointer THEN 192 ELSE 0
  BY NameType, NameIs
<1>2. f \in Seq(Octet) /\ Len(f) = LabelAt(name, n) /\ Place(ss, 0) = 0
      /\ \A j \in 0 .. n : Place(ss, j) \in Nat
  BY <1>1, PlacesGrow DEF LabelAt
<1>3. Lies(b, o, f) /\ Lies(b, o + Len(f), z)
  BY <1>1, <1>2, BothLie
<1>4. /\ Len(Response!NameBytes(name)) = LabelAt(name, n) + Len(z)
      /\ o \in Nat /\ a \in Nat
  <2>1. f \in Seq(Octet) /\ z \in Seq(Octet)
    BY <1>1, <1>2
  <2> HIDE DEF f, z
  <2>2. Len(f \o z) = Len(f) + Len(z)
    BY <2>1, ConcatProperties
  <2> QED BY <1>1, <1>2, <1>3, <2>2, LenProperties DEF Lies
<1>5. LabelAt(name, 0) = 0 /\ \A j \in 0 .. n : LabelAt(name, j) \in Nat
  BY <1>2 DEF LabelAt
<1>6. o + LabelAt(name, n) < a /\ b[o + LabelAt(name, n) + 1] = z[1]
  <2> DEFINE x == LabelAt(name, n)
             y == Len(z)
  <2>1. y \in 1 .. 2 /\ x \in Nat /\ o + x + y <= a
        /\ \A j \in 1 .. y : b[o + x + j] = z[j]
    BY <1>1, <1>2, <1>3, <1>5 DEF Lies
  <2> HIDE DEF x, y, a, z
  <2>2. o + x < a /\ 1 \in 1 .. y
    BY <1>4, <2>1
  <2> QED BY <2>1, <2>2 DEF x
<1>7. ASSUME NEW j \in 1 .. n
      PROVE  /\ b[o + LabelAt(name, j - 1) + 1] \in 1 .. 63
             /\ LabelAt(name, j) = LabelAt(name, j - 1) + 1 + b[o + LabelAt(name, j - 1) + 1]
             /\ o + LabelAt(name, j) <= a
             /\ LabelAt(name, j - 1) \in Nat /\ LabelAt(name, j) \in Nat
  <2> DEFINE x == LabelAt(name, j - 1)
             y == Len(ss[j])
             m == Len(name.labels[j])
  <2>1. /\ m \in 1 .. 63 /\ ss[j] \in Seq(Octet) /\ y = 1 + m /\ ss[j][1] = m
    BY LabelIs
  <2>2. LabelAt(name, j) = x + y /\ x \in Nat
    BY <1>1, NextPlace DEF LabelAt
  <2>3. Lies(b, o + x, ss[j])
    BY <1>1, <1>3, ChunkLies DEF LabelAt
  <2>4. o + x + y <= a /\ b[o + x + 1] = m
    <3>1. o + x + y <= a /\ \A k1 \in 1 .. y : b[o + x + k1] = ss[j][k1]
      BY <2>3 DEF Lies
    <3>2. 1 \in 1 .. y
      <4> HIDE DEF y, m
      <4> QED BY <2>1
    <3> QED BY <2>1, <3>1, <3>2
  <2> HIDE DEF x, y, m, a, ss
  <2>5. o + (x + y) <= a /\ x + y = x + 1 + m /\ x + y \in Nat
    BY <1>4, <2>1, <2>2, <2>4
  <2> QED BY <2>1, <2>2, <2>4, <2>5 DEF x
<1>8. ASSUME k < n
      PROVE  /\ b[o + LabelAt(name, k) + 1] \in 1 .. 63
             /\ LabelAt(name, k + 1) = LabelAt(name, k) + 1 + b[o + LabelAt(name, k) + 1]
             /\ o + LabelAt(name, k) < a
  <2>1. k + 1 \in 1 .. n /\ k + 1 - 1 = k
    BY <1>1, <1>8
  <2> DEFINE x == LabelAt(name, k)
             y == LabelAt(name, k + 1)
             m == b[o + x + 1]
  <2>2. /\ m \in 1 .. 63 /\ y = x + 1 + m /\ o + y <= a /\ x \in Nat /\ y \in Nat
    BY <1>7, <2>1
  <2> HIDE DEF x, y, m, a
  <2>3. o + x < a
    BY <1>4, <2>2
  <2> QED BY <2>2, <2>3 DEF x, y, m
<1>9. ASSUME k < n PROVE o + LabelAt(name, k + 1) < a
  <2>1. CASE k + 1 = n
    BY <1>6, <2>1
  <2>2. CASE k + 1 # n
    <3>1. k + 1 < n /\ k + 1 + 1 \in 1 .. n /\ k + 1 + 1 - 1 = k + 1
      BY <1>1, <1>9, <2>2
    <3> DEFINE x == LabelAt(name, k + 1)
               y == LabelAt(name, k + 1 + 1)
               m == b[o + x + 1]
    <3>2. m \in 1 .. 63 /\ y = x + 1 + m /\ o + y <= a /\ x \in Nat /\ y \in Nat
      BY <1>7, <3>1
    <3> HIDE DEF x, y, m, a
    <3>3. o + x < a
      BY <1>4, <3>2
    <3> QED BY <3>3 DEF x
  <2> QED BY <2>1, <2>2
<1>10. CASE k < n
  BY <1>5, <1>8, <1>9, <1>10
<1>11. CASE k = n
  BY <1>1, <1>4, <1>5, <1>6, <1>11
<1> QED BY <1>1, <1>10, <1>11

LEMMA TwoBytesAre ==
  ASSUME NEW n \in Response!Word16
  PROVE  /\ Response!TwoBytes(n) \in Seq(Octet) /\ Len(Response!TwoBytes(n)) = 2
         /\ Response!TwoBytes(n)[1] \in Octet /\ Response!TwoBytes(n)[2] \in Octet
         /\ 256 * Response!TwoBytes(n)[1] + Response!TwoBytes(n)[2] = n
<1> DEFINE x == n \div 256
           y == n % 256
<1>1. n \in Int /\ 0 <= n /\ n <= 65535
  <2> HIDE DEF x, y
  <2> QED BY DEF Response!Word16
<1>2. x \in 0 .. 255 /\ y \in 0 .. 255 /\ 256 * x + y = n
  <2>1. y \in 0 .. 255
    BY <1>1, Z3
  <2>2. x \in Int /\ 256 * x + y = n
    BY <1>1, Z3
  <2> HIDE DEF x, y
  <2> QED BY <1>1, <2>1, <2>2
<1>3. Response!TwoBytes(n) = <<x, y>>
  BY DEF Response!TwoBytes
<1> HIDE DEF x, y
<1> QED BY <1>2, <1>3 DEF Octet

LEMMA WordLies ==
  ASSUME NEW b \in Seq(Octet), NEW o, NEW n \in Response!Word16,
         Lies(b, o, Response!TwoBytes(n))
  PROVE  b[o + 1] \in Octet /\ b[o + 2] \in Octet /\ 256 * b[o + 1] + b[o + 2] = n
<1> DEFINE t == Response!TwoBytes(n)
<1>1. /\ Len(t) = 2 /\ t[1] \in Octet /\ t[2] \in Octet /\ 256 * t[1] + t[2] = n
  BY TwoBytesAre
<1>2. \A j \in 1 .. Len(t) : b[o + j] = t[j]
  BY DEF Lies
<1> HIDE DEF t
<1>3. b[o + 1] = t[1] /\ b[o + 2] = t[2]
  <2>1. 1 \in 1 .. Len(t) /\ 2 \in 1 .. Len(t)
    BY <1>1
  <2> QED BY <1>2, <2>1
<1> QED BY <1>1, <1>3

(* A question: its name and four bytes.                                    *)
LEMMA QuestionIs ==
  ASSUME NEW q \in Response!Name
  PROVE  /\ Response!QuestionBytes(q) \in Seq(Octet)
         /\ Len(Response!QuestionBytes(q)) = Len(Response!NameBytes(q)) + 4
         /\ Len(Response!NameBytes(q)) \in Nat
         /\ \A b \in Seq(Octet) : \A o : Lies(b, o, Response!QuestionBytes(q))
               => Lies(b, o, Response!NameBytes(q))
<1> DEFINE x == Response!NameBytes(q)
           t == Response!TwoBytes(Response!TypeA)
           c == Response!TwoBytes(Response!ClassIn)
<1>1. Response!TypeA \in Response!Word16 /\ Response!ClassIn \in Response!Word16
  BY DEF Response!TypeA, Response!ClassIn, Response!Word16
<1>2. /\ x \in Seq(Octet) /\ t \in Seq(Octet) /\ c \in Seq(Octet)
      /\ Len(t) = 2 /\ Len(c) = 2
  BY <1>1, NameType, TwoBytesAre
<1>3. Response!QuestionBytes(q) = (x \o t) \o c
  BY DEF Response!QuestionBytes
<1> HIDE DEF x, t, c
<1>4. x \o t \in Seq(Octet) /\ Len(x \o t) = Len(x) + 2 /\ Len(x) \in Nat
  <2>1. x \o t \in Seq(Octet) /\ Len(x \o t) = Len(x) + Len(t)
    BY <1>2, ConcatProperties
  <2>2. Len(x) \in Nat
    BY <1>2, LenProperties
  <2> QED BY <1>2, <2>1, <2>2
<1>5. (x \o t) \o c \in Seq(Octet) /\ Len((x \o t) \o c) = Len(x \o t) + 2
  BY <1>2, <1>4, ConcatProperties
<1>6. ASSUME NEW b \in Seq(Octet), NEW o, Lies(b, o, (x \o t) \o c)
      PROVE  Lies(b, o, x)
  <2>1. Lies(b, o, x \o t)
    BY <1>2, <1>4, <1>6, BothLie
  <2> QED BY <1>2, <2>1, BothLie
<1> QED BY <1>3, <1>4, <1>5, <1>6 DEF x

(* An answer: its name, its type, its class, four bytes, and its data      *)
(* behind their length.                                                    *)
LEMMA Joined ==
  ASSUME NEW x \in Seq(Octet), NEW y \in Seq(Octet)
  PROVE  /\ x \o y \in Seq(Octet) /\ Len(x \o y) = Len(x) + Len(y)
         /\ Len(x) \in Nat /\ Len(y) \in Nat
BY ConcatProperties, LenProperties

IsRecord(v, x, t, c, u, l, d) ==
  /\ x \in Seq(Octet) /\ t \in Seq(Octet) /\ c \in Seq(Octet)
  /\ u \in Seq(Octet) /\ l \in Seq(Octet) /\ d \in Seq(Octet)
  /\ Len(t) = 2 /\ Len(c) = 2 /\ Len(u) = 4 /\ Len(l) = 2
  /\ v = ((((x \o t) \o c) \o u) \o l) \o d

LEMMA RecordLies ==
  ASSUME NEW v, NEW x, NEW t, NEW c, NEW u, NEW l, NEW d,
         IsRecord(v, x, t, c, u, l, d)
  PROVE  /\ v \in Seq(Octet) /\ Len(v) = Len(x) + 10 + Len(d)
         /\ Len(x) \in Nat /\ Len(d) \in Nat
         /\ \A b \in Seq(Octet) : \A o : Lies(b, o, v) =>
              /\ o \in Nat /\ Lies(b, o, x) /\ Lies(b, o + Len(x), t)
              /\ Lies(b, o + Len(x) + 2, c) /\ Lies(b, o + Len(x) + 8, l)
              /\ Lies(b, o + Len(x) + 10, d)
<1> USE DEF IsRecord
<1> DEFINE x1 == x \o t
           x2 == x1 \o c
           x3 == x2 \o u
           x4 == x3 \o l
           n == Len(x)
           m == Len(d)
<1>1. x1 \in Seq(Octet) /\ Len(x1) = n + 2 /\ n \in Nat /\ m \in Nat
  <2>1. Len(x1) = n + Len(t) /\ x1 \in Seq(Octet) /\ n \in Nat /\ m \in Nat
    BY Joined
  <2> QED BY <2>1
<1> HIDE DEF n, m, x1
<1>2. x2 \in Seq(Octet) /\ Len(x2) = n + 4
  <2>1. Len(x2) = Len(x1) + Len(c) /\ x2 \in Seq(Octet)
    BY <1>1, Joined
  <2> QED BY <1>1, <2>1
<1> HIDE DEF x2
<1>3. x3 \in Seq(Octet) /\ Len(x3) = n + 8
  <2>1. Len(x3) = Len(x2) + Len(u) /\ x3 \in Seq(Octet)
    BY <1>2, Joined
  <2> QED BY <1>1, <1>2, <2>1
<1> HIDE DEF x3
<1>4. x4 \in Seq(Octet) /\ Len(x4) = n + 10
  <2>1. Len(x4) = Len(x3) + Len(l) /\ x4 \in Seq(Octet)
    BY <1>3, Joined
  <2> QED BY <1>1, <1>3, <2>1
<1> HIDE DEF x4
<1>5. v \in Seq(Octet) /\ Len(v) = n + 10 + m /\ v = x4 \o d
  <2>1. v = x4 \o d
    BY DEF x4, x3, x2, x1
  <2>2. Len(x4 \o d) = Len(x4) + Len(d) /\ x4 \o d \in Seq(Octet)
    BY <1>4, Joined
  <2> QED BY <1>4, <2>1, <2>2 DEF m
<1>6. ASSUME NEW b \in Seq(Octet), NEW o, Lies(b, o, v)
      PROVE  /\ o \in Nat /\ Lies(b, o, x) /\ Lies(b, o + n, t)
             /\ Lies(b, o + n + 2, c) /\ Lies(b, o + n + 8, l)
             /\ Lies(b, o + n + 10, d)
  <2>1. o \in Nat
    BY <1>6 DEF Lies
  <2>2. Lies(b, o, x4) /\ Lies(b, o + (n + 10), d)
    <3>1. Lies(b, o, x4 \o d)
      BY <1>5, <1>6
    <3>2. Lies(b, o, x4) /\ Lies(b, o + Len(x4), d)
      BY <1>4, <3>1, BothLie
    <3> QED BY <1>4, <3>2
  <2>3. Lies(b, o, x3) /\ Lies(b, o + (n + 8), l)
    <3>1. Lies(b, o, x3 \o l)
      BY <2>2 DEF x4
    <3>2. Lies(b, o, x3) /\ Lies(b, o + Len(x3), l)
      BY <1>3, <3>1, BothLie
    <3> QED BY <1>3, <3>2
  <2>4. Lies(b, o, x2)
    <3>1. Lies(b, o, x2 \o u)
      BY <2>3 DEF x3
    <3> QED BY <1>2, <3>1, BothLie
  <2>5. Lies(b, o, x1) /\ Lies(b, o + (n + 2), c)
    <3>1. Lies(b, o, x1 \o c)
      BY <2>4 DEF x2
    <3>2. Lies(b, o, x1) /\ Lies(b, o + Len(x1), c)
      BY <1>1, <3>1, BothLie
    <3> QED BY <1>1, <3>2
  <2>6. Lies(b, o, x) /\ Lies(b, o + n, t)
    <3>1. Lies(b, o, x \o t)
      BY <2>5 DEF x1
    <3> QED BY <3>1, BothLie DEF n
  <2>7. o + (n + 10) = o + n + 10 /\ o + (n + 8) = o + n + 8 /\ o + (n + 2) = o + n + 2
    BY <1>1, <2>1
  <2> QED BY <2>1, <2>2, <2>3, <2>5, <2>6, <2>7
<1> QED BY <1>1, <1>5, <1>6 DEF n, m

LEMMA AnswerType ==
  ASSUME NEW a \in Response!Answer
  PROVE  /\ a.name \in Response!Name /\ a.type \in Response!Word16
         /\ a.class \in Response!Word16
         /\ a.data \in Seq(Octet) /\ Len(a.data) \in Response!Word16
BY DEF Response!Answer, Response!Byte, Octet

LEMMA AnswerIs ==
  ASSUME NEW a \in Response!Answer
  PROVE  /\ Response!AnswerBytes(a) \in Seq(Octet)
         /\ Len(Response!AnswerBytes(a))
              = Len(Response!NameBytes(a.name)) + 10 + Len(a.data)
         /\ Len(Response!NameBytes(a.name)) \in Nat /\ Len(a.data) \in Nat
         /\ \A b \in Seq(Octet) : \A o : Lies(b, o, Response!AnswerBytes(a)) =>
              LET n == Len(Response!NameBytes(a.name))
              IN /\ o \in Nat /\ Lies(b, o, Response!NameBytes(a.name))
                 /\ Lies(b, o + n, Response!TwoBytes(a.type))
                 /\ Lies(b, o + n + 2, Response!TwoBytes(a.class))
                 /\ Lies(b, o + n + 8, Response!TwoBytes(Len(a.data)))
                 /\ Lies(b, o + n + 10, a.data)
<1> DEFINE x == Response!NameBytes(a.name)
           t == Response!TwoBytes(a.type)
           c == Response!TwoBytes(a.class)
           u == <<0, 0, 1, 44>>
           l == Response!TwoBytes(Len(a.data))
           d == a.data
           v == Response!AnswerBytes(a)
<1>1. /\ x \in Seq(Octet) /\ t \in Seq(Octet) /\ c \in Seq(Octet) /\ l \in Seq(Octet)
      /\ Len(t) = 2 /\ Len(c) = 2 /\ Len(l) = 2 /\ d \in Seq(Octet)
  BY AnswerType, NameType, TwoBytesAre
<1>2. u \in Seq(Octet) /\ Len(u) = 4
  BY DEF Octet
<1>3. v = ((((x \o t) \o c) \o u) \o l) \o d
  BY DEF Response!AnswerBytes
<1> HIDE DEF x, t, c, l, d, u, v
<1>4. /\ v \in Seq(Octet) /\ Len(v) = Len(x) + 10 + Len(d)
      /\ Len(x) \in Nat /\ Len(d) \in Nat
      /\ \A b \in Seq(Octet) : \A o : Lies(b, o, v) =>
           /\ o \in Nat /\ Lies(b, o, x) /\ Lies(b, o + Len(x), t)
           /\ Lies(b, o + Len(x) + 2, c) /\ Lies(b, o + Len(x) + 8, l)
           /\ Lies(b, o + Len(x) + 10, d)
  <2>1. IsRecord(v, x, t, c, u, l, d)
    BY <1>1, <1>2, <1>3 DEF IsRecord
  <2> QED BY <2>1, RecordLies
<1> QED BY <1>4 DEF x, t, c, l, d, v

LEMMA AnswerLies ==
  ASSUME NEW b \in Seq(Octet), NEW o, NEW a \in Response!Answer,
         Lies(b, o, Response!AnswerBytes(a))
  PROVE  LET r == o + Len(Response!NameBytes(a.name))
         IN /\ Lies(b, o, Response!NameBytes(a.name)) /\ r \in Nat
            /\ 256 * b[r + 1] + b[r + 2] = a.type
            /\ 256 * b[r + 3] + b[r + 4] = a.class
            /\ 256 * b[r + 9] + b[r + 10] = Len(a.data)
            /\ Lies(b, r + 10, a.data)
<1> DEFINE r == o + Len(Response!NameBytes(a.name))
<1>1. /\ o \in Nat /\ Lies(b, o, Response!NameBytes(a.name))
      /\ Lies(b, r, Response!TwoBytes(a.type))
      /\ Lies(b, r + 2, Response!TwoBytes(a.class))
      /\ Lies(b, r + 8, Response!TwoBytes(Len(a.data)))
      /\ Lies(b, r + 10, a.data)
  BY AnswerIs
<1> HIDE DEF r
<1>2. r \in Nat
  BY <1>1 DEF Lies
<1>3. 256 * b[r + 1] + b[r + 2] = a.type
  BY <1>1, AnswerType, WordLies
<1>4. 256 * b[r + 2 + 1] + b[r + 2 + 2] = a.class
  BY <1>1, AnswerType, WordLies
<1>5. 256 * b[r + 8 + 1] + b[r + 8 + 2] = Len(a.data)
  BY <1>1, AnswerType, WordLies
<1>6. r + 2 + 1 = r + 3 /\ r + 2 + 2 = r + 4 /\ r + 8 + 1 = r + 9 /\ r + 8 + 2 = r + 10
  BY <1>2
<1> QED BY <1>1, <1>2, <1>3, <1>4, <1>5, <1>6 DEF r

(* Where the k-th question ends, and the k-th answer.                      *)
QuestionChunks(m) ==
  [k \in 1 .. Len(m.questions) |-> Response!QuestionBytes(m.questions[k])]

AnswerChunks(m) ==
  [k \in 1 .. Len(m.answers) |-> Response!AnswerBytes(m.answers[k])]

QuestionAt(m, k) == Place(QuestionChunks(m), k)

AnswerAt(m, k) == Len(Flat(QuestionChunks(m))) + Place(AnswerChunks(m), k)

IsMessage(m) ==
  /\ m.questions \in Seq(Response!Name) /\ m.answers \in Seq(Response!Answer)
  /\ \A k \in 1 .. Len(m.questions) : ~m.questions[k].pointer

LEMMA DomainIsLength ==
  ASSUME NEW n \in Nat, NEW c \in Seq(Seq(Octet)), DOMAIN c = 1 .. n
  PROVE  Len(c) = n
<1>1. Len(c) \in Nat /\ DOMAIN c = 1 .. Len(c)
  BY LenProperties
<1> QED BY <1>1

LEMMA MessageIs ==
  ASSUME NEW m, IsMessage(m)
  PROVE  /\ Response!Encoded(m) = Flat(QuestionChunks(m)) \o Flat(AnswerChunks(m))
         /\ Response!Encoded(m) \in Seq(Octet) /\ Len(Response!Encoded(m)) \in Nat
         /\ QuestionChunks(m) \in Seq(Seq(Octet)) /\ AnswerChunks(m) \in Seq(Seq(Octet))
         /\ Len(QuestionChunks(m)) = Len(m.questions) /\ Len(m.questions) \in Nat
         /\ Len(AnswerChunks(m)) = Len(m.answers) /\ Len(m.answers) \in Nat
         /\ Lies(Response!Encoded(m), 0, Flat(QuestionChunks(m)))
         /\ Lies(Response!Encoded(m), Len(Flat(QuestionChunks(m))), Flat(AnswerChunks(m)))
<1> DEFINE b == Response!Encoded(m)
           qs == QuestionChunks(m)
           as == AnswerChunks(m)
<1>1. b = Flat(qs) \o Flat(as)
  BY FlatIs DEF Response!Encoded, QuestionChunks, AnswerChunks
<1>2. m.questions \in Seq(Response!Name) /\ m.answers \in Seq(Response!Answer)
      /\ Len(m.questions) \in Nat /\ Len(m.answers) \in Nat
  BY LenProperties DEF IsMessage
<1>3. qs \in Seq(Seq(Octet)) /\ Len(qs) = Len(m.questions)
  <2> DEFINE n == Len(m.questions)
  <2>1. qs = [k \in 1 .. n |-> Response!QuestionBytes(m.questions[k])]
    BY DEF QuestionChunks
  <2>2. \A k \in 1 .. n : Response!QuestionBytes(m.questions[k]) \in Seq(Octet)
    BY <1>2, ElementOfSeq, QuestionIs
  <2> HIDE DEF qs, n
  <2>3. n \in Nat
    BY <1>2 DEF n
  <2>4. qs \in Seq(Seq(Octet))
    BY <2>1, <2>2, <2>3, IsASeq
  <2>5. DOMAIN qs = 1 .. n
    BY <2>1
  <2>6. Len(qs) = n
    BY <2>3, <2>4, <2>5, DomainIsLength
  <2> QED BY <2>4, <2>6 DEF n
<1>4. as \in Seq(Seq(Octet)) /\ Len(as) = Len(m.answers)
  <2> DEFINE n == Len(m.answers)
  <2>1. as = [k \in 1 .. n |-> Response!AnswerBytes(m.answers[k])]
    BY DEF AnswerChunks
  <2>2. \A k \in 1 .. n : Response!AnswerBytes(m.answers[k]) \in Seq(Octet)
    BY <1>2, ElementOfSeq, AnswerIs
  <2> HIDE DEF as, n
  <2>3. n \in Nat
    BY <1>2 DEF n
  <2>4. as \in Seq(Seq(Octet))
    BY <2>1, <2>2, <2>3, IsASeq
  <2>5. DOMAIN as = 1 .. n
    BY <2>1
  <2>6. Len(as) = n
    BY <2>3, <2>4, <2>5, DomainIsLength
  <2> QED BY <2>4, <2>6 DEF n
<1> DEFINE f == Flat(qs)
           g == Flat(as)
<1>5. f \in Seq(Octet) /\ g \in Seq(Octet)
  BY <1>3, <1>4, PlacesGrow
<1> HIDE DEF b, qs, as, f, g
<1>6. b \in Seq(Octet) /\ Len(b) \in Nat
  <2>1. b \in Seq(Octet)
    BY <1>1, <1>5, Joined DEF f, g
  <2> QED BY <2>1, LenProperties
<1>7. Lies(b, 0, f) /\ Lies(b, Len(f), g)
  <2>1. Lies(b, 0, f \o g)
    BY <1>1, <1>6, WholeLies DEF f, g
  <2>2. Lies(b, 0, f) /\ Lies(b, 0 + Len(f), g)
    BY <1>5, <1>6, <2>1, BothLie
  <2>3. 0 + Len(f) = Len(f)
    BY <1>5, LenProperties
  <2> QED BY <2>2, <2>3
<1> QED BY <1>1, <1>2, <1>3, <1>4, <1>6, <1>7 DEF b, qs, as, f, g

LEMMA QuestionPlaces ==
  ASSUME NEW m, IsMessage(m)
  PROVE  /\ QuestionAt(m, 0) = 0 /\ AnswerAt(m, 0) = QuestionAt(m, Len(m.questions))
         /\ \A k \in 0 .. Len(m.questions) : QuestionAt(m, k) \in Nat
         /\ \A k \in 0 .. Len(m.answers) : AnswerAt(m, k) \in Nat
<1> DEFINE qs == QuestionChunks(m)
           as == AnswerChunks(m)
           f == Len(Flat(qs))
<1>1. /\ qs \in Seq(Seq(Octet)) /\ as \in Seq(Seq(Octet))
      /\ Len(qs) = Len(m.questions) /\ Len(as) = Len(m.answers)
  BY MessageIs
<1> HIDE DEF qs, as
<1>2. /\ Place(qs, 0) = 0 /\ Place(as, 0) = 0 /\ f = Place(qs, Len(qs)) /\ f \in Nat
  <2>1. Flat(qs) \in Seq(Octet)
    BY <1>1, PlacesGrow
  <2> QED BY <1>1, <2>1, PlacesGrow, LenProperties
<1>3. \A k \in 0 .. Len(qs) : Place(qs, k) \in Nat
  BY <1>1, PlacesGrow
<1>4. \A k \in 0 .. Len(as) : Place(as, k) \in Nat
  BY <1>1, PlacesGrow
<1> HIDE DEF f
<1>5. ASSUME NEW k \in 0 .. Len(as) PROVE f + Place(as, k) \in Nat
  <2> DEFINE x == Place(as, k)
  <2>1. x \in Nat
    BY <1>4
  <2> HIDE DEF x
  <2>2. f + x \in Nat
    BY <1>2, <2>1
  <2> QED BY <2>2 DEF x
<1>6. f + 0 = f
  BY <1>2
<1> QED BY <1>1, <1>2, <1>3, <1>5, <1>6 DEF QuestionAt, AnswerAt, qs, as, f

LEMMA NextQuestionPlace ==
  ASSUME NEW m, IsMessage(m), NEW k \in 1 .. Len(m.questions)
  PROVE  /\ Lies(Response!Encoded(m), QuestionAt(m, k - 1),
                 Response!NameBytes(m.questions[k]))
         /\ QuestionAt(m, k)
              = QuestionAt(m, k - 1) + Len(Response!NameBytes(m.questions[k])) + 4
         /\ QuestionAt(m, k) <= Len(Response!Encoded(m))
         /\ m.questions[k] \in Response!Name /\ ~m.questions[k].pointer
<1> DEFINE b == Response!Encoded(m)
           qs == QuestionChunks(m)
           q == m.questions[k]
           o == Place(qs, k - 1)
           n == Len(Response!NameBytes(q))
<1>1. /\ b \in Seq(Octet) /\ qs \in Seq(Seq(Octet)) /\ k \in 1 .. Len(qs)
      /\ Lies(b, 0, Flat(qs)) /\ Len(b) \in Nat
  BY MessageIs
<1>2. q \in Response!Name /\ ~q.pointer
  BY ElementOfSeq DEF IsMessage
<1>3. qs[k] = Response!QuestionBytes(q)
  BY DEF QuestionChunks
<1> HIDE DEF b, qs, q
<1>4. Lies(b, 0 + o, qs[k])
  BY <1>1, ChunkLies
<1>5. Place(qs, k) = o + Len(qs[k]) /\ o \in Nat /\ Len(qs[k]) \in Nat
  BY <1>1, NextPlace
<1>6. 0 + o = o
  BY <1>5
<1>7. Lies(b, o, Response!QuestionBytes(q))
  BY <1>3, <1>4, <1>6
<1>8. Lies(b, o, Response!NameBytes(q))
  BY <1>1, <1>2, <1>7, QuestionIs
<1>9. Len(qs[k]) = n + 4 /\ n \in Nat
  BY <1>2, <1>3, QuestionIs
<1>10. o + Len(qs[k]) <= Len(b)
  BY <1>3, <1>7 DEF Lies
<1> HIDE DEF o, n
<1>11. Place(qs, k) = o + n + 4
  BY <1>5, <1>9
<1> QED BY <1>2, <1>5, <1>8, <1>10, <1>11 DEF QuestionAt, b, qs, q, o, n

LEMMA NextAnswerPlace ==
  ASSUME NEW m, IsMessage(m), NEW k \in 1 .. Len(m.answers)
  PROVE  /\ Lies(Response!Encoded(m), AnswerAt(m, k - 1),
                 Response!AnswerBytes(m.answers[k]))
         /\ AnswerAt(m, k)
              = AnswerAt(m, k - 1) + Len(Response!AnswerBytes(m.answers[k]))
         /\ AnswerAt(m, k) <= Len(Response!Encoded(m))
         /\ m.answers[k] \in Response!Answer
<1> DEFINE b == Response!Encoded(m)
           as == AnswerChunks(m)
           a == m.answers[k]
           f == Len(Flat(QuestionChunks(m)))
           o == Place(as, k - 1)
<1>1. /\ b \in Seq(Octet) /\ as \in Seq(Seq(Octet)) /\ k \in 1 .. Len(as)
      /\ Lies(b, f, Flat(as)) /\ Len(b) \in Nat
  BY MessageIs
<1>2. a \in Response!Answer
  BY ElementOfSeq DEF IsMessage
<1>3. as[k] = Response!AnswerBytes(a)
  BY DEF AnswerChunks
<1> HIDE DEF b, as, a, f
<1>4. Lies(b, f + o, as[k])
  BY <1>1, ChunkLies
<1>5. Place(as, k) = o + Len(as[k]) /\ o \in Nat /\ Len(as[k]) \in Nat /\ f \in Nat
  BY <1>1, NextPlace DEF Lies
<1>6. f + o + Len(as[k]) <= Len(b)
  BY <1>4 DEF Lies
<1> HIDE DEF o
<1>7. f + Place(as, k) = f + o + Len(as[k])
  <2> DEFINE n == Len(as[k])
  <2>1. Place(as, k) = o + n /\ o \in Nat /\ n \in Nat /\ f \in Nat
    BY <1>5
  <2> HIDE DEF n
  <2>2. f + Place(as, k) = f + o + n
    BY <2>1
  <2> QED BY <2>2 DEF n
<1> QED BY <1>2, <1>3, <1>4, <1>6, <1>7 DEF AnswerAt, b, as, a, o, f

(* What is at x, the next byte that is read: k questions or answers were   *)
(* passed, or the k-th is being read.                                      *)
BeforeQuestion(m, k, x) == k \in 0 .. Len(m.questions) /\ x = QuestionAt(m, k) + 1

InQuestion(m, k, x) ==
  /\ k \in 1 .. Len(m.questions)
  /\ \E j \in 0 .. Len(m.questions[k].labels) :
       x = QuestionAt(m, k - 1) + LabelAt(m.questions[k], j) + 1

NoneBefore(m, k) == \A j \in 1 .. k - 1 : ~Response!CarriesAddress(m.answers[j])

BeforeAnswer(m, k, x) ==
  k \in 0 .. Len(m.answers) /\ x = AnswerAt(m, k) + 1 /\ NoneBefore(m, k + 1)

InAnswer(m, k, x) ==
  /\ k \in 1 .. Len(m.answers) /\ NoneBefore(m, k)
  /\ \E j \in 0 .. Len(m.answers[k].name.labels) :
       x = AnswerAt(m, k - 1) + LabelAt(m.answers[k].name, j) + 1

BeforeRecord(m, k, x) ==
  /\ k \in 1 .. Len(m.answers) /\ NoneBefore(m, k)
  /\ x = AnswerAt(m, k - 1) + Len(Response!NameBytes(m.answers[k].name)) + 1

IsFound(m, r) ==
  \/ /\ \A k \in 1 .. Len(m.answers) : ~Response!CarriesAddress(m.answers[k])
     /\ r = Response!NoAnswer
  \/ \E k \in 1 .. Len(m.answers) :
       /\ Response!CarriesAddress(m.answers[k]) /\ NoneBefore(m, k)
       /\ r = IF Len(m.answers[k].data) = 4 THEN m.answers[k].data
                                            ELSE Response!WeirdSize

(* The steps over a name, at the place x of b.                             *)
LEMMA InNameStep ==
  ASSUME NEW b \in Seq(Octet), NEW o, NEW name \in Response!Name,
         Lies(b, o, Response!NameBytes(name)), NEW j \in 0 .. Len(name.labels),
         NEW x, x = o + LabelAt(name, j) + 1
  PROVE  /\ x \in Nat /\ 1 <= x /\ x <= Len(b) /\ o \in Nat
         /\ j < Len(name.labels) =>
              /\ b[x] \in 1 .. 63 /\ j + 1 \in 0 .. Len(name.labels)
              /\ x + 1 + b[x] = o + LabelAt(name, j + 1) + 1
              /\ x + 1 + b[x] <= Len(b)
         /\ ~(j < Len(name.labels)) /\ name.pointer =>
              b[x] = 192 /\ x + 2 = o + Len(Response!NameBytes(name)) + 1
         /\ ~(j < Len(name.labels)) /\ ~name.pointer =>
              b[x] = 0 /\ x + 1 = o + Len(Response!NameBytes(name)) + 1
<1> DEFINE a == Len(b)
           n == Len(name.labels)
           y == LabelAt(name, j)
           z == LabelAt(name, j + 1)
           l == Len(Response!NameBytes(name))
           e == b[o + y + 1]
           p1 == name.pointer
<1>1. n \in Nat /\ a \in Nat /\ o \in Nat
  BY NameType, LenProperties DEF Lies
<1>2. /\ y \in Nat /\ o + y < a
      /\ j < n => e \in 1 .. 63 /\ z = y + 1 + e /\ o + z < a
      /\ j = n => e = (IF p1 THEN 192 ELSE 0) /\ l = y + (IF p1 THEN 2 ELSE 1)
  BY NameLies
<1>3. x = o + y + 1 /\ e = b[x]
  OBVIOUS
<1> HIDE DEF a, n, y, z, l, e
<1>4. x \in Nat /\ 1 <= x /\ x <= a
  BY <1>1, <1>2, <1>3
<1>5. j \in 0 .. n
  BY DEF n
<1>6. ASSUME j < n
      PROVE  /\ e \in 1 .. 63 /\ j + 1 \in 0 .. n
             /\ x + 1 + e = o + z + 1 /\ x + 1 + e <= a
  <2>1. /\ e \in 1 .. 63 /\ z = y + 1 + e /\ o + z < a
    BY <1>2, <1>6
  <2>2. j + 1 \in 0 .. n
    BY <1>1, <1>5, <1>6
  <2>3. y \in Nat /\ x = o + y + 1
    BY <1>2, <1>3
  <2>4. x + 1 + e = o + z + 1 /\ x + 1 + e <= a
    BY <1>1, <2>1, <2>3
  <2> QED BY <2>1, <2>2, <2>4
<1>7. ASSUME ~(j < n)
      PROVE  /\ p1 => e = 192 /\ x + 2 = o + l + 1
             /\ ~p1 => e = 0 /\ x + 1 = o + l + 1
  <2>1. j = n
    BY <1>1, <1>5, <1>7
  <2>2. e = (IF p1 THEN 192 ELSE 0) /\ l = y + (IF p1 THEN 2 ELSE 1)
    BY <1>2, <2>1
  <2>3. y \in Nat /\ x = o + y + 1
    BY <1>2, <1>3
  <2>4. x + 2 = o + (y + 2) + 1 /\ x + 1 = o + (y + 1) + 1
    BY <1>1, <2>3
  <2> QED BY <2>2, <2>4
<1> QED BY <1>1, <1>3, <1>4, <1>6, <1>7 DEF a, n, z, l

LEMMA QuestionNameStep ==
  ASSUME NEW m, IsMessage(m), NEW k, NEW x, InQuestion(m, k, x)
  PROVE  LET b == Response!Encoded(m)
         IN /\ x \in Nat /\ 1 <= x /\ x <= Len(b) /\ b[x] \in Octet
            /\ b[x] # 0 => InQuestion(m, k, x + 1 + b[x]) /\ x + 1 + b[x] <= Len(b)
            /\ b[x] = 0 => BeforeQuestion(m, k, x + 5) /\ x + 5 <= Len(b) + 1
<1> DEFINE b == Response!Encoded(m)
           name == m.questions[k]
           o == QuestionAt(m, k - 1)
           n == Len(name.labels)
           l == Len(Response!NameBytes(name))
           w == QuestionAt(m, k)
           a == Len(b)
<1>1. PICK j \in 0 .. n : x = o + LabelAt(name, j) + 1
  BY DEF InQuestion
<1>2. k \in 1 .. Len(m.questions) /\ b \in Seq(Octet) /\ a \in Nat
      /\ Len(m.questions) \in Nat
  BY MessageIs DEF InQuestion
<1>3. /\ name \in Response!Name /\ ~name.pointer /\ Lies(b, o, Response!NameBytes(name))
      /\ w = o + l + 4 /\ w <= a
  BY <1>2, NextQuestionPlace
<1>4. l \in Nat
  BY <1>3, NameType, LenProperties
<1> HIDE DEF b, name, o, l, w, n
<1>5. /\ x \in Nat /\ 1 <= x /\ x <= a /\ o \in Nat
      /\ j < n =>
           /\ b[x] \in 1 .. 63 /\ j + 1 \in 0 .. n
           /\ x + 1 + b[x] = o + LabelAt(name, j + 1) + 1
           /\ x + 1 + b[x] <= a
      /\ ~(j < n) => b[x] = 0 /\ x + 1 = o + l + 1
  <2>1. b \in Seq(Octet)
    BY <1>2
  <2>2. name \in Response!Name /\ Lies(b, o, Response!NameBytes(name))
    BY <1>3
  <2>3. j \in 0 .. Len(name.labels) /\ x = o + LabelAt(name, j) + 1
    BY <1>1 DEF n
  <2>4. /\ x \in Nat /\ 1 <= x /\ x <= a /\ o \in Nat
        /\ j < n =>
             /\ b[x] \in 1 .. 63 /\ j + 1 \in 0 .. n
             /\ x + 1 + b[x] = o + LabelAt(name, j + 1) + 1
             /\ x + 1 + b[x] <= a
        /\ ~(j < n) /\ ~name.pointer => b[x] = 0 /\ x + 1 = o + l + 1
    BY <2>1, <2>2, <2>3, InNameStep DEF n, l
  <2> QED BY <1>3, <2>4
<1>6. b[x] \in Octet
  <2>1. x \in 1 .. Len(b)
    BY <1>2, <1>5
  <2> QED BY <1>2, <2>1, ElementOfSeq
<1>7. ASSUME b[x] # 0
      PROVE  InQuestion(m, k, x + 1 + b[x]) /\ x + 1 + b[x] <= a
  <2>1. j < n
    BY <1>5, <1>7
  <2>2. j + 1 \in 0 .. n /\ x + 1 + b[x] = o + LabelAt(name, j + 1) + 1
    BY <1>5, <2>1
  <2>3. InQuestion(m, k, x + 1 + b[x])
    BY <1>2, <2>2 DEF InQuestion, o, name, n
  <2> QED BY <1>5, <2>1, <2>3
<1>8. ASSUME b[x] = 0 PROVE BeforeQuestion(m, k, x + 5) /\ x + 5 <= a + 1
  <2>1. ~(j < n)
    BY <1>5, <1>8
  <2>2. x + 1 = o + l + 1
    BY <1>5, <2>1
  <2> HIDE DEF a
  <2>3. x + 5 = w + 1 /\ x + 5 <= a + 1
    BY <1>2, <1>3, <1>4, <1>5, <2>2
  <2>4. k \in 0 .. Len(m.questions)
    BY <1>2
  <2> QED BY <2>3, <2>4 DEF BeforeQuestion, w
<1> QED BY <1>5, <1>6, <1>7, <1>8 DEF b

LEMMA AnswerNameStep ==
  ASSUME NEW m, IsMessage(m), NEW k, NEW x, InAnswer(m, k, x)
  PROVE  LET b == Response!Encoded(m)
         IN /\ x \in Nat /\ 1 <= x /\ x <= Len(b) /\ b[x] \in Octet
            /\ ~(b[x] >= 64) /\ b[x] # 0 =>
                 InAnswer(m, k, x + 1 + b[x]) /\ x + 1 + b[x] <= Len(b)
            /\ b[x] >= 64 => BeforeRecord(m, k, x + 2) /\ x + 2 <= Len(b) + 1
            /\ b[x] = 0 => BeforeRecord(m, k, x + 1) /\ x + 1 <= Len(b) + 1
<1> DEFINE b == Response!Encoded(m)
           name == m.answers[k].name
           o == AnswerAt(m, k - 1)
           n == Len(name.labels)
           l == Len(Response!NameBytes(name))
           a == Len(b)
<1>1. PICK j \in 0 .. n : x = o + LabelAt(name, j) + 1
  BY DEF InAnswer
<1>2. k \in 1 .. Len(m.answers) /\ b \in Seq(Octet) /\ a \in Nat /\ NoneBefore(m, k)
  BY MessageIs DEF InAnswer
<1>3. m.answers[k] \in Response!Answer /\ Lies(b, o, Response!AnswerBytes(m.answers[k]))
  BY <1>2, NextAnswerPlace
<1>4. name \in Response!Name /\ Lies(b, o, Response!NameBytes(name)) /\ l \in Nat
      /\ o + l <= a
  <2>1. Lies(b, o, Response!NameBytes(name)) /\ l \in Nat
    BY <1>2, <1>3, AnswerIs
  <2>2. o + l <= a
    BY <2>1 DEF Lies
  <2> QED BY <1>3, <2>1, <2>2, AnswerType
<1> HIDE DEF b, name, o, l, n
<1>5. /\ x \in Nat /\ 1 <= x /\ x <= a /\ o \in Nat
      /\ j < n =>
           /\ b[x] \in 1 .. 63 /\ j + 1 \in 0 .. n
           /\ x + 1 + b[x] = o + LabelAt(name, j + 1) + 1
           /\ x + 1 + b[x] <= a
      /\ ~(j < n) /\ name.pointer => b[x] = 192 /\ x + 2 = o + l + 1
      /\ ~(j < n) /\ ~name.pointer => b[x] = 0 /\ x + 1 = o + l + 1
  <2>1. b \in Seq(Octet)
    BY <1>2
  <2>2. name \in Response!Name /\ Lies(b, o, Response!NameBytes(name))
    BY <1>4
  <2>3. j \in 0 .. Len(name.labels) /\ x = o + LabelAt(name, j) + 1
    BY <1>1 DEF n
  <2> QED BY <2>1, <2>2, <2>3, InNameStep DEF n, l
<1>6. b[x] \in Octet
  <2>1. x \in 1 .. Len(b)
    BY <1>2, <1>5
  <2> QED BY <1>2, <2>1, ElementOfSeq
<1>7. ASSUME ~(b[x] >= 64), b[x] # 0
      PROVE  InAnswer(m, k, x + 1 + b[x]) /\ x + 1 + b[x] <= a
  <2>1. j < n
    BY <1>5, <1>7
  <2>2. j + 1 \in 0 .. n /\ x + 1 + b[x] = o + LabelAt(name, j + 1) + 1
    BY <1>5, <2>1
  <2>3. InAnswer(m, k, x + 1 + b[x])
    BY <1>2, <2>2 DEF InAnswer, o, name, n
  <2> QED BY <1>5, <2>1, <2>3
<1>8. ASSUME NEW e, e = o + l + 1 PROVE BeforeRecord(m, k, e) /\ e <= a + 1
  <2>1. BeforeRecord(m, k, e)
    BY <1>2, <1>8 DEF BeforeRecord, o, l, name
  <2> HIDE DEF a
  <2>2. o \in Nat
    BY <1>5
  <2>3. e <= a + 1
    BY <1>2, <1>4, <1>8, <2>2
  <2> QED BY <2>1, <2>3
<1>9. ASSUME b[x] >= 64 PROVE BeforeRecord(m, k, x + 2) /\ x + 2 <= a + 1
  <2>1. ~(b[x] \in 1 .. 63) /\ b[x] # 0
    BY <1>9
  <2>2. x + 2 = o + l + 1
    BY <1>5, <2>1
  <2> QED BY <1>8, <2>2
<1>10. ASSUME b[x] = 0 PROVE BeforeRecord(m, k, x + 1) /\ x + 1 <= a + 1
  <2>1. ~(b[x] \in 1 .. 63) /\ b[x] # 192
    BY <1>10
  <2>2. x + 1 = o + l + 1
    BY <1>5, <2>1
  <2> QED BY <1>8, <2>2
<1> QED BY <1>5, <1>6, <1>7, <1>9, <1>10 DEF b

LEMMA LiesIsCut ==
  ASSUME NEW b \in Seq(Octet), NEW o, NEW d \in Seq(Octet), Lies(b, o, d)
  PROVE  SubSeq(b, o + 1, o + Len(d)) = d
<1> DEFINE h == Len(b)
           n == Len(d)
           m1 == o + 1
           m2 == o + n
           u == SubSeq(b, m1, m2)
<1>1. o \in Nat /\ n \in Nat /\ h \in Nat /\ o + n <= h
  BY LenProperties DEF Lies
<1>2. \A j \in 1 .. n : b[o + j] = d[j]
  BY DEF Lies
<1> HIDE DEF h, n
<1>3. /\ m1 \in Int /\ m2 \in Int /\ m2 - m1 + 1 = n /\ 1 <= m1 /\ m2 <= h
      /\ ~(m1 <= m2) => n = 0
  BY <1>1
<1>4. ASSUME NEW j \in 1 .. n PROVE m1 + j - 1 = o + j
  BY <1>1
<1> HIDE DEF m1, m2
<1>5. \A j \in m1 .. m2 : b[j] \in Octet
  <2> SUFFICES ASSUME NEW j \in m1 .. m2 PROVE b[j] \in Octet
    OBVIOUS
  <2>1. j \in 1 .. Len(b)
    BY <1>1, <1>3 DEF h
  <2> QED BY <2>1, ElementOfSeq
<1>6. /\ u \in Seq(Octet) /\ Len(u) = IF m1 <= m2 THEN m2 - m1 + 1 ELSE 0
      /\ \A j \in 1 .. m2 - m1 + 1 : u[j] = b[m1 + j - 1]
  BY <1>3, <1>5, SubSeqProperties
<1> HIDE DEF u
<1>7. Len(u) = n
  BY <1>1, <1>3, <1>6
<1>8. ASSUME NEW j \in 1 .. Len(u) PROVE u[j] = d[j]
  <2>1. j \in 1 .. n
    BY <1>7
  <2>2. u[j] = b[m1 + j - 1]
    BY <1>3, <1>6, <2>1
  <2> QED BY <1>2, <1>4, <2>1, <2>2
<1>9. u = d
  BY <1>6, <1>7, <1>8, SeqEqual DEF n
<1> QED BY <1>9 DEF u, m1, m2, n

(* The record behind the name of an answer.                                *)
LEMMA RecordStep ==
  ASSUME NEW m, IsMessage(m), NEW k, NEW x, BeforeRecord(m, k, x)
  PROVE  LET b == Response!Encoded(m)
             a == m.answers[k]
         IN /\ x \in Nat /\ 1 <= x /\ a.data \in Seq(Octet) /\ Len(a.data) \in Nat
            /\ 256 * b[x] + b[x + 1] = a.type
            /\ 256 * b[x + 2] + b[x + 3] = a.class
            /\ 256 * b[x + 8] + b[x + 9] = Len(a.data)
            /\ SubSeq(b, x + 10, x + 9 + Len(a.data)) = a.data
            /\ x + 10 + Len(a.data) = AnswerAt(m, k) + 1
            /\ x + 10 + Len(a.data) <= Len(b) + 1
<1> DEFINE b == Response!Encoded(m)
           a == m.answers[k]
           o == AnswerAt(m, k - 1)
           w == AnswerAt(m, k)
           l == Len(Response!NameBytes(a.name))
           d == a.data
           n == Len(d)
           h == Len(b)
           r == o + l
<1>1. k \in 1 .. Len(m.answers) /\ b \in Seq(Octet) /\ h \in Nat /\ x = o + l + 1
  BY MessageIs DEF BeforeRecord
<1>2. /\ a \in Response!Answer /\ Lies(b, o, Response!AnswerBytes(a))
      /\ w = o + Len(Response!AnswerBytes(a)) /\ w <= h
  BY <1>1, NextAnswerPlace
<1>3. Len(Response!AnswerBytes(a)) = l + 10 + n /\ l \in Nat /\ n \in Nat
  BY <1>2, AnswerIs
<1> HIDE DEF b, a, o, w, l, h, r
<1>4. /\ r \in Nat
      /\ 256 * b[r + 1] + b[r + 2] = a.type
      /\ 256 * b[r + 3] + b[r + 4] = a.class
      /\ 256 * b[r + 9] + b[r + 10] = Len(a.data)
      /\ Lies(b, r + 10, a.data)
  <2>1. b \in Seq(Octet)
    BY <1>1
  <2>2. a \in Response!Answer /\ Lies(b, o, Response!AnswerBytes(a))
    BY <1>2
  <2> QED BY <2>1, <2>2, AnswerLies DEF r, l
<1>5. o \in Nat /\ d \in Seq(Octet)
  BY <1>2, AnswerType DEF Lies
<1>6. x = r + 1 /\ x \in Nat /\ 1 <= x
  <2>1. r \in Nat
    BY <1>4
  <2>2. x = r + 1
    BY <1>1 DEF r
  <2> QED BY <2>1, <2>2
<1>7. /\ r + 1 = x /\ r + 2 = x + 1 /\ r + 3 = x + 2 /\ r + 4 = x + 3
      /\ r + 9 = x + 8 /\ r + 10 = x + 9
  BY <1>4, <1>6
<1> HIDE DEF d, n
<1>8. x + 10 + n = w + 1 /\ x + 10 + n <= h + 1
  BY <1>1, <1>2, <1>3, <1>5
<1>9. SubSeq(b, x + 10, x + 9 + n) = d
  <2> DEFINE y == r + 10
  <2>1. Lies(b, y, d)
    BY <1>4 DEF d
  <2>2. y + 1 = x + 10 /\ y + n = x + 9 + n
    BY <1>3, <1>6, <1>7
  <2> HIDE DEF y
  <2>3. SubSeq(b, y + 1, y + n) = d
    BY <1>1, <1>5, <2>1, LiesIsCut DEF n
  <2> QED BY <2>2, <2>3
<1>10. /\ 256 * b[x] + b[x + 1] = a.type
       /\ 256 * b[x + 2] + b[x + 3] = a.class
       /\ 256 * b[x + 8] + b[x + 9] = Len(a.data)
  BY <1>4, <1>7
<1> QED BY <1>3, <1>5, <1>6, <1>8, <1>9, <1>10 DEF b, a, d, n, w, h

(* What was read of the message, and what comes next.                      *)
ReadTo(m, c, k, x, r) ==
  \/ c = "question" /\ BeforeQuestion(m, k, x) /\ r = <<>>
  \/ c = "qname" /\ InQuestion(m, k, x) /\ r = <<>>
  \/ c = "answer" /\ BeforeAnswer(m, k, x) /\ r = <<>>
  \/ c = "aname" /\ InAnswer(m, k, x) /\ r = <<>>
  \/ c = "record" /\ BeforeRecord(m, k, x) /\ r = <<>>
  \/ c = "done" /\ k \in 0 .. Len(m.answers) /\ IsFound(m, r)

InMessage(m, c, k, x, n, r) ==
  /\ IsMessage(m) /\ n \in 0 .. 255
  /\ x \in 1 .. Len(Response!Encoded(m)) + 1
  /\ ReadTo(m, c, k, x, r)

ResponseInv ==
  \E m \in Messages : \E c, k, x, n, r :
    /\ msg = m /\ bytes = Response!Encoded(m)
    /\ respPc = c /\ i = k /\ pos = x /\ len = n /\ found = r
    /\ InMessage(m, c, k, x, n, r)

LEMMA ResponseInit ==
  ASSUME Response!DnsResponseAssumption, Response!Init PROVE ResponseInv
<1>1. PICK m \in Messages : msg = m
  BY DEF Response!Init
<1>2. IsMessage(m)
  BY DEF Response!DnsResponseAssumption, IsMessage
<1>3. /\ bytes = Response!Encoded(m) /\ pos = 1 /\ i = 0 /\ len = 0
      /\ respPc = "question" /\ found = <<>>
  BY <1>1 DEF Response!Init
<1>4. Len(Response!Encoded(m)) \in Nat /\ Len(m.questions) \in Nat
  BY <1>2, MessageIs
<1>5. BeforeQuestion(m, 0, 1)
  <2>1. QuestionAt(m, 0) = 0
    BY <1>2, QuestionPlaces
  <2> QED BY <1>4, <2>1 DEF BeforeQuestion
<1>6. InMessage(m, "question", 0, 1, 0, <<>>)
  BY <1>2, <1>4, <1>5 DEF InMessage, ReadTo
<1> QED BY <1>1, <1>3, <1>6 DEF ResponseInv

(* The first label of a name.                                              *)
LEMMA NameBegins ==
  ASSUME NEW m, IsMessage(m)
  PROVE  /\ \A k \in 0 .. Len(m.questions) - 1 :
              InQuestion(m, k + 1, QuestionAt(m, k) + 1)
         /\ \A k \in 0 .. Len(m.answers) - 1 :
              NoneBefore(m, k + 1) => InAnswer(m, k + 1, AnswerAt(m, k) + 1)
         /\ BeforeAnswer(m, 0, QuestionAt(m, Len(m.questions)) + 1)
<1>1. Len(m.questions) \in Nat /\ Len(m.answers) \in Nat
  BY MessageIs
<1>2. /\ AnswerAt(m, 0) = QuestionAt(m, Len(m.questions))
      /\ \A k \in 0 .. Len(m.questions) : QuestionAt(m, k) \in Nat
      /\ \A k \in 0 .. Len(m.answers) : AnswerAt(m, k) \in Nat
  BY QuestionPlaces
<1>3. ASSUME NEW k \in 0 .. Len(m.questions) - 1
      PROVE  InQuestion(m, k + 1, QuestionAt(m, k) + 1)
  <2> DEFINE name == m.questions[k + 1]
             o == QuestionAt(m, k)
  <2>1. k + 1 \in 1 .. Len(m.questions) /\ k + 1 - 1 = k /\ k \in 0 .. Len(m.questions)
    BY <1>1
  <2>2. name \in Response!Name
    BY <2>1, ElementOfSeq DEF IsMessage
  <2> HIDE DEF name
  <2>3. Len(name.labels) \in Nat /\ LabelAt(name, 0) = 0
    BY <2>2, NameType, PlacesGrow DEF LabelAt
  <2>4. o \in Nat
    BY <1>2, <2>1
  <2> HIDE DEF o
  <2>5. o + 1 = o + LabelAt(name, 0) + 1 /\ 0 \in 0 .. Len(name.labels)
    BY <2>3, <2>4
  <2>6. \E j \in 0 .. Len(name.labels) : o + 1 = o + LabelAt(name, j) + 1
    BY <2>5
  <2> QED BY <2>1, <2>6 DEF InQuestion, name, o
<1>4. ASSUME NEW k \in 0 .. Len(m.answers) - 1, NoneBefore(m, k + 1)
      PROVE  InAnswer(m, k + 1, AnswerAt(m, k) + 1)
  <2> DEFINE name == m.answers[k + 1].name
             o == AnswerAt(m, k)
  <2>1. k + 1 \in 1 .. Len(m.answers) /\ k + 1 - 1 = k /\ k \in 0 .. Len(m.answers)
    BY <1>1
  <2>2. name \in Response!Name
    <3>1. m.answers[k + 1] \in Response!Answer
      BY <2>1, ElementOfSeq DEF IsMessage
    <3> QED BY <3>1, AnswerType
  <2> HIDE DEF name
  <2>3. Len(name.labels) \in Nat /\ LabelAt(name, 0) = 0
    BY <2>2, NameType, PlacesGrow DEF LabelAt
  <2>4. o \in Nat
    BY <1>2, <2>1
  <2> HIDE DEF o
  <2>5. o + 1 = o + LabelAt(name, 0) + 1 /\ 0 \in 0 .. Len(name.labels)
    BY <2>3, <2>4
  <2>6. \E j \in 0 .. Len(name.labels) : o + 1 = o + LabelAt(name, j) + 1
    BY <2>5
  <2> QED BY <1>4, <2>1, <2>6 DEF InAnswer, name, o
<1>5. BeforeAnswer(m, 0, QuestionAt(m, Len(m.questions)) + 1)
  <2>1. 0 \in 0 .. Len(m.answers) /\ NoneBefore(m, 0 + 1)
    BY <1>1 DEF NoneBefore
  <2> QED BY <1>2, <2>1 DEF BeforeAnswer
<1> QED BY <1>3, <1>4, <1>5

(* Jumping over d bytes that are there.                                    *)
LEMMA AdvanceIs ==
  ASSUME NEW b, bytes = b, Len(b) \in Nat, NEW x \in Nat, pos = x,
         NEW d \in Nat, x + d <= Len(b) + 1, Response!Advance(d)
  PROVE  pos' = x + d
<1> DEFINE h == Len(b)
<1>1. pos' = IF x + d > h THEN h + 1 ELSE x + d
  BY DEF Response!Advance
<1>2. h \in Nat /\ x + d <= h + 1
  OBVIOUS
<1> HIDE DEF h
<1> QED BY <1>1, <1>2

LEMMA ResponseGoesOn ==
  ASSUME NEW m \in Messages, NEW c, NEW k, NEW x, NEW n, NEW r,
         msg' = m, bytes' = Response!Encoded(m), respPc' = c, i' = k, pos' = x,
         len' = n, found' = r, InMessage(m, c, k, x, n, r)
  PROVE  ResponseInv'
BY DEF ResponseInv

(* A step over the name of a question, or over its end.                    *)
LEMMA QuestionNameKeeps ==
  ASSUME ResponseInv, Response!QuestionLabel \/ Response!QuestionEnd
  PROVE  ResponseInv'
<1>1. PICK m \in Messages : \E c, k, x, n, r :
        /\ msg = m /\ bytes = Response!Encoded(m)
        /\ respPc = c /\ i = k /\ pos = x /\ len = n /\ found = r
        /\ InMessage(m, c, k, x, n, r)
  BY DEF ResponseInv
<1> DEFINE b == Response!Encoded(m)
           k == i
           x == pos
<1>2. /\ msg = m /\ bytes = b /\ respPc = "qname" /\ found = <<>> /\ len \in 0 .. 255
      /\ IsMessage(m) /\ InQuestion(m, k, x)
  BY <1>1 DEF InMessage, ReadTo, Response!QuestionLabel, Response!QuestionEnd
<1>3. /\ x \in Nat /\ 1 <= x /\ x <= Len(b) /\ b[x] \in Octet
      /\ b[x] # 0 => InQuestion(m, k, x + 1 + b[x]) /\ x + 1 + b[x] <= Len(b)
      /\ b[x] = 0 => BeforeQuestion(m, k, x + 5) /\ x + 5 <= Len(b) + 1
  BY <1>2, QuestionNameStep
<1>4. Len(b) \in Nat
  BY <1>2, MessageIs
<1>5. Response!ReadLen = b[x]
  BY <1>2, <1>3 DEF Response!ReadLen
<1> HIDE DEF b
<1>6. CASE Response!QuestionLabel
  <2> DEFINE e == b[x]
             y == x + 1 + e
  <2>1. /\ e # 0 /\ Response!Advance(1 + e) /\ len' = 255 /\ i' = k /\ msg' = m
        /\ bytes' = b /\ respPc' = "qname" /\ found' = <<>>
    BY <1>2, <1>5, <1>6 DEF Response!QuestionLabel, Response!SkipLabel
  <2>2. InQuestion(m, k, y) /\ y <= Len(b) /\ e \in 0 .. 255
    BY <1>3, <2>1 DEF Octet
  <2> HIDE DEF e
  <2>3. x + (1 + e) = y /\ y \in 1 .. Len(b) + 1 /\ 1 + e \in Nat
    BY <1>3, <1>4, <2>2
  <2>4. pos' = x + (1 + e)
    <3>1. x + (1 + e) <= Len(b) + 1
      BY <1>4, <2>3
    <3> QED BY <1>2, <1>3, <1>4, <2>1, <2>3, <3>1, AdvanceIs
  <2> HIDE DEF y
  <2>5. InMessage(m, "qname", k, y, 255, <<>>)
    BY <1>2, <2>2, <2>3 DEF InMessage, ReadTo, b
  <2> QED BY <2>1, <2>3, <2>4, <2>5, ResponseGoesOn DEF b
<1>7. CASE Response!QuestionEnd
  <2> DEFINE y == x + 5
  <2>1. /\ b[x] = 0 /\ Response!Advance(5) /\ len' = 0 /\ i' = k /\ msg' = m
        /\ bytes' = b /\ respPc' = "question" /\ found' = <<>>
    BY <1>2, <1>5, <1>7 DEF Response!QuestionEnd
  <2>2. BeforeQuestion(m, k, y) /\ y <= Len(b) + 1
    BY <1>3, <2>1
  <2>3. y \in 1 .. Len(b) + 1
    BY <1>3, <1>4, <2>2
  <2>4. pos' = y
    BY <1>2, <1>3, <1>4, <2>1, <2>2, AdvanceIs
  <2> HIDE DEF y
  <2>5. InMessage(m, "question", k, y, 0, <<>>)
    BY <1>2, <2>2, <2>3 DEF InMessage, ReadTo, b
  <2> QED BY <2>1, <2>4, <2>5, ResponseGoesOn DEF b
<1> QED BY <1>6, <1>7

(* A step over the name of an answer, or over its end.                     *)
LEMMA AnswerNameKeeps ==
  ASSUME ResponseInv, Response!AnswerLabel \/ Response!AnswerNameEnd
  PROVE  ResponseInv'
<1>1. PICK m \in Messages : \E c, k, x, n, r :
        /\ msg = m /\ bytes = Response!Encoded(m)
        /\ respPc = c /\ i = k /\ pos = x /\ len = n /\ found = r
        /\ InMessage(m, c, k, x, n, r)
  BY DEF ResponseInv
<1> DEFINE b == Response!Encoded(m)
           k == i
           x == pos
           e == b[x]
<1>2. /\ msg = m /\ bytes = b /\ respPc = "aname" /\ found = <<>> /\ len \in 0 .. 255
      /\ IsMessage(m) /\ InAnswer(m, k, x)
  BY <1>1 DEF InMessage, ReadTo, Response!AnswerLabel, Response!AnswerNameEnd
<1>3. /\ x \in Nat /\ 1 <= x /\ x <= Len(b) /\ e \in Octet
      /\ ~(e >= 64) /\ e # 0 => InAnswer(m, k, x + 1 + e) /\ x + 1 + e <= Len(b)
      /\ e >= 64 => BeforeRecord(m, k, x + 2) /\ x + 2 <= Len(b) + 1
      /\ e = 0 => BeforeRecord(m, k, x + 1) /\ x + 1 <= Len(b) + 1
  BY <1>2, AnswerNameStep
<1>4. Len(b) \in Nat
  BY <1>2, MessageIs
<1>5. Response!ReadLen = e /\ (Response!IsPointer(e) <=> e >= 64)
  BY <1>2, <1>3 DEF Response!ReadLen, Response!IsPointer
<1> HIDE DEF b, e
<1>6. CASE Response!AnswerLabel
  <2> DEFINE y == x + 1 + e
  <2>1. /\ ~(e >= 64) /\ e # 0 /\ Response!Advance(1 + e) /\ len' = 255 /\ i' = k
        /\ msg' = m /\ bytes' = b /\ respPc' = "aname" /\ found' = <<>>
    BY <1>2, <1>5, <1>6 DEF Response!AnswerLabel, Response!SkipLabel
  <2>2. InAnswer(m, k, y) /\ y <= Len(b) /\ e \in 0 .. 255
    BY <1>3, <2>1 DEF Octet
  <2>3. x + (1 + e) = y /\ y \in 1 .. Len(b) + 1 /\ 1 + e \in Nat
    BY <1>3, <1>4, <2>2
  <2>4. pos' = x + (1 + e)
    <3>1. x + (1 + e) <= Len(b) + 1
      BY <1>4, <2>3
    <3> QED BY <1>2, <1>3, <1>4, <2>1, <2>3, <3>1, AdvanceIs
  <2> HIDE DEF y
  <2>5. InMessage(m, "aname", k, y, 255, <<>>)
    BY <1>2, <2>2, <2>3 DEF InMessage, ReadTo, b
  <2> QED BY <2>1, <2>3, <2>4, <2>5, ResponseGoesOn DEF b
<1>7. CASE Response!AnswerNameEnd
  <2> DEFINE d == IF e >= 64 THEN 2 ELSE 1
             y == x + d
  <2>1. /\ (e >= 64 \/ e = 0) /\ Response!Advance(d) /\ len' = 0 /\ i' = k
        /\ msg' = m /\ bytes' = b /\ respPc' = "record" /\ found' = <<>>
    BY <1>2, <1>5, <1>7 DEF Response!AnswerNameEnd
  <2>2. BeforeRecord(m, k, y) /\ y <= Len(b) + 1
    BY <1>3, <2>1
  <2>3. d \in Nat
    OBVIOUS
  <2> HIDE DEF d
  <2>4. y \in 1 .. Len(b) + 1
    BY <1>3, <1>4, <2>2, <2>3
  <2>5. pos' = y
    BY <1>2, <1>3, <1>4, <2>1, <2>2, <2>3, AdvanceIs
  <2> HIDE DEF y
  <2>6. InMessage(m, "record", k, y, 0, <<>>)
    BY <1>2, <2>2, <2>4 DEF InMessage, ReadTo, b
  <2> QED BY <2>1, <2>5, <2>6, ResponseGoesOn DEF b
<1> QED BY <1>6, <1>7

(* The steps between the questions and the answers.                        *)
LEMMA NextKeeps ==
  ASSUME ResponseInv, Response!NextQuestion \/ Response!NextAnswer
  PROVE  ResponseInv'
<1>1. PICK m \in Messages : \E c, k, x, n, r :
        /\ msg = m /\ bytes = Response!Encoded(m)
        /\ respPc = c /\ i = k /\ pos = x /\ len = n /\ found = r
        /\ InMessage(m, c, k, x, n, r)
  BY DEF ResponseInv
<1> DEFINE k == i
           x == pos
           n == len
           h == Len(m.questions)
           g == Len(m.answers)
<1>2. /\ msg = m /\ bytes = Response!Encoded(m) /\ found = <<>> /\ n \in 0 .. 255
      /\ IsMessage(m) /\ x \in 1 .. Len(Response!Encoded(m)) + 1
      /\ msg' = m /\ bytes' = bytes /\ pos' = x /\ len' = n
  BY <1>1 DEF InMessage, ReadTo, Response!NextQuestion, Response!NextAnswer
<1>3. h \in Nat /\ g \in Nat
  BY <1>2, MessageIs
<1>4. /\ \A j \in 0 .. h - 1 : InQuestion(m, j + 1, QuestionAt(m, j) + 1)
      /\ \A j \in 0 .. g - 1 :
           NoneBefore(m, j + 1) => InAnswer(m, j + 1, AnswerAt(m, j) + 1)
      /\ BeforeAnswer(m, 0, QuestionAt(m, h) + 1)
  BY <1>2, NameBegins
<1> HIDE DEF h, g
<1>5. CASE Response!NextQuestion
  <2>1. respPc = "question" /\ BeforeQuestion(m, k, x)
    BY <1>1, <1>5 DEF InMessage, ReadTo, Response!NextQuestion
  <2>2. k \in 0 .. h /\ x = QuestionAt(m, k) + 1
    BY <2>1 DEF BeforeQuestion, h
  <2>3. found' = <<>>
    BY <1>2, <1>5 DEF Response!NextQuestion
  <2>4. CASE k < h
    <3> DEFINE j == k + 1
    <3>1. respPc' = "qname" /\ i' = j
      BY <1>2, <1>5, <2>4 DEF Response!NextQuestion, h
    <3>2. InQuestion(m, j, x)
      <4>1. k \in 0 .. h - 1
        BY <1>3, <2>2, <2>4
      <4> QED BY <1>4, <2>2, <4>1
    <3> HIDE DEF j
    <3>3. InMessage(m, "qname", j, x, n, <<>>)
      BY <1>2, <3>2 DEF InMessage, ReadTo
    <3> QED BY <1>2, <2>3, <3>1, <3>3, ResponseGoesOn
  <2>5. CASE ~(k < h)
    <3>1. respPc' = "answer" /\ i' = 0
      BY <1>2, <1>5, <2>5 DEF Response!NextQuestion, h
    <3>2. k = h
      BY <1>3, <2>2, <2>5
    <3>3. BeforeAnswer(m, 0, x)
      BY <1>4, <2>2, <3>2
    <3>4. InMessage(m, "answer", 0, x, n, <<>>)
      BY <1>2, <3>3 DEF InMessage, ReadTo
    <3> QED BY <1>2, <2>3, <3>1, <3>4, ResponseGoesOn
  <2> QED BY <2>4, <2>5
<1>6. CASE Response!NextAnswer
  <2>1. respPc = "answer" /\ BeforeAnswer(m, k, x)
    BY <1>1, <1>6 DEF InMessage, ReadTo, Response!NextAnswer
  <2>2. k \in 0 .. g /\ x = AnswerAt(m, k) + 1 /\ NoneBefore(m, k + 1)
    BY <2>1 DEF BeforeAnswer, g
  <2>3. CASE k < g
    <3> DEFINE j == k + 1
    <3>1. respPc' = "aname" /\ i' = j /\ found' = <<>>
      BY <1>2, <1>6, <2>3 DEF Response!NextAnswer, g
    <3>2. InAnswer(m, j, x)
      <4>1. k \in 0 .. g - 1
        BY <1>3, <2>2, <2>3
      <4> QED BY <1>4, <2>2, <4>1
    <3> HIDE DEF j
    <3>3. InMessage(m, "aname", j, x, n, <<>>)
      BY <1>2, <3>2 DEF InMessage, ReadTo
    <3> QED BY <1>2, <3>1, <3>3, ResponseGoesOn
  <2>4. CASE ~(k < g)
    <3> DEFINE r == Response!NoAnswer
    <3>1. respPc' = "done" /\ i' = k /\ found' = r
      BY <1>2, <1>6, <2>4 DEF Response!NextAnswer, g
    <3>2. k = g
      BY <1>3, <2>2, <2>4
    <3>3. \A j \in 1 .. g : ~Response!CarriesAddress(m.answers[j])
      <4>1. g + 1 - 1 = g
        BY <1>3
      <4> QED BY <2>2, <3>2, <4>1 DEF NoneBefore
    <3>4. IsFound(m, r) /\ k \in 0 .. Len(m.answers)
      BY <2>2, <3>3 DEF IsFound, g
    <3> HIDE DEF r
    <3>5. InMessage(m, "done", k, x, n, r)
      BY <1>2, <3>4 DEF InMessage, ReadTo
    <3> QED BY <1>2, <3>1, <3>5, ResponseGoesOn
  <2> QED BY <2>3, <2>4
<1> QED BY <1>5, <1>6

LEMMA NoneSoFar ==
  ASSUME NEW m, NEW k \in Nat, NoneBefore(m, k),
         ~Response!CarriesAddress(m.answers[k])
  PROVE  NoneBefore(m, k + 1)
<1> SUFFICES ASSUME NEW j \in 1 .. k + 1 - 1
             PROVE  ~Response!CarriesAddress(m.answers[j])
  BY DEF NoneBefore
<1>1. j \in 1 .. k - 1 \/ j = k
  OBVIOUS
<1> QED BY <1>1 DEF NoneBefore

(* The record of an answer: the address is taken, or the record passed.    *)
LEMMA RecordKeeps ==
  ASSUME ResponseInv, Response!Record
  PROVE  ResponseInv'
<1>1. PICK m \in Messages : \E c, k, x, n, r :
        /\ msg = m /\ bytes = Response!Encoded(m)
        /\ respPc = c /\ i = k /\ pos = x /\ len = n /\ found = r
        /\ InMessage(m, c, k, x, n, r)
  BY DEF ResponseInv
<1> DEFINE b == Response!Encoded(m)
           k == i
           x == pos
           n == len
           a == m.answers[k]
           l == Len(a.data)
           h == Len(b)
<1>2. /\ msg = m /\ bytes = b /\ found = <<>> /\ n \in 0 .. 255 /\ x \in 1 .. h + 1
      /\ IsMessage(m) /\ BeforeRecord(m, k, x)
      /\ msg' = m /\ bytes' = b /\ len' = n /\ i' = k
  BY <1>1 DEF InMessage, ReadTo, Response!Record
<1>3. /\ x \in Nat /\ 1 <= x /\ a.data \in Seq(Octet) /\ l \in Nat
      /\ 256 * b[x] + b[x + 1] = a.type
      /\ 256 * b[x + 2] + b[x + 3] = a.class
      /\ 256 * b[x + 8] + b[x + 9] = l
      /\ SubSeq(b, x + 10, x + 9 + l) = a.data
      /\ x + 10 + l = AnswerAt(m, k) + 1
      /\ x + 10 + l <= h + 1
  BY <1>2, RecordStep
<1>4. h \in Nat /\ Len(m.answers) \in Nat
  BY <1>2, MessageIs
<1>5. k \in 1 .. Len(m.answers) /\ NoneBefore(m, k)
  BY <1>2 DEF BeforeRecord
<1> HIDE DEF b, a, l
<1>6. Response!Word(0) = a.type /\ Response!Word(2) = a.class /\ Response!Word(8) = l
  <2>1. x + 0 = x /\ x + 0 + 1 = x + 1 /\ x + 2 + 1 = x + 3 /\ x + 8 + 1 = x + 9
    BY <1>3
  <2> QED BY <1>2, <1>3, <2>1 DEF Response!Word
<1>7. CASE Response!CarriesAddress(a)
  <2> DEFINE r == IF l = 4 THEN a.data ELSE Response!WeirdSize
             y == IF x + h > h THEN h + 1 ELSE x + h
  <2>1. /\ respPc' = "done"
        /\ found' = IF l # 4 THEN Response!WeirdSize ELSE SubSeq(b, x + 10, x + 9 + l)
        /\ Response!Advance(h)
    BY <1>2, <1>6, <1>7 DEF Response!Record, Response!CarriesAddress, Response!WrongSize
  <2>2. found' = r
    BY <1>3, <2>1
  <2>3. pos' = y
    BY <1>2, <2>1 DEF Response!Advance
  <2>4. y \in 1 .. h + 1
    <3> HIDE DEF h
    <3> QED BY <1>3, <1>4
  <2>5. IsFound(m, r)
    BY <1>5, <1>7 DEF IsFound, a, l
  <2>6. k \in 0 .. Len(m.answers)
    BY <1>4, <1>5
  <2> HIDE DEF r, y
  <2>7. InMessage(m, "done", k, y, n, r)
    BY <1>2, <2>4, <2>5, <2>6 DEF InMessage, ReadTo, b
  <2> QED BY <1>2, <2>1, <2>2, <2>3, <2>7, ResponseGoesOn DEF b
<1>8. CASE ~Response!CarriesAddress(a)
  <2> DEFINE d == 10 + l
             y == x + d
  <2>1. respPc' = "answer" /\ found' = <<>> /\ Response!Advance(d)
    BY <1>2, <1>6, <1>8 DEF Response!Record, Response!CarriesAddress
  <2>2. d \in Nat /\ y = x + 10 + l
    BY <1>3
  <2>3. y = AnswerAt(m, k) + 1 /\ y <= h + 1
    BY <1>3, <2>2
  <2> HIDE DEF d, h
  <2>4. y \in 1 .. h + 1
    BY <1>3, <1>4, <2>2, <2>3
  <2>5. pos' = y
    BY <1>2, <1>3, <1>4, <2>1, <2>2, <2>3, AdvanceIs DEF h
  <2>6. NoneBefore(m, k + 1)
    BY <1>4, <1>5, <1>8, NoneSoFar DEF a
  <2>7. BeforeAnswer(m, k, y)
    <3>1. k \in 0 .. Len(m.answers)
      BY <1>4, <1>5
    <3> QED BY <2>3, <2>6, <3>1 DEF BeforeAnswer
  <2> HIDE DEF y
  <2>8. InMessage(m, "answer", k, y, n, <<>>)
    BY <1>2, <2>4, <2>7 DEF InMessage, ReadTo, b, h
  <2> QED BY <1>2, <2>1, <2>5, <2>8, ResponseGoesOn DEF b
<1> QED BY <1>7, <1>8

LEMMA ResponseKeeps ==
  ASSUME ResponseInv, [Response!Next]_(Response!dnsVars)
  PROVE  ResponseInv'
<1>1. CASE Response!Done \/ UNCHANGED Response!dnsVars
  BY <1>1 DEF ResponseInv, Response!Done, Response!dnsVars
<1> QED
  BY <1>1, QuestionNameKeeps, AnswerNameKeeps, NextKeeps, RecordKeeps
     DEF Response!Next

(* The address that is found is that of the first answer with one.         *)
LEMMA ResponseRead ==
  ASSUME ResponseInv
  PROVE  Response!TypeOK /\ Response!FirstAddressFound
<1>0. PICK m \in Messages : \E c, k, x, n, r :
        /\ msg = m /\ bytes = Response!Encoded(m)
        /\ respPc = c /\ i = k /\ pos = x /\ len = n /\ found = r
        /\ InMessage(m, c, k, x, n, r)
  BY DEF ResponseInv
<1>1. PICK c, k, x, n, r :
        /\ msg = m /\ bytes = Response!Encoded(m)
        /\ respPc = c /\ i = k /\ pos = x /\ len = n /\ found = r
        /\ InMessage(m, c, k, x, n, r)
  BY <1>0
<1>2. /\ IsMessage(m) /\ n \in 0 .. 255 /\ x \in 1 .. Len(Response!Encoded(m)) + 1
      /\ ReadTo(m, c, k, x, r)
  BY <1>1 DEF InMessage
<1> DEFINE h == Len(m.questions)
           g == Len(m.answers)
<1>3. Response!Encoded(m) \in Seq(Octet) /\ h \in Nat /\ g \in Nat
  BY <1>2, MessageIs
<1>4. ASSUME NEW e \in 1 .. g, Len(m.answers[e].data) = 4
      PROVE  m.answers[e].data \in [1 .. 4 -> 0 .. 255]
  <2>1. m.answers[e].data \in Seq(Octet)
    BY <1>2, ElementOfSeq, AnswerType DEF IsMessage
  <2> DEFINE d == m.answers[e].data
  <2>2. Len(d) = 4 /\ d \in Seq(Octet)
    BY <1>4, <2>1
  <2> HIDE DEF d
  <2>3. d \in [1 .. 4 -> 0 .. 255]
    BY <2>2, LenProperties DEF Octet
  <2> QED BY <2>3 DEF d
<1>5. ASSUME IsFound(m, r)
      PROVE  r \in {Response!NoAnswer, Response!WeirdSize} \cup [1 .. 4 -> 0 .. 255]
  BY <1>4, <1>5 DEF IsFound
<1>6. r \in {<<>>, Response!NoAnswer, Response!WeirdSize} \cup [1 .. 4 -> 0 .. 255]
  BY <1>2, <1>5 DEF ReadTo
<1>7. k \in 0 .. h + g
  <2>1. k \in 0 .. h \/ k \in 0 .. g
    <3>1. k \in 0 .. h \/ k \in 1 .. h \/ k \in 0 .. g \/ k \in 1 .. g
      BY <1>2 DEF ReadTo, BeforeQuestion, InQuestion, BeforeAnswer, InAnswer, BeforeRecord
    <3> HIDE DEF h, g
    <3> QED BY <1>3, <3>1
  <2> HIDE DEF h, g
  <2> QED BY <1>3, <2>1
<1>8. Response!TypeOK
  <2>1. c \in {"question", "qname", "answer", "aname", "record", "done"}
    BY <1>2 DEF ReadTo
  <2> QED BY <1>1, <1>2, <1>3, <1>6, <1>7, <2>1 DEF Response!TypeOK, Octet
<1>9. ASSUME c = "done" PROVE IsFound(m, r)
  BY <1>2, <1>9 DEF ReadTo
<1>10. Response!FirstAddressFound
  BY <1>1, <1>9 DEF Response!FirstAddressFound, IsFound, NoneBefore
<1> QED BY <1>8, <1>10

LEMMA ResponseAlways ==
  Response!DnsResponseAssumption /\ Response!Spec
    => [](Response!TypeOK /\ Response!FirstAddressFound)
<1> SUFFICES ASSUME Response!DnsResponseAssumption
             PROVE  Response!Spec => [](Response!TypeOK /\ Response!FirstAddressFound)
  OBVIOUS
<1>1. Response!Init => ResponseInv
  BY ResponseInit
<1>2. ResponseInv /\ [Response!Next]_(Response!dnsVars) => ResponseInv'
  BY ResponseKeeps
<1>3. ResponseInv => Response!TypeOK /\ Response!FirstAddressFound
  BY ResponseRead
<1> HIDE DEF ResponseInv
<1> QED BY <1>1, <1>2, <1>3, PTL DEF Response!Spec

-----------------------------------------------------------------------------
(* Every dotted address is read.                                           *)
LEMMA AtonAlways ==
  Aton!AtonAssumption /\ Aton!Spec => [](Aton!TypeOK /\ Aton!AddressIsRead)
<1> SUFFICES ASSUME Aton!AtonAssumption
             PROVE  Aton!Spec => [](Aton!TypeOK /\ Aton!AddressIsRead)
  OBVIOUS
<1>1. Aton!Init => AtonInv
  BY AtonInit
<1>2. AtonInv /\ [Aton!Next]_(Aton!atonVars) => AtonInv'
  BY AtonKeeps
<1>3. AtonInv => Aton!TypeOK /\ Aton!AddressIsRead
  BY AtonRead DEF AtonInv
<1> HIDE DEF AtonInv
<1> QED BY <1>1, <1>2, <1>3, PTL DEF Aton!Spec

(* What is read is what was written, for all constants: inet_aton makes of *)
(* every dotted address its four numbers; a server makes of the question   *)
(* that BuildRequest writes the parts of the name, and no byte outside the *)
(* name is looked at; and ProcessResponse finds the first answer with an   *)
(* address, whatever questions, names and records are before it.           *)
THEOREM WhatWasWrittenIsRead ==
  /\ Aton!AtonAssumption /\ Question!DnsRequestAssumption
  /\ Response!DnsResponseAssumption
  /\ Aton!Spec /\ Question!Spec /\ Response!Spec
  => []ReadAsWritten
<1>1. Aton!TypeOK /\ Aton!AddressIsRead
        /\ Question!ServerReadsTheName /\ Question!ReadsInside
        /\ Response!TypeOK /\ Response!FirstAddressFound
      => ReadAsWritten
  BY DEF ReadAsWritten
<1> QED BY <1>1, AtonAlways, QuestionAlways, ResponseAlways, PTL

=============================================================================
