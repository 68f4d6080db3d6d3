-------------------------- MODULE TcpReceiveProofs --------------------------
(***************************************************************************)
(* What tcp_receive promises, for a stream, a window and a segment size of  *)
(* any length: the application gets the peer's bytes in order, ooseq stays  *)
(* sorted, the window accounts for every byte, and the announced right edge *)
(* never moves back.                                                        *)
(***************************************************************************)
EXTENDS TcpReceive, TLAPS

(* The bytes from position b up to, not including, e.                       *)
Bytes(b, e) == [i \in 1 .. e - b |-> b + i - 1]

(* The segments the peer may make of its stream, also after they were cut:  *)
(* each has the bytes its sequence number promises, and a FIN only at N.    *)
Good ==
  {s \in [seq : 0 .. N, d : Seq(Int), fin : BOOLEAN] :
     /\ s.seq + Len(s.d) <= N
     /\ s.d = Bytes(s.seq, s.seq + Len(s.d))
     /\ s.fin => s.seq + Len(s.d) = N
     /\ TCPLEN(s) > 0}

End(s) == s.seq + TCPLEN(s)

(* A queue of segments in order and apart, all of it within lo .. hi.       *)
SortedIn(q, lo, hi) ==
  /\ q \in Seq(Good)
  /\ \A i \in 1 .. Len(q) : lo <= q[i].seq /\ End(q[i]) <= hi
  /\ \A i, j \in 1 .. Len(q) : i < j => End(q[i]) <= q[j].seq

-----------------------------------------------------------------------------

(* What the proofs use of numbers and of the sizes of sets: a set of        *)
(* naturals that is not empty has a least element, and 1 .. m has m         *)
(* elements.  It is proved last (NatRight), from the library's theorems on  *)
(* well-founded relations and on finite sets.                               *)
NatFacts ==
  /\ \A T \in SUBSET Nat : T # {} => \E m \in T : \A n \in T : m <= n
  /\ \A m \in Nat : Cardinality(1 .. m) = m

(* A set of naturals that is not empty has a least element.                 *)
LEMMA NatMinimum ==
  ASSUME NatFacts, NEW T \in SUBSET Nat, T # {}
  PROVE  \E m \in T : \A n \in T : m <= n
BY Zenon DEF NatFacts

(* The length and the elements of a piece of the stream.                    *)
LEMMA BytesType ==
  ASSUME NEW b \in Int, NEW e \in Int, b <= e
  PROVE  /\ Bytes(b, e) \in Seq(Int)
         /\ Len(Bytes(b, e)) = e - b
         /\ \A i \in 1 .. e - b : Bytes(b, e)[i] = b + i - 1
BY DEF Bytes

(* Nothing lies between a position and an earlier one.                      *)
LEMMA BytesEmpty ==
  ASSUME NEW b \in Int, NEW e \in Int, e <= b
  PROVE  Bytes(b, e) = <<>>
BY DEF Bytes

(* A sequence of that length and those elements is that piece.              *)
LEMMA IsBytes ==
  ASSUME NEW b \in Int, NEW e \in Int, b <= e, NEW x \in Seq(Int),
         Len(x) = e - b, \A i \in 1 .. e - b : x[i] = b + i - 1
  PROVE  x = Bytes(b, e)
<1> DEFINE y == Bytes(b, e)
<1>1. y \in Seq(Int) /\ Len(y) = e - b /\ \A i \in 1 .. e - b : y[i] = b + i - 1
  BY Zenon, BytesType
<1> HIDE DEF y
<1>2. x = y
  BY <1>1
<1> QED
  BY Zenon, <1>2 DEF y

(* Two pieces of the stream that meet are one piece.                        *)
LEMMA BytesJoin ==
  ASSUME NEW b \in Int, NEW m \in Int, NEW e \in Int, b <= m, m <= e
  PROVE  Bytes(b, m) \o Bytes(m, e) = Bytes(b, e)
<1> DEFINE x == Bytes(b, m)
           y == Bytes(m, e)
<1>1. x \in Seq(Int) /\ Len(x) = m - b /\ \A i \in 1 .. m - b : x[i] = b + i - 1
  BY Zenon, BytesType
<1>2. y \in Seq(Int) /\ Len(y) = e - m /\ \A i \in 1 .. e - m : y[i] = m + i - 1
  BY Zenon, BytesType
<1> HIDE DEF x, y
<1>c. b <= e
  OBVIOUS
<1>3. x \o y \in Seq(Int)
  BY <1>1, <1>2
<1>l. Len(x \o y) = e - b
  <2>1. Len(x \o y) = Len(x) + Len(y)
    BY <1>1, <1>2
  <2> QED
    BY <2>1, <1>1, <1>2
<1>4. \A i \in 1 .. e - b : (x \o y)[i] = b + i - 1
  BY SMTT(30), <1>1, <1>2
<1>5. x \o y = Bytes(b, e)
  BY Zenon, <1>c, <1>3, <1>l, <1>4, IsBytes
<1> QED
  BY Zenon, <1>5 DEF x, y

(* What SubSeq cuts out of a piece of the stream is a piece of it.          *)
LEMMA BytesCut ==
  ASSUME NEW b \in Int, NEW e \in Int, b <= e, NEW n \in 0 .. e - b
  PROVE  /\ SubSeq(Bytes(b, e), 1, n) = Bytes(b, b + n)
         /\ SubSeq(Bytes(b, e), n + 1, e - b) = Bytes(b + n, e)
<1> DEFINE z == Bytes(b, e)
<1>1. z \in Seq(Int) /\ Len(z) = e - b /\ \A i \in 1 .. e - b : z[i] = b + i - 1
  BY Zenon, BytesType
<1> HIDE DEF z
<1>2. SubSeq(z, 1, n) = Bytes(b, b + n)
  <2> DEFINE x == SubSeq(z, 1, n)
  <2>1. x \in Seq(Int) /\ Len(x) = (b + n) - b /\ \A i \in 1 .. (b + n) - b : x[i] = b + i - 1
    BY <1>1
  <2> HIDE DEF x
  <2>2. x = Bytes(b, b + n)
    <3>1. b + n \in Int /\ b <= b + n
      OBVIOUS
    <3> QED
      BY Zenon, <3>1, <2>1, IsBytes
  <2> QED
    BY Zenon, <2>2 DEF x
<1>3. SubSeq(z, n + 1, e - b) = Bytes(b + n, e)
  <2> DEFINE x == SubSeq(z, n + 1, e - b)
  <2>1. x \in Seq(Int) /\ Len(x) = e - (b + n)
        /\ \A i \in 1 .. e - (b + n) : x[i] = (b + n) + i - 1
    BY <1>1
  <2> HIDE DEF x
  <2>2. x = Bytes(b + n, e)
    <3>1. b + n \in Int /\ b + n <= e
      OBVIOUS
    <3> QED
      BY Zenon, <3>1, <2>1, IsBytes
  <2> QED
    BY Zenon, <2>2 DEF x
<1> QED
  BY Zenon, <1>2, <1>3 DEF z

(* The fields of a segment that the peer may make.                          *)
LEMMA GoodFields ==
  ASSUME NEW s \in Good
  PROVE  /\ s.seq \in 0 .. N /\ s.seq \in Nat
         /\ s.d \in Seq(Int) /\ Len(s.d) \in Nat /\ len(s) = Len(s.d)
         /\ s.fin \in BOOLEAN
         /\ s.seq + len(s) <= N
         /\ s.d = Bytes(s.seq, s.seq + len(s))
         /\ s.fin => s.seq + len(s) = N
         /\ TCPLEN(s) \in Nat /\ TCPLEN(s) > 0
         /\ TCPLEN(s) = IF s.fin THEN len(s) + 1 ELSE len(s)
         /\ End(s) = s.seq + TCPLEN(s) /\ End(s) \in Nat /\ End(s) > s.seq
         /\ End(s) = IF s.fin THEN s.seq + len(s) + 1 ELSE s.seq + len(s)
BY SMTT(30), TcpReceiveAssumption DEF Good, TCPLEN, len, End

(* A segment with these fields is one the peer may make.                    *)
LEMMA MakesGood ==
  ASSUME NEW b \in 0 .. N, NEW e \in 0 .. N, b <= e, NEW f \in BOOLEAN,
         NEW s \in [seq : 0 .. N, d : Seq(Int), fin : BOOLEAN],
         s.seq = b, s.d = Bytes(b, e), s.fin = f, f => e = N, f \/ b < e
  PROVE  s \in Good /\ len(s) = e - b
<1>1. Len(s.d) = e - b
  <2>1. b \in Int /\ e \in Int
    BY TcpReceiveAssumption
  <2> QED
    BY Zenon, <2>1, BytesType
<1>2. s.seq + Len(s.d) = e
  BY <1>1, TcpReceiveAssumption
<1> QED
  BY <1>1, <1>2, TcpReceiveAssumption DEF Good, TCPLEN, len

(* Cutting a segment without a FIN to its first n bytes (Cut).              *)
LEMMA CutGood ==
  ASSUME NEW s \in Good, ~s.fin, NEW n \in Int, 0 < n, n <= len(s)
  PROVE  /\ Cut(s, n) \in Good
         /\ Cut(s, n).seq = s.seq /\ ~Cut(s, n).fin
         /\ len(Cut(s, n)) = n /\ End(Cut(s, n)) = s.seq + n
<1> DEFINE t == Cut(s, n)
<1>1. s.seq \in 0 .. N /\ len(s) \in Nat /\ s.seq + len(s) <= N /\ N \in Nat
      /\ s.d = Bytes(s.seq, s.seq + len(s))
  BY Zenon, GoodFields, TcpReceiveAssumption
<1>2. t.d = Bytes(s.seq, s.seq + n)
  <2>1. t.d = SubSeq(s.d, 1, n)
    BY Zenon DEF Cut, Good
  <2>2. SubSeq(Bytes(s.seq, s.seq + len(s)), 1, n) = Bytes(s.seq, s.seq + n)
    <3>1. /\ s.seq \in Int /\ s.seq + len(s) \in Int /\ s.seq <= s.seq + len(s)
          /\ n \in 0 .. (s.seq + len(s)) - s.seq
      BY <1>1
    <3> QED
      BY Zenon, <3>1, BytesCut
  <2> QED
    BY Zenon, <1>1, <2>1, <2>2
<1>3. s.seq + n \in 0 .. N /\ s.seq < s.seq + n /\ s.seq <= s.seq + n
  BY <1>1
<1>4. t.d \in Seq(Int)
  <2>1. s.seq \in Int /\ s.seq + n \in Int
    BY <1>1
  <2>2. Bytes(s.seq, s.seq + n) \in Seq(Int)
    BY Zenon, <2>1, <1>3, BytesType
  <2> QED
    BY Zenon, <1>2, <2>2
<1>5. t.seq = s.seq /\ t.fin = FALSE /\ t \in [seq : 0 .. N, d : Seq(Int), fin : BOOLEAN]
  BY Zenon, <1>4 DEF Cut, Good
<1> HIDE DEF t
<1>6. t \in Good /\ len(t) = (s.seq + n) - s.seq
  BY Zenon, <1>1, <1>2, <1>3, <1>5, MakesGood
<1>7. len(t) = n
  BY <1>6, <1>1
<1>8. End(t) = s.seq + n
  BY <1>5, <1>7 DEF End, TCPLEN
<1> QED
  BY Zenon, <1>5, <1>6, <1>7, <1>8 DEF t

(* A segment without the bytes received before (FrontCut).                  *)
LEMMA FrontCutGood ==
  ASSUME NEW s \in Good, NEW c, c.nxt \in Nat, c.nxt > s.seq, c.nxt < End(s)
  PROVE  /\ FrontCut(c, s) \in Good
         /\ FrontCut(c, s).seq = c.nxt /\ FrontCut(c, s).fin = s.fin
         /\ End(FrontCut(c, s)) = End(s)
<1> DEFINE t == FrontCut(c, s)
           n == c.nxt - s.seq
           e == s.seq + len(s)
<1>1. /\ s.seq \in 0 .. N /\ len(s) \in Nat /\ s.seq + len(s) <= N /\ N \in Nat
      /\ s.d = Bytes(s.seq, e) /\ s.fin \in BOOLEAN
      /\ s.fin => s.seq + len(s) = N
      /\ End(s) = IF s.fin THEN e + 1 ELSE e
      /\ End(s) = s.seq + TCPLEN(s) /\ TCPLEN(s) \in Nat
  <2>1. N \in Nat /\ len(s) \in Nat
    BY Zenon, GoodFields, TcpReceiveAssumption
  <2> QED
    BY Zenon, <2>1, GoodFields
<1>2. /\ c.nxt \in 0 .. N /\ e \in 0 .. N /\ c.nxt <= e /\ (s.fin \/ c.nxt < e)
      /\ s.fin => e = N
  BY <1>1
<1>3. c.nxt \in s.seq + 1 .. s.seq + TCPLEN(s) - 1
  BY <1>1
<1>4. t = [s EXCEPT !.seq = c.nxt, !.d = SubSeq(s.d, c.nxt - s.seq + 1, len(s))]
  BY Zenon, <1>3 DEF FrontCut
<1>5. SubSeq(s.d, c.nxt - s.seq + 1, len(s)) = Bytes(c.nxt, e)
  <2>1. /\ s.seq \in Int /\ e \in Int /\ s.seq <= e
        /\ n \in 0 .. e - s.seq /\ e - s.seq = len(s) /\ s.seq + n = c.nxt
    BY <1>1, <1>2
  <2>2. SubSeq(Bytes(s.seq, e), n + 1, e - s.seq) = Bytes(s.seq + n, e)
    <3> HIDE DEF n, e
    <3> QED
      BY Zenon, <2>1, BytesCut
  <2> QED
    BY Zenon, <2>1, <2>2, <1>1
<1>6. Bytes(c.nxt, e) \in Seq(Int)
  <2>1. c.nxt \in Int /\ e \in Int
    BY <1>2, <1>1
  <2> HIDE DEF e
  <2> QED
    BY Zenon, <2>1, <1>2, BytesType
<1>7. /\ t.seq = c.nxt /\ t.d = Bytes(c.nxt, e) /\ t.fin = s.fin
      /\ t \in [seq : 0 .. N, d : Seq(Int), fin : BOOLEAN]
  BY Zenon, <1>2, <1>4, <1>5, <1>6 DEF Good
<1> HIDE DEF t, e
<1>8. t \in Good /\ len(t) = e - c.nxt
  BY ZenonT(60), <1>1, <1>2, <1>7, MakesGood
<1>9. End(t) = IF t.fin THEN t.seq + (len(t) + 1) ELSE t.seq + len(t)
  BY Zenon, <1>8, GoodFields
<1>10. End(t) = End(s)
  BY <1>1, <1>2, <1>7, <1>8, <1>9
<1> QED
  BY Zenon, <1>7, <1>8, <1>10 DEF t

(* A segment the peer sends (Pieces) is one it may make.                    *)
LEMMA PiecesGood ==
  ASSUME NEW s \in Pieces
  PROVE  s \in Good
<1>1. PICK b \in 0 .. N, e \in 0 .. N, f \in BOOLEAN :
        /\ s = Segment(b, e, e = N /\ f)
        /\ TCPLEN(s) > 0 /\ (s.fin => s.seq + len(s) = N)
  BY DEF Pieces
<1>2. /\ s = [seq |-> b, d |-> Bytes(b, e), fin |-> (e = N /\ f)]
      /\ s.seq = b /\ s.d = Bytes(b, e) /\ s.fin = (e = N /\ f)
  BY Zenon, <1>1 DEF Segment, Bytes
<1>3. b \in Int /\ e \in Int /\ N \in Nat
  BY TcpReceiveAssumption
<1>4. CASE b <= e
  <2>1. Bytes(b, e) \in Seq(Int) /\ Len(Bytes(b, e)) = e - b
    BY Zenon, <1>3, <1>4, BytesType
  <2>2. s \in [seq : 0 .. N, d : Seq(Int), fin : BOOLEAN]
    BY Zenon, <1>2, <2>1
  <2>3. (e = N /\ f) \in BOOLEAN
    OBVIOUS
  <2>4. (e = N /\ f) \/ b < e
    <3>1. CASE s.fin
      BY Zenon, <3>1, <1>2
    <3>2. CASE ~s.fin
      <4>1. TCPLEN(s) = e - b
        BY <3>2, <1>2, <1>3, <2>1 DEF TCPLEN, len
      <4> QED
        BY <4>1, <1>1, <1>3
    <3> QED
      BY Zenon, <3>1, <3>2
  <2> QED
    BY Zenon, <1>2, <1>4, <2>2, <2>3, <2>4, MakesGood
<1>5. CASE e < b
  <2>1. e <= b
    BY <1>3, <1>5
  <2>2. s.d = <<>>
    BY Zenon, <1>2, <1>3, <2>1, BytesEmpty
  <2>3. Len(s.d) = 0
    BY <2>2
  <2>4. s.fin
    <3>1. ~s.fin => TCPLEN(s) = 0
      BY <2>3 DEF TCPLEN, len
    <3> QED
      BY <3>1, <1>1
  <2>5. s.seq = N /\ e = N
    <3>1. e = N
      BY Zenon, <1>2, <2>4
    <3>2. s.seq + len(s) = N
      BY Zenon, <1>1, <2>4
    <3>3. len(s) = 0
      BY Zenon, <2>3 DEF len
    <3>4. s.seq = b
      BY Zenon, <1>2
    <3> QED
      BY <1>3, <3>1, <3>2, <3>3, <3>4
  <2> QED
    BY <1>2, <1>3, <1>5, <2>5
<1> QED
  BY <1>3, <1>4, <1>5

-----------------------------------------------------------------------------

(* The elements of a sorted queue.                                          *)
LEMMA SortedFields ==
  ASSUME NEW q, NEW lo \in Int, NEW hi \in Int, SortedIn(q, lo, hi)
  PROVE  /\ q \in Seq(Good) /\ Len(q) \in Nat
         /\ \A i \in 1 .. Len(q) : q[i] \in Good
BY DEF SortedIn

(* One segment is a sorted queue.                                           *)
LEMMA SortedOne ==
  ASSUME NEW s \in Good, NEW lo \in Int, NEW hi \in Int, lo <= s.seq, End(s) <= hi
  PROVE  SortedIn(<<s>>, lo, hi)
BY DEF SortedIn

(* A part of a sorted queue is sorted, within the bounds of that part.      *)
LEMMA SortedPart ==
  ASSUME NEW q, NEW lo \in Int, NEW hi \in Int, SortedIn(q, lo, hi),
         NEW i \in Nat, NEW j \in Nat, 1 <= i, j <= Len(q),
         NEW a \in Int, NEW b \in Int,
         \A k \in i .. j : a <= q[k].seq /\ End(q[k]) <= b
  PROVE  SortedIn(SubSeq(q, i, j), a, b)
<1> DEFINE p == SubSeq(q, i, j)
<1>1. q \in Seq(Good) /\ Len(q) \in Nat
  BY DEF SortedIn
<1>2. CASE j < i
  <2>1. p = <<>>
    BY <1>1, <1>2
  <2> HIDE DEF p
  <2>2. SortedIn(p, a, b)
    BY <2>1 DEF SortedIn
  <2> QED
    BY Zenon, <2>2 DEF p
<1>3. CASE i <= j
  <2>1. p \in Seq(Good) /\ Len(p) = j - i + 1
    BY <1>1, <1>3
  <2>2. \A k \in 1 .. Len(p) : p[k] = q[i + k - 1] /\ i + k - 1 \in i .. j
                              /\ i + k - 1 \in 1 .. Len(q)
    BY <1>1, <1>3
  <2> HIDE DEF p
  <2>3. \A k \in 1 .. Len(p) : a <= p[k].seq /\ End(p[k]) <= b
    BY Zenon, <2>2
  <2>4. ASSUME NEW k \in 1 .. Len(p), NEW m \in 1 .. Len(p), k < m
        PROVE  End(p[k]) <= p[m].seq
    <3>1. /\ p[k] = q[i + k - 1] /\ p[m] = q[i + m - 1]
          /\ i + k - 1 \in 1 .. Len(q) /\ i + m - 1 \in 1 .. Len(q)
      BY Zenon, <2>2
    <3>2. i + k - 1 < i + m - 1
      BY <2>1, <2>4
    <3>3. End(q[i + k - 1]) <= q[i + m - 1].seq
      BY Zenon, <3>1, <3>2 DEF SortedIn
    <3> QED
      BY Zenon, <3>1, <3>3
  <2>5. SortedIn(p, a, b)
    BY Zenon, <2>1, <2>3, <2>4 DEF SortedIn
  <2> QED
    BY Zenon, <2>5 DEF p
<1> QED
  BY <1>2, <1>3

(* Two sorted queues, the second beyond the first, are one.                 *)
LEMMA SortedJoin ==
  ASSUME NEW x, NEW y, NEW lo \in Int, NEW m \in Int, NEW hi \in Int,
         lo <= m, m <= hi, SortedIn(x, lo, m), SortedIn(y, m, hi)
  PROVE  SortedIn(x \o y, lo, hi)
<1> DEFINE z == x \o y
<1>1. x \in Seq(Good) /\ Len(x) \in Nat /\ y \in Seq(Good) /\ Len(y) \in Nat
  BY DEF SortedIn
<1>2. z \in Seq(Good) /\ Len(z) = Len(x) + Len(y)
  BY <1>1
<1>3. \A k \in 1 .. Len(x) : z[k] = x[k]
  BY <1>1
<1>4. \A k \in Len(x) + 1 .. Len(z) : z[k] = y[k - Len(x)] /\ k - Len(x) \in 1 .. Len(y)
  BY SMTT(30), <1>1, <1>2
<1> HIDE DEF z
<1>5. \A k \in 1 .. Len(x) : /\ x[k].seq \in Int /\ End(x[k]) \in Int
                             /\ lo <= x[k].seq /\ End(x[k]) <= m /\ x[k].seq <= m
  <2> SUFFICES ASSUME NEW k \in 1 .. Len(x)
               PROVE  /\ x[k].seq \in Int /\ End(x[k]) \in Int
                      /\ lo <= x[k].seq /\ End(x[k]) <= m /\ x[k].seq <= m
    OBVIOUS
  <2>1. x[k] \in Good
    BY <1>1
  <2>2. x[k].seq \in Nat /\ End(x[k]) \in Nat /\ End(x[k]) > x[k].seq
    BY Zenon, <2>1, GoodFields
  <2>3. lo <= x[k].seq /\ End(x[k]) <= m
    BY Zenon DEF SortedIn
  <2> QED
    BY <2>2, <2>3
<1>6. \A k \in 1 .. Len(y) : /\ y[k].seq \in Int /\ End(y[k]) \in Int
                             /\ m <= y[k].seq /\ End(y[k]) <= hi /\ m <= End(y[k])
  <2> SUFFICES ASSUME NEW k \in 1 .. Len(y)
               PROVE  /\ y[k].seq \in Int /\ End(y[k]) \in Int
                      /\ m <= y[k].seq /\ End(y[k]) <= hi /\ m <= End(y[k])
    OBVIOUS
  <2>1. y[k] \in Good
    BY <1>1
  <2>2. y[k].seq \in Nat /\ End(y[k]) \in Nat /\ End(y[k]) > y[k].seq
    BY Zenon, <2>1, GoodFields
  <2>3. m <= y[k].seq /\ End(y[k]) <= hi
    BY Zenon DEF SortedIn
  <2> QED
    BY <2>2, <2>3
<1>7. \A k \in 1 .. Len(z) : lo <= z[k].seq /\ End(z[k]) <= hi
  <2> SUFFICES ASSUME NEW k \in 1 .. Len(z)
               PROVE  lo <= z[k].seq /\ End(z[k]) <= hi
    OBVIOUS
  <2>1. CASE k \in 1 .. Len(x)
    BY <2>1, <1>3, <1>5
  <2>2. CASE k \in Len(x) + 1 .. Len(z)
    BY SMTT(60), <2>2, <1>4, <1>6
  <2> QED
    BY SMTT(30), <2>1, <2>2, <1>1, <1>2
<1>8. ASSUME NEW i \in 1 .. Len(z), NEW j \in 1 .. Len(z), i < j
      PROVE  End(z[i]) <= z[j].seq
  <2>1. CASE i \in 1 .. Len(x) /\ j \in 1 .. Len(x)
    <3>1. End(x[i]) <= x[j].seq
      BY Zenon, <2>1, <1>8 DEF SortedIn
    <3> QED
      BY Zenon, <3>1, <2>1, <1>3
  <2>2. CASE i \in 1 .. Len(x) /\ j \in Len(x) + 1 .. Len(z)
    <3>1. End(x[i]) \in Int /\ End(x[i]) <= m /\ z[i] = x[i]
      BY Zenon, <2>2, <1>3, <1>5
    <3>2. y[j - Len(x)].seq \in Int /\ m <= y[j - Len(x)].seq /\ z[j] = y[j - Len(x)]
      BY Zenon, <2>2, <1>4, <1>6
    <3> QED
      BY <3>1, <3>2
  <2>3. CASE i \in Len(x) + 1 .. Len(z) /\ j \in Len(x) + 1 .. Len(z)
    <3>1. /\ z[i] = y[i - Len(x)] /\ i - Len(x) \in 1 .. Len(y)
          /\ z[j] = y[j - Len(x)] /\ j - Len(x) \in 1 .. Len(y)
      BY Zenon, <2>3, <1>4
    <3>2. i - Len(x) < j - Len(x)
      BY <1>1, <1>2, <1>8
    <3>3. End(y[i - Len(x)]) <= y[j - Len(x)].seq
      BY Zenon, <3>1, <3>2 DEF SortedIn
    <3> QED
      BY Zenon, <3>1, <3>3
  <2> QED
    BY <2>1, <2>2, <2>3, <1>1, <1>2, <1>8
<1>9. SortedIn(z, lo, hi)
  BY Zenon, <1>2, <1>7, <1>8 DEF SortedIn
<1> QED
  BY Zenon, <1>9 DEF z

(* Looser bounds hold of a sorted queue too.                                *)
LEMMA SortedWider ==
  ASSUME NEW q, NEW lo \in Int, NEW hi \in Int, SortedIn(q, lo, hi),
         NEW a \in Int, NEW b \in Int, a <= lo, hi <= b
  PROVE  SortedIn(q, a, b)
<1>1. ASSUME NEW i \in 1 .. Len(q)
      PROVE  a <= q[i].seq /\ End(q[i]) <= b
  <2>1. q[i] \in Good
    BY Zenon, SortedFields
  <2>2. q[i].seq \in Nat /\ End(q[i]) \in Nat
    BY Zenon, <2>1, GoodFields
  <2>3. lo <= q[i].seq /\ End(q[i]) <= hi
    BY Zenon DEF SortedIn
  <2> QED
    BY SMTT(30), <2>2, <2>3
<1> QED
  BY Zenon, <1>1 DEF SortedIn

(* Covered counts the segments at the head that end by a position.          *)
LEMMA CoveredRight ==
  ASSUME NatFacts, NEW q \in Seq(Good), NEW end \in Int
  PROVE  /\ Covered(q, end) \in 0 .. Len(q)
         /\ \A i \in 1 .. Covered(q, end) : q[i].seq + len(q[i]) <= end
         /\ \/ Covered(q, end) = Len(q)
            \/ ~(q[Covered(q, end) + 1].seq + len(q[Covered(q, end) + 1]) <= end)
<1> DEFINE P(k) == /\ \A i \in 1 .. k : q[i].seq + len(q[i]) <= end
                   /\ k = Len(q) \/ q[k + 1].seq + len(q[k + 1]) > end
           T == {k \in 0 .. Len(q) : k = Len(q) \/ q[k + 1].seq + len(q[k + 1]) > end}
<1>1. \E m \in T : \A n \in T : m <= n
  <2>1. T \in SUBSET Nat /\ Len(q) \in T
    OBVIOUS
  <2> HIDE DEF T
  <2> QED
    BY Zenon, <2>1, NatMinimum
<1>2. PICK m \in T : \A n \in T : m <= n
  BY Zenon, <1>1
<1>3. \A i \in 1 .. m : q[i].seq + len(q[i]) <= end
  <2> SUFFICES ASSUME NEW i \in 1 .. m
               PROVE  q[i].seq + len(q[i]) <= end
    OBVIOUS
  <2>1. i - 1 \notin T /\ i - 1 \in 0 .. Len(q) /\ i - 1 # Len(q) /\ (i - 1) + 1 = i
    BY <1>2
  <2>2. ~(q[i].seq + len(q[i]) > end)
    BY Zenon, <2>1
  <2>3. q[i].seq \in Nat /\ len(q[i]) \in Nat
    <3>1. q[i] \in Good
      BY <1>2
    <3> QED
      BY Zenon, <3>1, GoodFields
  <2> QED
    BY <2>2, <2>3
<1>4. m \in 0 .. Len(q) /\ P(m)
  BY Zenon, <1>2, <1>3
<1>5. Covered(q, end) = CHOOSE k \in 0 .. Len(q) : P(k)
  BY Zenon DEF Covered
<1> HIDE DEF P
<1>6. Covered(q, end) \in 0 .. Len(q) /\ P(Covered(q, end))
  BY Zenon, <1>4, <1>5
<1>7. \/ Covered(q, end) = Len(q)
      \/ ~(q[Covered(q, end) + 1].seq + len(q[Covered(q, end) + 1]) <= end)
  <2> DEFINE k == Covered(q, end)
  <2> SUFFICES ASSUME k # Len(q)
               PROVE  ~(q[k + 1].seq + len(q[k + 1]) <= end)
    OBVIOUS
  <2>1. q[k + 1].seq + len(q[k + 1]) > end
    BY Zenon, <1>6 DEF P
  <2>2. q[k + 1] \in Good
    BY <1>6
  <2>3. q[k + 1].seq \in Nat /\ len(q[k + 1]) \in Nat
    BY Zenon, <2>2, GoodFields
  <2> HIDE DEF k
  <2> QED
    BY <2>1, <2>3
<1> QED
  BY Zenon, <1>6, <1>7 DEF P

(* A queue that holds a FIN holds it at its end.                            *)
LEMMA FinLast ==
  ASSUME NEW q, NEW lo \in Int, NEW hi \in Int, SortedIn(q, lo, hi),
         NEW i \in 1 .. Len(q), q[i].fin
  PROVE  i = Len(q) /\ q[i].seq + len(q[i]) = N
<1>1. q[i] \in Good /\ \A j \in 1 .. Len(q) : q[j] \in Good
  BY Zenon, SortedFields
<1>2. q[i].seq + len(q[i]) = N /\ End(q[i]) = q[i].seq + len(q[i]) + 1
  BY Zenon, <1>1, GoodFields
<1>3. ASSUME i # Len(q)
      PROVE  FALSE
  <2>1. Len(q) \in Nat
    BY Zenon, SortedFields
  <2>2. i < Len(q) /\ Len(q) \in 1 .. Len(q)
    BY <1>3, <2>1
  <2>3. End(q[i]) <= q[Len(q)].seq
    BY Zenon, <2>2 DEF SortedIn
  <2>4. q[Len(q)] \in Good
    BY Zenon, <1>1, <2>2
  <2>5. q[Len(q)].seq \in 0 .. N /\ N \in Nat
    BY Zenon, <2>4, GoodFields, TcpReceiveAssumption
  <2> QED
    BY <1>2, <2>3, <2>5
<1> QED
  BY Zenon, <1>2, <1>3

(* What AfterCovered leaves of a sorted queue: segments that end beyond the *)
(* position; none when a FIN was among the covered ones.                    *)
LEMMA RestRight ==
  ASSUME NatFacts, NEW q, NEW lo \in Int, NEW hi \in Int, SortedIn(q, lo, hi),
         NEW end \in Int, end <= N
  PROVE  LET rest == AfterCovered(q, end)
         IN /\ SortedIn(rest, lo, hi)
            /\ TakesFin(q, end) \in BOOLEAN
            /\ TakesFin(q, end) => rest = <<>> /\ end = N /\ N + 1 <= hi
            /\ rest # <<>> =>
                 /\ Len(rest) > 0
                 /\ Head(rest) = rest[1] /\ rest[1] \in Good
                 /\ rest[1].seq + len(rest[1]) > end
                 /\ SortedIn(rest, rest[1].seq, hi)
                 /\ rest[1] = q[1] \/ rest[1].seq > q[1].seq
<1> DEFINE rest == AfterCovered(q, end)
           k == Covered(q, end)
<1>1. q \in Seq(Good) /\ Len(q) \in Nat /\ N \in Nat
  BY Zenon, SortedFields, TcpReceiveAssumption
<1>2. /\ k \in 0 .. Len(q)
      /\ \A i \in 1 .. k : q[i].seq + len(q[i]) <= end
      /\ k = Len(q) \/ ~(q[k + 1].seq + len(q[k + 1]) <= end)
  BY Zenon, <1>1, CoveredRight
<1>3. rest = SubSeq(q, k + 1, Len(q))
  BY Zenon DEF AfterCovered
<1>4. TakesFin(q, end) = \E i \in 1 .. k : q[i].fin
  BY Zenon DEF TakesFin
<1> HIDE DEF k
<1>5. SortedIn(SubSeq(q, k + 1, Len(q)), lo, hi)
  <2>1. k + 1 \in Nat /\ 1 <= k + 1 /\ Len(q) <= Len(q)
    BY <1>1, <1>2
  <2>2. \A j \in k + 1 .. Len(q) : lo <= q[j].seq /\ End(q[j]) <= hi
    BY <1>1, <1>2 DEF SortedIn
  <2> QED
    BY Zenon, <1>1, <2>1, <2>2, SortedPart
<1>6. ASSUME TakesFin(q, end)
      PROVE  rest = <<>> /\ end = N /\ N + 1 <= hi
  <2>1. PICK i \in 1 .. k : q[i].fin
    BY Zenon, <1>4, <1>6
  <2>2. i \in 1 .. Len(q)
    BY <1>1, <1>2
  <2>3. i = Len(q) /\ q[i].seq + len(q[i]) = N
    BY Zenon, <2>1, <2>2, FinLast
  <2>4. k = Len(q)
    BY <1>1, <1>2, <2>3
  <2>5. rest = <<>>
    BY <1>1, <1>3, <2>4
  <2>6. end = N
    <3>1. N <= end
      BY Zenon, <1>2, <2>1, <2>3
    <3> QED
      BY <1>1, <3>1
  <2>7. q[i] \in Good
    BY <1>1, <2>2
  <2>8. End(q[i]) = q[i].seq + len(q[i]) + 1
    BY Zenon, <2>1, <2>7, GoodFields
  <2>9. End(q[i]) <= hi
    BY Zenon, <2>2 DEF SortedIn
  <2> QED
    BY Zenon, <2>3, <2>5, <2>6, <2>8, <2>9
<1>7. ASSUME rest # <<>>
      PROVE  /\ Len(rest) > 0
             /\ Head(rest) = rest[1] /\ rest[1] \in Good
             /\ rest[1].seq + len(rest[1]) > end
             /\ SortedIn(rest, rest[1].seq, hi)
             /\ rest[1] = q[1] \/ rest[1].seq > q[1].seq
  <2>1. k < Len(q)
    BY SMTT(30), <1>1, <1>2, <1>3, <1>7
  <2>2. /\ rest \in Seq(Good) /\ Len(rest) = Len(q) - k /\ Len(rest) > 0
        /\ rest[1] = q[k + 1] /\ Head(rest) = rest[1] /\ k + 1 \in 1 .. Len(q)
    BY <1>1, <1>2, <1>3, <2>1
  <2>3. rest[1] \in Good
    BY <2>2
  <2>4. rest[1].seq \in Nat /\ len(rest[1]) \in Nat
    BY Zenon, <2>3, GoodFields
  <2>5. rest[1].seq + len(rest[1]) > end
    BY SMTT(30), <1>2, <2>1, <2>2, <2>4
  <2>6. \A j \in k + 1 .. Len(q) : q[k + 1].seq <= q[j].seq /\ End(q[j]) <= hi
    <3> SUFFICES ASSUME NEW j \in k + 1 .. Len(q)
                 PROVE  q[k + 1].seq <= q[j].seq /\ End(q[j]) <= hi
      OBVIOUS
    <3>1. j \in 1 .. Len(q)
      BY <1>1, <1>2
    <3>2. End(q[j]) <= hi
      BY Zenon, <3>1 DEF SortedIn
    <3>3. q[k + 1] \in Good /\ q[j] \in Good
      BY <1>1, <2>2, <3>1
    <3>4. /\ q[k + 1].seq \in Nat /\ End(q[k + 1]) \in Nat /\ q[j].seq \in Nat
          /\ End(q[k + 1]) > q[k + 1].seq
      BY Zenon, <3>3, GoodFields
    <3>5. CASE j = k + 1
      BY <3>2, <3>4, <3>5
    <3>6. CASE k + 1 < j
      <4>1. End(q[k + 1]) <= q[j].seq
        BY Zenon, <2>2, <3>1, <3>6 DEF SortedIn
      <4> QED
        BY SMTT(30), <3>2, <3>4, <4>1
    <3> QED
      BY <1>2, <3>5, <3>6
  <2>7. SortedIn(rest, rest[1].seq, hi)
    <3>1. k + 1 \in Nat /\ 1 <= k + 1 /\ Len(q) <= Len(q) /\ q[k + 1].seq \in Int
      BY SMTT(30), <1>1, <1>2, <2>2, <2>4
    <3>2. SortedIn(SubSeq(q, k + 1, Len(q)), q[k + 1].seq, hi)
      BY Zenon, <1>1, <3>1, <2>6, SortedPart
    <3> QED
      BY Zenon, <3>2, <1>3, <2>2
  <2>8. rest[1] = q[1] \/ rest[1].seq > q[1].seq
    <3>1. CASE k = 0
      BY SMTT(30), <3>1, <2>2
    <3>2. CASE k > 0
      <4>1. 1 \in 1 .. Len(q) /\ 1 < k + 1
        BY <3>2, <1>1, <1>2
      <4>2. End(q[1]) <= q[k + 1].seq
        BY Zenon, <4>1, <2>2 DEF SortedIn
      <4>3. q[1] \in Good
        BY <1>1, <4>1
      <4>4. q[1].seq \in Nat /\ End(q[1]) \in Nat /\ End(q[1]) > q[1].seq
        BY Zenon, <4>3, GoodFields
      <4> QED
        BY SMTT(30), <4>2, <4>4, <2>2, <2>4
    <3> QED
      BY <3>1, <3>2, <1>2
  <2> QED
    BY Zenon, <2>2, <2>3, <2>5, <2>7, <2>8
<1>8. TakesFin(q, end) \in BOOLEAN
  BY Zenon, <1>4
<1> HIDE DEF rest
<1>9. SortedIn(rest, lo, hi)
  BY Zenon, <1>3, <1>5
<1> QED
  BY Zenon, <1>6, <1>7, <1>8, <1>9 DEF rest

(* A segment put before a queue: it takes over the FIN of the segments it   *)
(* covers, and is cut where the next one begins.                            *)
Placed(s, q) ==
  LET end == s.seq + len(s)
      rest == AfterCovered(q, end)
      whole == [s EXCEPT !.fin = TakesFin(q, end)]
  IN IF rest # <<>> /\ end > Head(rest).seq
     THEN Cut(whole, Head(rest).seq - s.seq) ELSE whole

(* Such a segment is sound and ends where what is left of the queue begins, *)
(* or before.                                                               *)
LEMMA PlacedRight ==
  ASSUME NatFacts, NEW s \in Good, ~s.fin, NEW q, NEW lo \in Int, NEW hi \in Int,
         SortedIn(q, lo, hi), End(s) <= hi,
         LET rest == AfterCovered(q, s.seq + len(s))
         IN rest # <<>> => rest[1].seq > s.seq
  PROVE  LET rest == AfterCovered(q, s.seq + len(s))
             p == Placed(s, q)
         IN /\ p \in Good /\ p.seq = s.seq /\ End(p) <= hi
            /\ SortedIn(rest, End(p), hi)
            /\ p.fin => rest = <<>>
<1> DEFINE end == s.seq + len(s)
           rest == AfterCovered(q, end)
           whole == [s EXCEPT !.fin = TakesFin(q, end)]
           p == Placed(s, q)
<1>1. /\ s.seq \in 0 .. N /\ len(s) \in Nat /\ N \in Nat /\ end <= N /\ end \in Int
      /\ end = End(s) /\ TCPLEN(s) = len(s) /\ len(s) > 0
  <2>1. /\ s.seq \in 0 .. N /\ s.seq \in Nat /\ len(s) \in Nat /\ end <= N
        /\ End(s) = s.seq + TCPLEN(s) /\ TCPLEN(s) = len(s) /\ TCPLEN(s) > 0
    BY Zenon, GoodFields
  <2> QED
    BY <2>1, TcpReceiveAssumption
<1>2. /\ SortedIn(rest, lo, hi)
      /\ TakesFin(q, end) \in BOOLEAN
      /\ TakesFin(q, end) => rest = <<>> /\ end = N /\ N + 1 <= hi
      /\ rest # <<>> => /\ Len(rest) > 0 /\ Head(rest) = rest[1] /\ rest[1] \in Good
                        /\ rest[1].seq + len(rest[1]) > end
                        /\ SortedIn(rest, rest[1].seq, hi)
  <2> HIDE DEF end
  <2> QED
    BY Zenon, <1>1, RestRight
<1>3. rest # <<>> => rest[1].seq > s.seq
  OBVIOUS
<1>4. p = IF rest # <<>> /\ end > Head(rest).seq
          THEN Cut(whole, Head(rest).seq - s.seq) ELSE whole
  BY Zenon DEF Placed
<1>5. /\ whole \in Good /\ whole.seq = s.seq /\ len(whole) = len(s)
      /\ whole.fin = TakesFin(q, end)
  <2>1. /\ whole.seq = s.seq /\ whole.d = s.d /\ whole.fin = TakesFin(q, end)
        /\ whole \in [seq : 0 .. N, d : Seq(Int), fin : BOOLEAN]
    BY Zenon, <1>2 DEF Good
  <2>2. len(whole) = len(s)
    BY Zenon, <2>1 DEF len
  <2>3. s.d = Bytes(s.seq, end)
    BY Zenon, GoodFields
  <2>4. end \in 0 .. N /\ s.seq <= end /\ s.seq < end
    BY <1>1
  <2> HIDE DEF end, whole
  <2>5. whole \in Good
    BY Zenon, <1>1, <1>2, <2>1, <2>3, <2>4, MakesGood
  <2> QED
    BY Zenon, <2>1, <2>2, <2>5
<1> HIDE DEF rest, whole, p
<1>6. CASE rest # <<>> /\ end > rest[1].seq
  <2> DEFINE n == rest[1].seq - s.seq
  <2>1. p = Cut(whole, n)
    BY Zenon, <1>2, <1>4, <1>6
  <2>2. ~whole.fin
    BY ZenonT(60), <1>2, <1>5, <1>6
  <2>3. rest[1].seq \in Nat
    BY Zenon, <1>2, <1>6, GoodFields
  <2>4. n \in Int /\ 0 < n /\ n <= len(whole) /\ s.seq + n = rest[1].seq
    BY SMTT(30), <1>1, <1>3, <1>5, <1>6, <2>3
  <2> HIDE DEF n
  <2>5. p \in Good /\ p.seq = s.seq /\ ~p.fin /\ End(p) = rest[1].seq
    <3>1. /\ Cut(whole, n) \in Good
          /\ Cut(whole, n).seq = whole.seq /\ ~Cut(whole, n).fin
          /\ End(Cut(whole, n)) = whole.seq + n
      BY Zenon, <1>5, <2>2, <2>4, CutGood
    <3> QED
      BY Zenon, <2>1, <2>4, <1>5, <3>1
  <2>6. SortedIn(rest, End(p), hi)
    BY Zenon, <1>2, <1>6, <2>5
  <2>7. End(p) <= hi
    BY SMTT(30), <1>1, <1>6, <2>3, <2>5
  <2> QED
    BY Zenon, <2>5, <2>6, <2>7 DEF rest, p
<1>7. CASE rest # <<>> /\ ~(end > rest[1].seq)
  <2>1. p = whole
    BY Zenon, <1>2, <1>4, <1>7
  <2>2. ~whole.fin
    BY Zenon, <1>2, <1>5, <1>7
  <2>3. End(p) = end
    <3>1. End(whole) = whole.seq + len(whole)
      BY ZenonT(60), <1>5, <2>2, GoodFields
    <3> QED
      BY Zenon, <3>1, <2>1, <1>5
  <2>4. rest[1].seq \in Nat
    BY Zenon, <1>2, <1>7, GoodFields
  <2>5. End(p) \in Int /\ End(p) <= rest[1].seq /\ End(p) <= hi /\ hi <= hi
        /\ rest[1].seq \in Int
    BY SMTT(30), <1>1, <1>7, <2>3, <2>4
  <2>6. SortedIn(rest, End(p), hi)
    BY Zenon, <1>2, <1>7, <2>5, SortedWider
  <2> QED
    BY Zenon, <1>5, <2>1, <2>2, <2>5, <2>6 DEF rest, p
<1>8. CASE rest = <<>>
  <2>1. p = whole
    BY Zenon, <1>4, <1>8
  <2>2. End(p) <= hi /\ End(p) \in Int
    <3>1. End(whole) = IF whole.fin THEN whole.seq + len(whole) + 1
                       ELSE whole.seq + len(whole)
      BY Zenon, <1>5, GoodFields
    <3>2. CASE whole.fin
      <4>1. end = N /\ N + 1 <= hi
        BY Zenon, <1>2, <1>5, <3>2
      <4> QED
        BY SMTT(30), <3>1, <3>2, <4>1, <1>1, <1>5, <2>1
    <3>3. CASE ~whole.fin
      BY Zenon, <3>1, <3>3, <1>1, <1>5, <2>1
    <3> QED
      BY Zenon, <3>2, <3>3
  <2>3. SortedIn(rest, End(p), hi)
    <3>1. <<>> \in Seq(Good) /\ 1 .. Len(<<>>) = {}
      OBVIOUS
    <3> QED
      BY Zenon, <1>8, <3>1 DEF SortedIn
  <2> QED
    BY Zenon, <1>5, <1>8, <2>1, <2>2, <2>3 DEF rest, p
<1> QED
  BY Zenon, <1>6, <1>7, <1>8

(* tcp_oos_insert_segment keeps the queue sorted.                           *)
LEMMA InsertSorted ==
  ASSUME NatFacts, NEW s \in Good, NEW q, NEW hi \in Int, SortedIn(q, s.seq, hi), End(s) <= hi,
         q # <<>> => q[1].seq > s.seq \/ len(s) > len(q[1])
  PROVE  SortedIn(tcp_oos_insert_segment(s, q), s.seq, hi)
<1> DEFINE end == s.seq + len(s)
           rest == AfterCovered(q, end)
           p == Placed(s, q)
<1>1. /\ s.seq \in Int /\ s.seq <= s.seq /\ end \in Int /\ end <= N /\ len(s) \in Nat
      /\ s.fin \in BOOLEAN
  <2>1. s.seq \in Nat /\ len(s) \in Nat /\ end <= N /\ s.fin \in BOOLEAN
    BY Zenon, GoodFields
  <2> QED
    BY <2>1
<1>2. CASE s.fin
  <2>1. tcp_oos_insert_segment(s, q) = <<s>>
    BY Zenon, <1>2 DEF tcp_oos_insert_segment
  <2> QED
    BY Zenon, <1>1, <2>1, SortedOne
<1>3. CASE ~s.fin
  <2>1. tcp_oos_insert_segment(s, q) = <<p>> \o rest
    BY Zenon, <1>3 DEF tcp_oos_insert_segment, Placed
  <2>2. rest # <<>> => rest[1].seq > s.seq
    <3> SUFFICES ASSUME rest # <<>>
                 PROVE  rest[1].seq > s.seq
      OBVIOUS
    <3>1. /\ rest[1] \in Good /\ rest[1].seq + len(rest[1]) > end
          /\ rest[1] = q[1] \/ rest[1].seq > q[1].seq
      BY Zenon, <1>1, RestRight
    <3>2. q # <<>>
      <4>1. SortedIn(rest, s.seq, hi)
        BY Zenon, <1>1, RestRight
      <4>2. ASSUME q = <<>>
            PROVE  FALSE
        <5>1. Covered(q, end) \in 0 .. Len(q)
          BY Zenon, <1>1, CoveredRight, SortedFields
        <5>2. rest = SubSeq(q, Covered(q, end) + 1, Len(q))
          BY Zenon DEF AfterCovered
        <5> HIDE DEF rest
        <5> QED
          BY <4>2, <5>1, <5>2
      <4> QED
        BY Zenon, <4>2
    <3>3. q[1] \in Good /\ q[1].seq >= s.seq
      BY <3>2, SortedFields DEF SortedIn
    <3>4. q[1].seq \in Nat /\ len(q[1]) \in Nat
      BY Zenon, <3>3, GoodFields
    <3>5. rest[1].seq \in Nat /\ len(rest[1]) \in Nat
      BY Zenon, <3>1, GoodFields
    <3> HIDE DEF rest
    <3>6. CASE rest[1] = q[1]
      BY SMTT(30), <1>1, <3>1, <3>2, <3>3, <3>4, <3>6
    <3>7. CASE rest[1].seq > q[1].seq
      BY SMTT(30), <1>1, <3>3, <3>4, <3>5, <3>7
    <3> QED
      BY Zenon, <3>1, <3>6, <3>7
  <2>3. /\ p \in Good /\ p.seq = s.seq /\ End(p) <= hi
        /\ SortedIn(rest, End(p), hi)
    BY Zenon, <1>1, <1>3, <2>2, PlacedRight
  <2> HIDE DEF p, rest
  <2>4. End(p) \in Int /\ s.seq <= End(p) /\ End(p) <= End(p) /\ s.seq <= p.seq
    <3>1. End(p) \in Nat /\ End(p) > p.seq
      BY Zenon, <2>3, GoodFields
    <3> QED
      BY <1>1, <2>3, <3>1
  <2>5. SortedIn(<<p>>, s.seq, End(p))
    BY Zenon, <1>1, <2>3, <2>4, SortedOne
  <2>6. SortedIn(<<p>> \o rest, s.seq, hi)
    BY Zenon, <1>1, <2>3, <2>4, <2>5, SortedJoin
  <2> QED
    BY Zenon, <2>1, <2>6
<1> QED
  BY Zenon, <1>1, <1>2, <1>3

(* Before keeps what lies before a segment, cut where the segment begins.   *)
LEMMA BeforeSorted ==
  ASSUME NEW s \in Good, NEW q, NEW lo \in Int, NEW hi \in Int, SortedIn(q, lo, hi),
         NEW k \in 0 .. Len(q), lo <= s.seq,
         \A i \in 1 .. k : q[i].seq < s.seq, k > 0 => ~q[k].fin
  PROVE  SortedIn(Before(q, k, s), lo, s.seq)
<1>1. q \in Seq(Good) /\ Len(q) \in Nat /\ k \in Nat /\ \A i \in 1 .. Len(q) : q[i] \in Good
  BY SortedFields
<1>2. s.seq \in Int
  BY GoodFields
<1>3. CASE k = 0
  <2>1. SubSeq(q, 1, k) = <<>>
    BY <1>1, <1>3
  <2>2. Before(q, k, s) = <<>>
    BY <1>3, <2>1 DEF Before
  <2>3. <<>> \in Seq(Good) /\ 1 .. Len(<<>>) = {}
    OBVIOUS
  <2> QED
    BY Zenon, <2>2, <2>3 DEF SortedIn
<1>4. CASE k > 0
  <2>1. k \in 1 .. Len(q) /\ k - 1 \in Nat /\ k - 1 <= Len(q) /\ k <= Len(q)
    BY <1>1, <1>4
  <2>2. q[k] \in Good /\ ~q[k].fin /\ q[k].seq < s.seq
    BY <1>1, <1>4, <2>1
  <2>3. /\ q[k].seq \in Nat /\ len(q[k]) \in Nat /\ End(q[k]) = q[k].seq + len(q[k])
        /\ End(q[k]) > q[k].seq
    BY Zenon, <2>2, GoodFields
  <2>4. lo <= q[k].seq
    BY Zenon, <2>1 DEF SortedIn
  <2>5. \A i \in 1 .. k - 1 : lo <= q[i].seq /\ End(q[i]) <= q[k].seq
    <3> SUFFICES ASSUME NEW i \in 1 .. k - 1
                 PROVE  lo <= q[i].seq /\ End(q[i]) <= q[k].seq
      OBVIOUS
    <3>1. i \in 1 .. Len(q) /\ i < k
      BY <2>1, <1>1
    <3> QED
      BY Zenon, <3>1, <2>1 DEF SortedIn
  <2>6. SortedIn(SubSeq(q, 1, k - 1), lo, q[k].seq)
    <3>1. 1 \in Nat /\ 1 <= 1 /\ q[k].seq \in Int
      BY <2>3
    <3> QED
      BY Zenon, <3>1, <2>1, <2>5, SortedPart
  <2>7. CASE q[k].seq + len(q[k]) > s.seq
    <3> DEFINE n == s.seq - q[k].seq
               p == Cut(q[k], n)
    <3>1. Before(q, k, s) = Append(SubSeq(q, 1, k - 1), p)
      BY Zenon, <1>4, <2>7 DEF Before
    <3>2. n \in Int /\ 0 < n /\ n <= len(q[k]) /\ q[k].seq + n = s.seq
      BY SMTT(30), <1>2, <2>2, <2>3, <2>7
    <3>3. p \in Good /\ p.seq = q[k].seq /\ End(p) = s.seq
      <4> HIDE DEF n
      <4>1. /\ Cut(q[k], n) \in Good /\ Cut(q[k], n).seq = q[k].seq
            /\ End(Cut(q[k], n)) = q[k].seq + n
        BY Zenon, <2>2, <3>2, CutGood
      <4> QED
        BY Zenon, <3>2, <4>1
    <3> HIDE DEF n, p
    <3>4. SortedIn(<<p>>, q[k].seq, s.seq)
      <4>1. q[k].seq \in Int /\ q[k].seq <= p.seq /\ End(p) <= s.seq
        BY SMTT(30), <1>2, <2>3, <3>3
      <4> QED
        BY Zenon, <1>2, <3>3, <4>1, SortedOne
    <3>5. SortedIn(SubSeq(q, 1, k - 1) \o <<p>>, lo, s.seq)
      <4>1. q[k].seq \in Int /\ q[k].seq <= s.seq
        BY <1>2, <2>2, <2>3
      <4> QED
        BY Zenon, <1>2, <2>4, <2>6, <3>4, <4>1, SortedJoin
    <3>6. Append(SubSeq(q, 1, k - 1), p) = SubSeq(q, 1, k - 1) \o <<p>>
      <4>1. SubSeq(q, 1, k - 1) \in Seq(Good)
        BY Zenon, <2>6 DEF SortedIn
      <4> HIDE DEF Good
      <4> QED
        BY SMTT(30), <3>3, <4>1
    <3> QED
      BY Zenon, <3>1, <3>5, <3>6
  <2>8. CASE ~(q[k].seq + len(q[k]) > s.seq)
    <3>1. Before(q, k, s) = SubSeq(q, 1, k)
      BY Zenon, <2>8 DEF Before
    <3>2. \A i \in 1 .. k : lo <= q[i].seq /\ End(q[i]) <= s.seq
      <4> SUFFICES ASSUME NEW i \in 1 .. k
                   PROVE  lo <= q[i].seq /\ End(q[i]) <= s.seq
        OBVIOUS
      <4>1. CASE i = k
        BY SMTT(30), <1>2, <2>3, <2>4, <2>8, <4>1
      <4>2. CASE i \in 1 .. k - 1
        <5>1. lo <= q[i].seq /\ End(q[i]) <= q[k].seq
          BY Zenon, <2>5, <4>2
        <5>2. q[i] \in Good
          BY <1>1, <2>1
        <5>3. End(q[i]) \in Nat
          BY Zenon, <5>2, GoodFields
        <5> QED
          BY SMTT(30), <1>2, <2>2, <2>3, <5>1, <5>3
      <4> QED
        BY SMTT(30), <1>1, <4>1, <4>2
    <3>3. 1 \in Nat /\ 1 <= 1
      OBVIOUS
    <3>4. SortedIn(SubSeq(q, 1, k), lo, s.seq)
      BY Zenon, <1>1, <1>2, <2>1, <3>2, <3>3, SortedPart
    <3> QED
      BY Zenon, <3>1, <3>4
  <2> QED
    BY Zenon, <2>7, <2>8
<1> QED
  BY <1>1, <1>3, <1>4

(* The segments of a sorted queue that begin before a position are its      *)
(* first ones.                                                              *)
LEMMA FirstOnes ==
  ASSUME NatFacts, NEW q, NEW lo \in Int, NEW hi \in Int, SortedIn(q, lo, hi), NEW p \in Int
  PROVE  LET k == Cardinality({i \in DOMAIN q : q[i].seq < p})
         IN /\ k \in 0 .. Len(q)
            /\ \A i \in 1 .. k : q[i].seq < p
            /\ \A i \in k + 1 .. Len(q) : ~(q[i].seq < p)
<1> DEFINE T == {j \in 0 .. Len(q) : j = Len(q) \/ ~(q[j + 1].seq < p)}
           S == {i \in DOMAIN q : q[i].seq < p}
<1>1. q \in Seq(Good) /\ Len(q) \in Nat /\ \A i \in 1 .. Len(q) : q[i] \in Good
  BY Zenon, SortedFields
<1>d. DOMAIN q = 1 .. Len(q)
  BY <1>1
<1>2. T \in SUBSET Nat /\ Len(q) \in T
  BY <1>1
<1>3. PICK m \in 0 .. Len(q) : m \in T /\ \A n \in T : m <= n
  <2>1. T \subseteq 0 .. Len(q)
    OBVIOUS
  <2> HIDE DEF T
  <2> QED
    BY Zenon, <1>2, <2>1, NatMinimum
<1>4. m \in 0 .. Len(q) /\ (m = Len(q) \/ ~(q[m + 1].seq < p))
  BY Zenon, <1>3
<1>t. \A j \in 0 .. Len(q) : j \notin T => j # Len(q) /\ q[j + 1].seq < p
  OBVIOUS
<1>s. \A i \in 1 .. Len(q) : i \in S <=> q[i].seq < p
  BY Zenon, <1>d
<1>u. S \subseteq 1 .. Len(q)
  BY Zenon, <1>d
<1> HIDE DEF T, S
<1>5. ASSUME NEW i \in 1 .. m
      PROVE  q[i].seq < p
  <2>1. i - 1 \notin T /\ i - 1 \in 0 .. Len(q) /\ (i - 1) + 1 = i
    BY <1>1, <1>3, <1>4
  <2> QED
    BY Zenon, <1>t, <2>1
<1>6. ASSUME NEW i \in m + 1 .. Len(q)
      PROVE  ~(q[i].seq < p)
  <2>1. m + 1 \in 1 .. Len(q) /\ i \in 1 .. Len(q) /\ ~(q[m + 1].seq < p)
    BY <1>1, <1>4
  <2>2. q[m + 1] \in Good /\ q[i] \in Good
    BY Zenon, <1>1, <2>1
  <2>3. /\ q[m + 1].seq \in Nat /\ q[i].seq \in Nat
        /\ End(q[m + 1]) \in Nat /\ End(q[m + 1]) > q[m + 1].seq
    BY Zenon, <2>2, GoodFields
  <2>4. CASE i = m + 1
    BY Zenon, <2>1, <2>4
  <2>5. CASE m + 1 < i
    <3>1. End(q[m + 1]) <= q[i].seq
      BY Zenon, <2>1, <2>5 DEF SortedIn
    <3> QED
      BY SMTT(30), <2>1, <2>3, <3>1
  <2> QED
    BY <1>4, <2>4, <2>5
<1>7. S = 1 .. m
  <2>1. \A i \in S : i \in 1 .. m
    BY SMTT(30), <1>1, <1>4, <1>6, <1>s, <1>u
  <2>2. \A i \in 1 .. m : i \in S
    BY <1>1, <1>4, <1>5, <1>s
  <2> QED
    BY Zenon, <2>1, <2>2
<1>8. Cardinality(S) = m
  <2>1. m \in Nat
    BY <1>1, <1>4
  <2> QED
    BY Zenon, <1>7, <2>1 DEF NatFacts
<1> QED
  BY Zenon, <1>4, <1>5, <1>6, <1>8 DEF S

(* The receiver's fields of a pcb.                                          *)
Pcb ==
  [nxt : Nat, wnd : Nat, ann : Nat, edge : Nat, ooseq : Seq(Good), refused : Seq(Int),
   rfin : BOOLEAN, delack : BOOLEAN, eof : BOOLEAN]

(* tcp_receive keeps ooseq sorted when it puts a segment of the window in   *)
(* it (Queue).                                                              *)
LEMMA QueueSorted ==
  ASSUME NatFacts, NEW c \in Pcb, NEW s \in Good, NEW lo \in Int,
         SortedIn(c.ooseq, lo, c.nxt + c.wnd), lo <= s.seq, End(s) <= c.nxt + c.wnd
  PROVE  SortedIn(Queue(c, s).ooseq, lo, c.nxt + c.wnd)
<1> DEFINE q == c.ooseq
           hi == c.nxt + c.wnd
           k == Cardinality({i \in DOMAIN q : q[i].seq < s.seq})
           after == SubSeq(q, k + 1, Len(q))
           new == Queue(c, s).ooseq
<1>1. new = IF q = <<>> THEN <<s>>
            ELSE IF after # <<>> /\ Head(after).seq = s.seq
            THEN IF len(s) > len(Head(after))
                 THEN SubSeq(q, 1, k) \o tcp_oos_insert_segment(s, after)
                 ELSE q
            ELSE IF after # <<>>
            THEN Before(q, k, s) \o tcp_oos_insert_segment(s, after)
            ELSE IF q[k].fin THEN q
            ELSE Append(Before(q, k, s), CutToWindow(c, s))
  BY Zenon DEF Queue, Pcb
<1>2. hi \in Int /\ SortedIn(q, lo, hi) /\ End(s) <= hi
  BY DEF Pcb
<1>3. /\ s.seq \in Int /\ s.seq \in Nat /\ len(s) \in Nat /\ End(s) \in Int
      /\ End(s) > s.seq /\ s.seq <= s.seq /\ End(s) = s.seq + TCPLEN(s)
  <2>1. /\ s.seq \in Nat /\ len(s) \in Nat /\ End(s) \in Nat /\ End(s) > s.seq
        /\ End(s) = s.seq + TCPLEN(s)
    BY Zenon, GoodFields
  <2> QED
    BY <2>1
<1>4. /\ k \in 0 .. Len(q)
      /\ \A i \in 1 .. k : q[i].seq < s.seq
      /\ \A i \in k + 1 .. Len(q) : ~(q[i].seq < s.seq)
  <2> HIDE DEF hi
  <2> QED
    BY Zenon, <1>2, <1>3, FirstOnes
<1> HIDE DEF new, k, q, hi
<1>5. q \in Seq(Good) /\ Len(q) \in Nat /\ \A i \in 1 .. Len(q) : q[i] \in Good
  BY Zenon, <1>2, SortedFields
<1>6. CASE q = <<>>
  <2>1. new = <<s>>
    BY Zenon, <1>1, <1>6
  <2> QED
    BY Zenon, <2>1, <1>2, <1>3, SortedOne DEF new, hi
<1>7. ASSUME after # <<>>
      PROVE  /\ k < Len(q) /\ k + 1 \in 1 .. Len(q) /\ Head(after) = q[k + 1]
             /\ after[1] = q[k + 1] /\ q[k + 1] \in Good
             /\ q[k + 1].seq >= s.seq /\ q[k + 1].seq \in Nat
             /\ SortedIn(after, s.seq, hi)
  <2>1. k < Len(q)
    BY <1>4, <1>5, <1>7
  <2>2. k + 1 \in 1 .. Len(q) /\ Head(after) = q[k + 1] /\ after[1] = q[k + 1]
    BY <1>4, <1>5, <2>1
  <2>3. q[k + 1] \in Good
    BY Zenon, <1>5, <2>2
  <2>4. q[k + 1].seq \in Nat
    BY Zenon, <2>3, GoodFields
  <2>5. \A i \in k + 1 .. Len(q) : s.seq <= q[i].seq /\ End(q[i]) <= hi
    <3> SUFFICES ASSUME NEW i \in k + 1 .. Len(q)
                 PROVE  s.seq <= q[i].seq /\ End(q[i]) <= hi
      OBVIOUS
    <3>1. i \in 1 .. Len(q)
      BY <1>4, <1>5
    <3>2. q[i] \in Good /\ End(q[i]) <= hi
      BY Zenon, <1>2, <1>5, <3>1 DEF SortedIn
    <3>3. q[i].seq \in Nat
      BY Zenon, <3>2, GoodFields
    <3>4. ~(q[i].seq < s.seq)
      BY Zenon, <1>4
    <3> QED
      BY SMTT(30), <1>3, <3>2, <3>3, <3>4
  <2>6. SortedIn(after, s.seq, hi)
    <3>1. k + 1 \in Nat /\ 1 <= k + 1 /\ Len(q) <= Len(q)
      BY <1>4, <1>5
    <3> QED
      BY Zenon, <1>2, <1>3, <1>5, <3>1, <2>5, SortedPart
  <2>7. q[k + 1].seq >= s.seq
    BY <1>3, <1>4, <1>5, <2>1, <2>4
  <2> QED
    BY Zenon, <2>1, <2>2, <2>3, <2>4, <2>6, <2>7
<1>8. ASSUME after # <<>>, q[k + 1].seq > s.seq \/ len(s) > len(q[k + 1])
      PROVE  SortedIn(tcp_oos_insert_segment(s, after), s.seq, hi)
  <2> HIDE DEF after
  <2> QED
    BY Zenon, <1>2, <1>7, <1>8, InsertSorted
<1>9. s.seq <= hi
  BY <1>2, <1>3
<1>10. CASE q # <<>> /\ after # <<>> /\ Head(after).seq = s.seq /\ len(s) > len(Head(after))
  <2>1. new = SubSeq(q, 1, k) \o tcp_oos_insert_segment(s, after)
    BY Zenon, <1>1, <1>10
  <2>2. k + 1 \in 1 .. Len(q) /\ q[k + 1].seq = s.seq /\ len(s) > len(q[k + 1])
    BY Zenon, <1>7, <1>10
  <2>3. SortedIn(tcp_oos_insert_segment(s, after), s.seq, hi)
    BY Zenon, <1>8, <1>10, <2>2
  <2>4. \A i \in 1 .. k : lo <= q[i].seq /\ End(q[i]) <= s.seq
    <3> SUFFICES ASSUME NEW i \in 1 .. k
                 PROVE  lo <= q[i].seq /\ End(q[i]) <= s.seq
      OBVIOUS
    <3>1. i \in 1 .. Len(q) /\ i < k + 1
      BY <1>4, <1>5
    <3>2. End(q[i]) <= q[k + 1].seq /\ lo <= q[i].seq
      BY Zenon, <1>2, <2>2, <3>1 DEF SortedIn
    <3> QED
      BY Zenon, <2>2, <3>2
  <2>5. SortedIn(SubSeq(q, 1, k), lo, s.seq)
    <3>1. 1 \in Nat /\ 1 <= 1 /\ k \in Nat /\ k <= Len(q)
      BY <1>4, <1>5
    <3> QED
      BY Zenon, <1>2, <1>3, <2>4, <3>1, SortedPart
  <2>6. SortedIn(SubSeq(q, 1, k) \o tcp_oos_insert_segment(s, after), lo, hi)
    <3> HIDE DEF after
    <3> QED
      BY Zenon, <1>2, <1>3, <1>9, <2>3, <2>5, SortedJoin
  <2> QED
    BY Zenon, <2>1, <2>6 DEF new, hi
<1>11. CASE q # <<>> /\ after # <<>> /\ Head(after).seq = s.seq /\ ~(len(s) > len(Head(after)))
  <2>1. new = q
    BY Zenon, <1>1, <1>11
  <2> QED
    BY Zenon, <2>1, <1>2 DEF new, hi
<1>12. CASE q # <<>> /\ after # <<>> /\ Head(after).seq # s.seq
  <2>1. new = Before(q, k, s) \o tcp_oos_insert_segment(s, after)
    BY Zenon, <1>1, <1>12
  <2>2. q[k + 1].seq > s.seq
    <3>1. Head(after) = q[k + 1] /\ q[k + 1].seq >= s.seq /\ q[k + 1].seq \in Nat
      BY Zenon, <1>7, <1>12
    <3>2. q[k + 1].seq # s.seq
      BY Zenon, <1>12, <3>1
    <3> QED
      BY <1>3, <3>1, <3>2
  <2>3. SortedIn(tcp_oos_insert_segment(s, after), s.seq, hi)
    BY Zenon, <1>8, <1>12, <2>2
  <2>4. k > 0 => ~q[k].fin
    <3> SUFFICES ASSUME k > 0, q[k].fin
                 PROVE  FALSE
      OBVIOUS
    <3>1. k < Len(q)
      BY Zenon, <1>7, <1>12
    <3>2. k \in 1 .. Len(q)
      BY <1>4, <1>5
    <3>3. k = Len(q)
      BY Zenon, <1>2, <3>2, FinLast
    <3> QED
      BY SMTT(30), <1>5, <3>1, <3>3
  <2>5. SortedIn(Before(q, k, s), lo, s.seq)
    BY Zenon, <1>2, <1>4, <2>4, BeforeSorted
  <2>6. SortedIn(Before(q, k, s) \o tcp_oos_insert_segment(s, after), lo, hi)
    <3> HIDE DEF after
    <3> QED
      BY ZenonT(60), <1>2, <1>3, <1>9, <2>3, <2>5, SortedJoin
  <2> QED
    BY Zenon, <2>1, <2>6 DEF new, hi
<1>13. CASE q # <<>> /\ after = <<>> /\ q[k].fin
  <2>1. new = q
    BY Zenon, <1>1, <1>13
  <2> QED
    BY Zenon, <2>1, <1>2 DEF new, hi
<1>14. CASE q # <<>> /\ after = <<>> /\ ~q[k].fin
  <2>1. CutToWindow(c, s) = s
    <3>1. ~(s.seq + TCPLEN(s) > c.nxt + c.wnd)
      BY <1>2, <1>3 DEF hi
    <3> QED
      BY Zenon, <3>1 DEF CutToWindow
  <2>2. new = Append(Before(q, k, s), s)
    BY Zenon, <1>1, <1>14, <2>1
  <2>3. SortedIn(Before(q, k, s), lo, s.seq)
    BY Zenon, <1>2, <1>4, <1>14, BeforeSorted
  <2>4. SortedIn(<<s>>, s.seq, hi)
    BY Zenon, <1>2, <1>3, SortedOne
  <2>5. SortedIn(Before(q, k, s) \o <<s>>, lo, hi)
    BY Zenon, <1>2, <1>3, <1>9, <2>3, <2>4, SortedJoin
  <2>6. Append(Before(q, k, s), s) = Before(q, k, s) \o <<s>>
    <3>1. Before(q, k, s) \in Seq(Good)
      BY Zenon, <2>3 DEF SortedIn
    <3> DEFINE b == Before(q, k, s)
    <3> HIDE DEF Good, b
    <3>2. b \in Seq(Good) => Append(b, s) = b \o <<s>>
      OBVIOUS
    <3> QED
      BY Zenon, <3>1, <3>2 DEF b
  <2> QED
    BY Zenon, <2>2, <2>5, <2>6 DEF new, hi
<1> QED
  BY ZenonT(60), <1>6, <1>10, <1>11, <1>12, <1>13, <1>14

-----------------------------------------------------------------------------

(* Text unfolds as it is written when the function it names exists.         *)
LEMMA TextUnfolds ==
  ASSUME NEW t, NEW f,
         f = [i \in 0 .. Len(t) |-> IF i = 0 THEN <<>> ELSE f[i - 1] \o t[i].d]
  PROVE  \E g : /\ g = [i \in 0 .. Len(t) |-> IF i = 0 THEN <<>> ELSE g[i - 1] \o t[i].d]
                /\ Text(t) = g[Len(t)]
<1> DEFINE g == CHOOSE g : g = [i \in 0 .. Len(t) |-> IF i = 0 THEN <<>>
                                                      ELSE g[i - 1] \o t[i].d]
<1>1. g = [i \in 0 .. Len(t) |-> IF i = 0 THEN <<>> ELSE g[i - 1] \o t[i].d]
  BY Zenon
<1>2. Text(t) = g[Len(t)]
  BY Zenon DEF Text
<1> QED
  BY Zenon, <1>1, <1>2

(* The text of segments that follow each other is one piece of the stream.  *)
LEMMA TextRight ==
  ASSUME NatFacts, NEW t \in Seq(Good), Len(t) > 0,
         \A i \in 1 .. Len(t) : t[1].seq <= t[i].seq,
         \A i \in 1 .. Len(t) - 1 : t[i + 1].seq = t[i].seq + len(t[i])
  PROVE  Text(t) = Bytes(t[1].seq, t[Len(t)].seq + len(t[Len(t)]))
<1> DEFINE n == Len(t)
           b == t[1].seq
           e(i) == IF i = 0 THEN b ELSE t[i].seq + len(t[i])
           f == [i \in 0 .. n |-> Bytes(b, e(i))]
<1>1. n \in Nat /\ n > 0 /\ \A i \in 1 .. n : t[i] \in Good
  OBVIOUS
<1>2. \A i \in 1 .. n : /\ t[i].seq \in Int /\ len(t[i]) \in Nat
                        /\ t[i].d = Bytes(t[i].seq, t[i].seq + len(t[i]))
  <2> SUFFICES ASSUME NEW i \in 1 .. n
               PROVE  /\ t[i].seq \in Int /\ len(t[i]) \in Nat
                      /\ t[i].d = Bytes(t[i].seq, t[i].seq + len(t[i]))
    OBVIOUS
  <2>1. t[i].seq \in Nat /\ len(t[i]) \in Nat
        /\ t[i].d = Bytes(t[i].seq, t[i].seq + len(t[i]))
    BY Zenon, <1>1, GoodFields
  <2> QED
    BY <2>1
<1>3. b \in Int
  BY SMTT(30), <1>1, <1>2
<1>4. \A i \in 1 .. n : e(i) = t[i].seq + len(t[i]) /\ e(i) \in Int /\ b <= t[i].seq
                        /\ t[i].seq <= e(i)
  BY SMTT(30), <1>1, <1>2, <1>3
<1>5. \A i \in 1 .. n : i - 1 \in 0 .. n /\ e(i - 1) = t[i].seq
  <2> SUFFICES ASSUME NEW i \in 1 .. n
               PROVE  i - 1 \in 0 .. n /\ e(i - 1) = t[i].seq
    OBVIOUS
  <2>1. CASE i = 1
    BY <1>1, <2>1
  <2>2. CASE i # 1
    <3>1. i - 1 \in 1 .. n - 1 /\ i - 1 # 0 /\ (i - 1) + 1 = i
      BY <1>1, <2>2
    <3>2. t[(i - 1) + 1].seq = t[i - 1].seq + len(t[i - 1])
      BY Zenon, <3>1
    <3> QED
      BY <1>1, <3>1, <3>2
  <2> QED
    BY Zenon, <2>1, <2>2
<1>6. e(0) = b
  OBVIOUS
<1> HIDE DEF e
<1>7. f[0] = <<>>
  <2>1. 0 \in 0 .. n /\ b <= b
    BY <1>1, <1>3
  <2>2. Bytes(b, e(0)) = <<>>
    BY Zenon, <1>3, <1>6, <2>1, BytesEmpty
  <2> QED
    BY Zenon, <2>1, <2>2
<1>8. ASSUME NEW i \in 1 .. n
      PROVE  f[i] = f[i - 1] \o t[i].d
  <2>1. i \in 0 .. n /\ i - 1 \in 0 .. n
    BY <1>1
  <2>2. f[i] = Bytes(b, e(i)) /\ f[i - 1] = Bytes(b, t[i].seq) /\ t[i].d = Bytes(t[i].seq, e(i))
    BY Zenon, <1>2, <1>4, <1>5, <2>1
  <2>3. Bytes(b, t[i].seq) \o Bytes(t[i].seq, e(i)) = Bytes(b, e(i))
    <3>1. t[i].seq \in Int /\ e(i) \in Int /\ b <= t[i].seq /\ t[i].seq <= e(i)
      BY Zenon, <1>2, <1>4
    <3> DEFINE x == e(i)
               y == t[i].seq
    <3>2. x \in Int /\ y \in Int /\ b <= y /\ y <= x
      BY Zenon, <3>1
    <3> HIDE DEF b, x, y
    <3>3. Bytes(b, y) \o Bytes(y, x) = Bytes(b, x)
      BY Zenon, <1>3, <3>2, BytesJoin
    <3> QED
      BY Zenon, <3>3 DEF x, y
  <2> QED
    BY Zenon, <2>2, <2>3
<1>9. f[n] = Bytes(b, t[n].seq + len(t[n]))
  <2>1. n \in 1 .. n /\ n \in 0 .. n
    BY <1>1
  <2> QED
    BY Zenon, <1>4, <2>1
<1>10. f = [i \in 0 .. n |-> IF i = 0 THEN <<>> ELSE f[i - 1] \o t[i].d]
  <2> DEFINE h == [i \in 0 .. n |-> IF i = 0 THEN <<>> ELSE f[i - 1] \o t[i].d]
  <2>1. \A i \in 0 .. n : f[i] = IF i = 0 THEN <<>> ELSE f[i - 1] \o t[i].d
    <3> HIDE DEF f
    <3>1. \A i \in 0 .. n : i = 0 \/ i \in 1 .. n
      BY <1>1
    <3> QED
      BY Zenon, <3>1, <1>7, <1>8
  <2>2. \A i \in 0 .. n : f[i] = h[i]
    <3> HIDE DEF f
    <3> QED
      BY Zenon, <2>1
  <2>3. f = [i \in 0 .. n |-> f[i]]
    OBVIOUS
  <2>4. h = [i \in 0 .. n |-> h[i]]
    <3> HIDE DEF f
    <3> QED
      OBVIOUS
  <2>5. f = h
    <3> HIDE DEF f, h
    <3> QED
      BY Zenon, <2>2, <2>3, <2>4
  <2> QED
    BY Zenon, <2>5
<1> HIDE DEF f
<1>11. PICK g : /\ g = [i \in 0 .. n |-> IF i = 0 THEN <<>> ELSE g[i - 1] \o t[i].d]
                /\ Text(t) = g[n]
  BY Zenon, <1>10, TextUnfolds
<1>12. \A i \in 0 .. n : g[i] = IF i = 0 THEN <<>> ELSE g[i - 1] \o t[i].d
  BY Zenon, <1>11
<1> DEFINE T == {i \in 0 .. n : g[i] # f[i]}
<1>13. ASSUME T # {}
       PROVE  FALSE
  <2>1. T \in SUBSET Nat
    BY <1>1
  <2>2. PICK m \in T : \A j \in T : m <= j
    <3> HIDE DEF T
    <3> QED
      BY Zenon, <1>13, <2>1, NatMinimum
  <2>3. m \in 0 .. n /\ g[m] # f[m]
    BY Zenon, <2>2
  <2>4. 0 \in 0 .. n
    BY <1>1
  <2>5. m # 0
    BY Zenon, <1>7, <1>12, <2>3, <2>4
  <2>6. m \in 1 .. n /\ m - 1 \in 0 .. n /\ ~(m <= m - 1)
    BY <1>1, <2>3, <2>5
  <2>7. m - 1 \notin T
    BY Zenon, <2>2, <2>6
  <2>8. g[m - 1] = f[m - 1]
    BY Zenon, <2>6, <2>7
  <2>9. g[m] = g[m - 1] \o t[m].d
    BY ZenonT(60), <1>12, <2>3, <2>5
  <2>10. f[m] = f[m - 1] \o t[m].d
    BY Zenon, <1>8, <2>6
  <2> QED
    BY Zenon, <2>3, <2>8, <2>9, <2>10
<1>14. g[n] = f[n]
  <2>1. n \in 0 .. n
    BY <1>1
  <2> QED
    BY Zenon, <1>13, <2>1
<1> QED
  BY Zenon, <1>9, <1>11, <1>14

(* Consecutive counts the segments at the head of a queue that follow each  *)
(* other from a position on.                                                *)
LEMMA ConsecutiveRight ==
  ASSUME NatFacts, NEW q \in Seq(Good), NEW from \in Int
  PROVE  LET k == Consecutive(q, from)
             begins(i) == q[i].seq = (IF i = 1 THEN from
                                      ELSE q[i - 1].seq + TCPLEN(q[i - 1]))
         IN /\ k \in 0 .. Len(q)
            /\ \A i \in 1 .. k : begins(i)
            /\ k = Len(q) \/ ~begins(k + 1)
<1> DEFINE begins(i) == q[i].seq = (IF i = 1 THEN from
                                    ELSE q[i - 1].seq + TCPLEN(q[i - 1]))
           P(k) == (\A i \in 1 .. k : begins(i)) /\ (k = Len(q) \/ ~begins(k + 1))
           T == {k \in 0 .. Len(q) : k = Len(q) \/ ~begins(k + 1)}
<1>1. T \in SUBSET Nat /\ Len(q) \in T /\ T \subseteq 0 .. Len(q)
  <2> HIDE DEF begins
  <2> QED
    OBVIOUS
<1>2. PICK m \in 0 .. Len(q) : m \in T /\ \A n \in T : m <= n
  <2> HIDE DEF T
  <2> QED
    BY Zenon, <1>1, NatMinimum
<1>3. ASSUME NEW i \in 1 .. m
      PROVE  begins(i)
  <2> HIDE DEF begins
  <2>1. i - 1 \in 0 .. Len(q) /\ i - 1 # Len(q) /\ (i - 1) + 1 = i /\ ~(m <= i - 1)
    OBVIOUS
  <2>2. i - 1 \notin T
    BY Zenon, <1>2, <2>1
  <2> QED
    BY Zenon, <2>1, <2>2
<1>4. P(m)
  BY Zenon, <1>2, <1>3
<1>5. Consecutive(q, from) = CHOOSE k \in 0 .. Len(q) : P(k)
  BY Zenon DEF Consecutive
<1> HIDE DEF P
<1>6. Consecutive(q, from) \in 0 .. Len(q) /\ P(Consecutive(q, from))
  BY Zenon, <1>4, <1>5
<1> QED
  BY Zenon, <1>6 DEF P

(* The segments at the head of a queue that follow a piece without a gap,   *)
(* taken with it, and what stays behind: the heart of tcp_receive on a      *)
(* segment in sequence.                                                     *)
LEMMA TakenRight ==
  ASSUME NatFacts, NEW piece \in Good, NEW rest, NEW hi \in Int, End(piece) <= hi,
         SortedIn(rest, End(piece), hi), piece.fin => rest = <<>>
  PROVE  LET k == Consecutive(rest, End(piece))
             taken == <<piece>> \o SubSeq(rest, 1, k)
             last == taken[Len(taken)]
         IN /\ taken \in Seq(Good) /\ Len(taken) = k + 1 /\ last = taken[k + 1]
            /\ last \in Good /\ End(last) > piece.seq /\ End(last) <= hi
            /\ (\E i \in DOMAIN taken : taken[i].fin) <=> last.fin
            /\ Text(taken) = Bytes(piece.seq, last.seq + len(last))
            /\ piece.seq <= last.seq
            /\ SortedIn(SubSeq(rest, k + 1, Len(rest)), End(last) + 1, hi)
<1> DEFINE k == Consecutive(rest, End(piece))
           part == SubSeq(rest, 1, k)
           taken == <<piece>> \o part
           last == taken[Len(taken)]
           begins(i) == rest[i].seq = (IF i = 1 THEN End(piece)
                                       ELSE rest[i - 1].seq + TCPLEN(rest[i - 1]))
<1>1. /\ piece.seq \in Int /\ End(piece) \in Int /\ End(piece) > piece.seq
      /\ piece.seq <= End(piece) /\ piece.seq <= piece.seq /\ End(piece) <= End(piece)
  <2>1. piece.seq \in Nat /\ End(piece) \in Nat /\ End(piece) > piece.seq
    BY Zenon, GoodFields
  <2> QED
    BY <2>1
<1>2. rest \in Seq(Good) /\ Len(rest) \in Nat /\ \A i \in 1 .. Len(rest) : rest[i] \in Good
  BY Zenon, <1>1, SortedFields
<1>3. /\ k \in 0 .. Len(rest) /\ \A i \in 1 .. k : begins(i)
      /\ k = Len(rest) \/ ~begins(k + 1)
  BY Zenon, <1>1, <1>2, ConsecutiveRight
<1> HIDE DEF k
<1>4. k \in Nat /\ k <= Len(rest) /\ 1 \in Nat /\ 1 <= 1
  BY <1>2, <1>3
<1>5. SortedIn(part, End(piece), hi)
  <2>1. \A i \in 1 .. k : End(piece) <= rest[i].seq /\ End(rest[i]) <= hi
    <3>1. \A i \in 1 .. k : i \in 1 .. Len(rest)
      BY SMTT(30), <1>2, <1>4
    <3> QED
      BY Zenon, <3>1 DEF SortedIn
  <2> QED
    BY Zenon, <1>1, <1>4, <2>1, SortedPart
<1>6. part \in Seq(Good) /\ Len(part) = k /\ \A i \in 1 .. k : part[i] = rest[i]
  BY <1>2, <1>4
<1> HIDE DEF part
<1>7. SortedIn(<<piece>>, piece.seq, End(piece))
  BY Zenon, <1>1, SortedOne
<1>8. SortedIn(taken, piece.seq, hi)
  BY Zenon, <1>1, <1>5, <1>7, SortedJoin
<1>9. /\ taken \in Seq(Good) /\ Len(taken) = k + 1 /\ taken[1] = piece
      /\ \A i \in 1 .. k : taken[i + 1] = rest[i]
  <2> HIDE DEF Good
  <2> QED
    BY <1>4, <1>6
<1>10. last = taken[k + 1]
  BY Zenon, <1>9
<1> HIDE DEF taken, last
<1>11. k + 1 \in 1 .. Len(taken) /\ k + 1 \in Nat /\ \A i \in 1 .. k + 1 : taken[i] \in Good
  <2>1. k + 1 \in 1 .. Len(taken) /\ k + 1 \in Nat
    BY <1>4, <1>9
  <2> QED
    BY Zenon, <1>8, <1>1, <1>9, <2>1, SortedFields
<1>12. last \in Good /\ End(last) <= hi /\ piece.seq <= last.seq
  BY Zenon, <1>8, <1>9, <1>10, <1>11 DEF SortedIn
<1>13. last.seq \in Nat /\ len(last) \in Nat /\ End(last) \in Nat /\ End(last) > last.seq
  BY Zenon, <1>12, GoodFields
<1>14. \A i \in 1 .. k : ~taken[i].fin
  <2> SUFFICES ASSUME NEW i \in 1 .. k, taken[i].fin
               PROVE  FALSE
    OBVIOUS
  <2>1. i \in 1 .. Len(taken) /\ i # k + 1
    BY <1>4, <1>9
  <2>2. i = Len(taken)
    BY Zenon, <1>1, <1>8, <2>1, FinLast
  <2> QED
    BY Zenon, <1>9, <2>1, <2>2
<1>15. (\E i \in DOMAIN taken : taken[i].fin) <=> last.fin
  <2>1. DOMAIN taken = 1 .. k + 1
    BY <1>9
  <2>2. \A i \in 1 .. k + 1 : i = k + 1 \/ i \in 1 .. k
    BY <1>4
  <2>3. k + 1 \in 1 .. k + 1
    BY <1>4
  <2> QED
    BY Zenon, <1>10, <1>14, <2>1, <2>2, <2>3
<1>16. \A i \in 1 .. k : taken[i + 1].seq = taken[i].seq + len(taken[i])
  <2> SUFFICES ASSUME NEW i \in 1 .. k
               PROVE  taken[i + 1].seq = taken[i].seq + len(taken[i])
    OBVIOUS
  <2>1. taken[i] \in Good /\ ~taken[i].fin
    <3>1. i \in 1 .. k + 1
      BY <1>4
    <3> QED
      BY Zenon, <3>1, <1>11, <1>14
  <2>2. /\ End(taken[i]) = taken[i].seq + len(taken[i])
        /\ End(taken[i]) = taken[i].seq + TCPLEN(taken[i])
    BY Zenon, <2>1, GoodFields
  <2>3. begins(i) /\ taken[i + 1] = rest[i]
    BY Zenon, <1>3, <1>9
  <2>4. CASE i = 1
    BY Zenon, <1>9, <2>2, <2>3, <2>4
  <2>5. CASE i # 1
    <3>1. i - 1 \in 1 .. k /\ (i - 1) + 1 = i
      BY <1>4, <2>5
    <3>2. taken[i] = rest[i - 1]
      BY Zenon, <1>9, <3>1
    <3> QED
      BY Zenon, <2>2, <2>3, <2>5, <3>2
  <2> QED
    BY Zenon, <2>4, <2>5
<1>17. Text(taken) = Bytes(piece.seq, last.seq + len(last))
  <2>1. Len(taken) > 0 /\ 1 .. Len(taken) - 1 = 1 .. k
    BY <1>4, <1>9
  <2>2. \A i \in 1 .. Len(taken) : taken[1].seq <= taken[i].seq
    BY Zenon, <1>8, <1>9 DEF SortedIn
  <2>3. Text(taken) = Bytes(taken[1].seq, taken[Len(taken)].seq + len(taken[Len(taken)]))
    BY Zenon, <1>9, <1>16, <2>1, <2>2, TextRight
  <2> QED
    BY Zenon, <1>9, <1>10, <2>3
<1>18. \A j \in k + 1 .. Len(rest) : End(last) + 1 <= rest[j].seq /\ End(rest[j]) <= hi
  <2> SUFFICES ASSUME NEW j \in k + 1 .. Len(rest)
               PROVE  End(last) + 1 <= rest[j].seq /\ End(rest[j]) <= hi
    OBVIOUS
  <2>1. k + 1 \in 1 .. Len(rest) /\ j \in 1 .. Len(rest) /\ k # Len(rest) /\ k + 1 <= j
    BY <1>2, <1>4
  <2>2. End(rest[j]) <= hi
    BY Zenon, <2>1 DEF SortedIn
  <2>3. rest[k + 1] \in Good /\ rest[j] \in Good
    BY Zenon, <1>2, <2>1
  <2>4. /\ rest[k + 1].seq \in Nat /\ rest[j].seq \in Nat
        /\ End(rest[k + 1]) \in Nat /\ End(rest[k + 1]) > rest[k + 1].seq
    BY Zenon, <2>3, GoodFields
  <2>5. End(last) # rest[k + 1].seq /\ End(last) <= rest[k + 1].seq
    <3>1. ~begins(k + 1)
      BY Zenon, <1>3, <2>1
    <3>2. CASE k = 0
      <4>1. last = piece /\ k + 1 = 1
        BY <1>9, <1>10, <3>2
      <4>2. End(piece) <= rest[k + 1].seq
        BY Zenon, <2>1 DEF SortedIn
      <4> QED
        BY Zenon, <3>1, <4>1, <4>2
    <3>3. CASE k # 0
      <4>1. k \in 1 .. k /\ k \in 1 .. Len(rest) /\ k < k + 1 /\ (k + 1) - 1 = k /\ k + 1 # 1
        BY SMTT(30), <1>2, <1>4, <3>3
      <4>2. last = rest[k]
        BY Zenon, <1>9, <1>10, <4>1
      <4>3. End(rest[k]) <= rest[k + 1].seq
        BY Zenon, <2>1, <4>1 DEF SortedIn
      <4>4. rest[k + 1].seq # rest[k].seq + TCPLEN(rest[k])
        BY Zenon, <3>1, <4>1
      <4>5. End(rest[k]) = rest[k].seq + TCPLEN(rest[k])
        BY Zenon DEF End
      <4> QED
        BY ZenonT(60), <4>2, <4>3, <4>4, <4>5
    <3> QED
      BY Zenon, <3>2, <3>3
  <2>6. CASE j = k + 1
    BY SMTT(30), <1>13, <2>2, <2>4, <2>5, <2>6
  <2>7. CASE k + 1 < j
    <3>1. End(rest[k + 1]) <= rest[j].seq
      BY Zenon, <2>1, <2>7 DEF SortedIn
    <3> QED
      BY SMTT(30), <1>13, <2>2, <2>4, <2>5, <3>1
  <2> QED
    BY SMTT(30), <1>4, <2>1, <2>6, <2>7
<1>19. SortedIn(SubSeq(rest, k + 1, Len(rest)), End(last) + 1, hi)
  <2>1. k + 1 \in Nat /\ 1 <= k + 1 /\ Len(rest) <= Len(rest) /\ End(last) + 1 \in Int
    BY <1>2, <1>4, <1>13
  <2> QED
    BY Zenon, <1>1, <1>2, <1>18, <2>1, SortedPart
<1>20. End(last) > piece.seq
  BY <1>1, <1>12, <1>13
<1> QED
  BY ZenonT(60), <1>9, <1>10, <1>12, <1>15, <1>17, <1>19, <1>20 DEF k, part, taken, last

(* tcp_receive on a segment in sequence takes it, with what follows it in   *)
(* ooseq, out of the window: the text is the next piece of the stream, and  *)
(* the FIN comes with its last byte.                                        *)
LEMMA InSequenceRight ==
  ASSUME NatFacts, NEW c \in Pcb, NEW s \in Good, s.seq = c.nxt, End(s) <= c.nxt + c.wnd,
         SortedIn(c.ooseq, c.nxt + 1, c.nxt + c.wnd)
  PROVE  \E to \in Nat, fin \in BOOLEAN : \E left :
           /\ InSequence(c, s) =
                [pcb |-> tcp_update_rcv_ann_wnd(
                           [c EXCEPT !.nxt = to, !.wnd = (c.nxt + c.wnd) - to,
                                     !.ooseq = left]),
                 data |-> Bytes(c.nxt, IF fin THEN N ELSE to), fin |-> fin,
                 sent |-> FALSE, now |-> c.delack]
           /\ c.nxt < to /\ to <= c.nxt + c.wnd
           /\ to <= N + 1 /\ (fin <=> to = N + 1)
           /\ SortedIn(left, to + 1, c.nxt + c.wnd)
<1> DEFINE hi == c.nxt + c.wnd
           q == c.ooseq
           end == s.seq + TCPLEN(s)
           rest == IF s.fin THEN <<>> ELSE AfterCovered(q, end)
           joined == [s EXCEPT !.fin = s.fin \/ TakesFin(q, end)]
           piece == IF rest # <<>> /\ end > Head(rest).seq
                    THEN Cut(joined, Head(rest).seq - s.seq) ELSE joined
           k == Consecutive(rest, s.seq + TCPLEN(piece))
           taken == <<piece>> \o SubSeq(rest, 1, k)
           last == taken[Len(taken)]
           total == last.seq + TCPLEN(last) - s.seq
           left == SubSeq(rest, k + 1, Len(rest))
           fin == \E i \in DOMAIN taken : taken[i].fin
<1>1. c.nxt \in Nat /\ c.wnd \in Nat /\ hi \in Int /\ c.nxt + 1 \in Int /\ N \in Nat
  BY SMTT(30), TcpReceiveAssumption DEF Pcb
<1>2. /\ s.seq \in Nat /\ len(s) \in Nat /\ s.seq + len(s) <= N /\ s.fin \in BOOLEAN
      /\ End(s) = s.seq + TCPLEN(s) /\ TCPLEN(s) \in Nat /\ End(s) > s.seq /\ End(s) \in Nat
      /\ TCPLEN(s) = IF s.fin THEN len(s) + 1 ELSE len(s)
  BY Zenon, GoodFields
<1>4. InSequence(c, s) =
        [pcb |-> tcp_update_rcv_ann_wnd([c EXCEPT !.nxt = c.nxt + total,
                                                  !.wnd = c.wnd - total, !.ooseq = left]),
         data |-> Text(taken), fin |-> fin, sent |-> FALSE, now |-> c.delack]
  BY Zenon DEF InSequence
<1>5. /\ piece \in Good /\ piece.seq = s.seq /\ End(piece) <= hi
      /\ SortedIn(rest, End(piece), hi) /\ (piece.fin => rest = <<>>)
  <2>1. CASE s.fin
    <3>1. rest = <<>>
      BY Zenon, <2>1
    <3>2. joined = s
      <4>1. (s.fin \/ TakesFin(q, end)) = s.fin
        BY Zenon, <1>2, <2>1
      <4>2. joined = [s EXCEPT !.fin = s.fin]
        BY Zenon, <4>1
      <4> QED
        BY Zenon, <4>2 DEF Good
    <3>3. piece = s
      BY Zenon, <3>1, <3>2
    <3>4. <<>> \in Seq(Good) /\ 1 .. Len(<<>>) = {}
      OBVIOUS
    <3>5. SortedIn(<<>>, End(piece), hi)
      BY Zenon, <3>4 DEF SortedIn
    <3> HIDE DEF piece, rest
    <3> QED
      BY Zenon, <3>1, <3>3, <3>5
  <2>2. CASE ~s.fin
    <3>1. end = s.seq + len(s) /\ rest = AfterCovered(q, s.seq + len(s))
      BY Zenon, <1>2, <2>2
    <3>2. s.seq + len(s) \in Int
      BY <1>2
    <3>3. /\ TakesFin(q, s.seq + len(s)) \in BOOLEAN
          /\ SortedIn(rest, c.nxt + 1, hi)
      <4> HIDE DEF rest
      <4> QED
        BY Zenon, <1>1, <1>2, <3>1, <3>2, RestRight
    <3>4. joined = [s EXCEPT !.fin = TakesFin(q, s.seq + len(s))]
      <4>1. (s.fin \/ TakesFin(q, end)) = TakesFin(q, s.seq + len(s))
        BY Zenon, <2>2, <3>1, <3>3
      <4> QED
        BY Zenon, <4>1
    <3>5. piece = Placed(s, q)
      BY Zenon, <3>1, <3>4 DEF Placed
    <3>6. rest # <<>> => rest[1].seq > s.seq
      <4> SUFFICES ASSUME rest # <<>>
                   PROVE  rest[1].seq > s.seq
        OBVIOUS
      <4> HIDE DEF rest
      <4>1. rest[1] \in Good /\ Len(rest) > 0
        BY Zenon, <1>1, <1>2, <3>1, <3>2, RestRight
      <4>2. rest[1].seq \in Nat
        BY Zenon, <4>1, GoodFields
      <4>3. Len(rest) \in Nat
        BY Zenon, <1>1, <3>3, SortedFields
      <4>4. 1 \in 1 .. Len(rest)
        BY <4>1, <4>3
      <4>5. c.nxt + 1 <= rest[1].seq
        BY Zenon, <3>3, <4>4 DEF SortedIn
      <4> QED
        BY SMTT(30), <1>1, <4>2, <4>5
    <3> HIDE DEF piece, rest
    <3> QED
      BY ZenonT(60), <1>1, <2>2, <3>1, <3>5, <3>6, PlacedRight
  <2> QED
    BY Zenon, <1>2, <2>1, <2>2
<1>6. s.seq + TCPLEN(piece) = End(piece)
  BY Zenon, <1>5 DEF End
<1> HIDE DEF piece, rest, hi
<1>7. /\ last \in Good /\ End(last) > piece.seq /\ End(last) <= hi
      /\ fin <=> last.fin
      /\ Text(taken) = Bytes(piece.seq, last.seq + len(last))
      /\ SortedIn(left, End(last) + 1, hi)
  BY ZenonT(60), <1>1, <1>5, <1>6, TakenRight
<1>f. fin \in BOOLEAN
  BY Zenon
<1> HIDE DEF k, taken, last, left, fin
<1>8. /\ last.seq \in Nat /\ len(last) \in Nat /\ last.seq + len(last) <= N
      /\ End(last) = last.seq + TCPLEN(last) /\ TCPLEN(last) \in Nat /\ End(last) \in Nat
      /\ last.fin \in BOOLEAN /\ (last.fin => last.seq + len(last) = N)
      /\ End(last) = IF last.fin THEN last.seq + len(last) + 1 ELSE last.seq + len(last)
  BY Zenon, <1>7, GoodFields
<1> DEFINE to == End(last)
<1>9. c.nxt + total = to /\ c.wnd - total = (c.nxt + c.wnd) - to
  BY SMTT(30), <1>1, <1>2, <1>8
<1>10. /\ c.nxt < to /\ to <= c.nxt + c.wnd /\ to <= N + 1 /\ (fin <=> to = N + 1)
       /\ last.seq + len(last) = IF fin THEN N ELSE to
  <2>1. c.nxt < to /\ to <= c.nxt + c.wnd
    BY Zenon, <1>1, <1>5, <1>7, <1>8 DEF hi
  <2>2. CASE fin
    BY SMTT(30), <1>1, <1>7, <1>8, <2>1, <2>2
  <2>3. CASE ~fin
    BY SMTT(30), <1>1, <1>7, <1>8, <2>1, <2>3
  <2> QED
    BY Zenon, <2>2, <2>3
<1>11. Text(taken) = Bytes(c.nxt, IF fin THEN N ELSE to)
  BY Zenon, <1>5, <1>7, <1>10
<1>12. SortedIn(left, to + 1, c.nxt + c.wnd)
  BY Zenon, <1>7 DEF hi
<1>13. to \in Nat
  BY Zenon, <1>8
<1> HIDE DEF total, to
<1>14. InSequence(c, s) =
         [pcb |-> tcp_update_rcv_ann_wnd([c EXCEPT !.nxt = to, !.wnd = (c.nxt + c.wnd) - to,
                                                   !.ooseq = left]),
          data |-> Bytes(c.nxt, IF fin THEN N ELSE to), fin |-> fin,
          sent |-> FALSE, now |-> c.delack]
  BY ZenonT(60), <1>4, <1>9, <1>11
<1> QED
  BY ZenonT(60), <1>f, <1>10, <1>12, <1>13, <1>14

-----------------------------------------------------------------------------

(* What holds of the pcb within and between the handlers: what is announced *)
(* fits the window and reaches at least as far as what was announced.       *)
Core(c) ==
  /\ c \in Pcb
  /\ c.ann <= c.wnd /\ c.edge <= c.nxt + c.ann /\ c.nxt <= N + 1
  /\ SortedIn(c.ooseq, c.nxt + 1, c.nxt + c.wnd)

(* The types of the fields of a pcb.                                        *)
LEMMA PcbFields ==
  ASSUME NEW c \in Pcb
  PROVE  /\ c.nxt \in Nat /\ c.wnd \in Nat /\ c.ann \in Nat /\ c.edge \in Nat
         /\ c.ooseq \in Seq(Good) /\ c.refused \in Seq(Int)
         /\ c.rfin \in BOOLEAN /\ c.delack \in BOOLEAN /\ c.eof \in BOOLEAN
BY Zenon DEF Pcb

(* tcp_update_rcv_ann_wnd announces what fits the window and does not take  *)
(* back what was announced.                                                 *)
LEMMA UpdateRight ==
  ASSUME NEW c \in Pcb, c.edge <= c.nxt + c.wnd, c.nxt <= N + 1,
         SortedIn(c.ooseq, c.nxt + 1, c.nxt + c.wnd)
  PROVE  LET u == tcp_update_rcv_ann_wnd(c)
         IN /\ Core(u)
            /\ u.nxt = c.nxt /\ u.wnd = c.wnd /\ u.edge = c.edge /\ u.refused = c.refused
            /\ u.rfin = c.rfin /\ u.eof = c.eof /\ u.delack = c.delack
<1> DEFINE u == tcp_update_rcv_ann_wnd(c)
           a == IF Inflated(c) THEN c.wnd ELSE Larger(0, c.edge - c.nxt)
<1>1. /\ c.nxt \in Nat /\ c.wnd \in Nat /\ c.ann \in Nat /\ c.edge \in Nat
      /\ TCP_WND \div 2 \in Nat /\ MSS \in Nat
  BY SMTT(30), PcbFields, TcpReceiveAssumption
<1>2. a \in Nat /\ a <= c.wnd /\ c.edge <= c.nxt + a
  <2>1. CASE Inflated(c)
    <3>1. c.edge <= c.nxt + c.wnd
      OBVIOUS
    <3> QED
      BY <1>1, <2>1, <3>1
  <2>2. CASE ~Inflated(c)
    BY <1>1, <2>2 DEF Larger
  <2> QED
    BY Zenon, <2>1, <2>2
<1>3. u = [c EXCEPT !.ann = a]
  BY Zenon DEF tcp_update_rcv_ann_wnd
<1> HIDE DEF a, u
<1>4. /\ u \in Pcb /\ u.ann = a
      /\ u.nxt = c.nxt /\ u.wnd = c.wnd /\ u.edge = c.edge /\ u.refused = c.refused
      /\ u.rfin = c.rfin /\ u.eof = c.eof /\ u.delack = c.delack /\ u.ooseq = c.ooseq
  BY Zenon, <1>2, <1>3 DEF Pcb
<1>5. Core(u)
  BY Zenon, <1>2, <1>4 DEF Core
<1> QED
  BY Zenon, <1>4, <1>5 DEF u

(* tcp_send_empty_ack announces the right edge: it moves forward or stays.  *)
LEMMA SendRight ==
  ASSUME NEW c, Core(c)
  PROVE  LET u == tcp_send_empty_ack(c)
         IN /\ Core(u)
            /\ u.edge = u.nxt + u.ann /\ c.edge <= u.edge
            /\ u.nxt = c.nxt /\ u.wnd = c.wnd /\ u.ann = c.ann /\ u.refused = c.refused
            /\ u.rfin = c.rfin /\ u.eof = c.eof /\ u.delack = FALSE /\ u.ooseq = c.ooseq
<1> DEFINE u == tcp_send_empty_ack(c)
<1>1. c \in Pcb /\ c.nxt \in Nat /\ c.ann \in Nat /\ c.edge <= c.nxt + c.ann
  BY Zenon, PcbFields DEF Core
<1>2. c.nxt + c.ann \in Nat
  BY <1>1
<1>3. u = [[c EXCEPT !.edge = c.nxt + c.ann] EXCEPT !.delack = FALSE]
  BY Zenon DEF tcp_send_empty_ack, tcp_output_alloc_header
<1> HIDE DEF u
<1>4. /\ u \in Pcb /\ u.edge = c.nxt + c.ann /\ u.delack = FALSE
      /\ u.nxt = c.nxt /\ u.wnd = c.wnd /\ u.ann = c.ann /\ u.refused = c.refused
      /\ u.rfin = c.rfin /\ u.eof = c.eof /\ u.ooseq = c.ooseq
  BY Zenon, <1>1, <1>2, <1>3 DEF Pcb
<1>5. u.edge <= u.nxt + u.ann
  BY <1>1, <1>2, <1>4
<1>6. Core(u)
  BY Zenon, <1>4, <1>5 DEF Core
<1> QED
  BY Zenon, <1>1, <1>4, <1>6 DEF u

(* What tcp_receive makes of a pcb c: data are the next bytes of the        *)
(* stream, and the window has moved over them.                              *)
Received(c, r) ==
  /\ Core(r.pcb)
  /\ r.fin \in BOOLEAN /\ r.sent \in BOOLEAN /\ r.now \in BOOLEAN
  /\ r.data = Bytes(c.nxt, IF r.fin THEN N ELSE r.pcb.nxt)
  /\ c.nxt <= r.pcb.nxt /\ r.pcb.nxt + r.pcb.wnd = c.nxt + c.wnd
  /\ r.fin => ~c.eof
  /\ (r.fin \/ c.eof) <=> r.pcb.nxt = N + 1
  /\ c.edge <= r.pcb.edge
  /\ r.sent => ~r.fin /\ r.pcb.nxt = c.nxt /\ r.pcb.edge = r.pcb.nxt + r.pcb.ann
  /\ r.pcb.refused = c.refused /\ r.pcb.rfin = c.rfin /\ r.pcb.eof = c.eof

(* Nothing is received when rcv_nxt stays and no FIN is told.               *)
LEMMA NothingReceived ==
  ASSUME NEW c \in Pcb, NEW r, Core(r.pcb), r.fin = FALSE,
         r.sent \in BOOLEAN, r.now \in BOOLEAN, r.data = <<>>,
         r.pcb.nxt = c.nxt, r.pcb.wnd = c.wnd, c.edge <= r.pcb.edge,
         c.eof <=> c.nxt = N + 1,
         r.sent => r.pcb.edge = r.pcb.nxt + r.pcb.ann,
         r.pcb.refused = c.refused, r.pcb.rfin = c.rfin, r.pcb.eof = c.eof
  PROVE  Received(c, r)
<1>1. c.nxt \in Int /\ c.nxt <= c.nxt
  BY PcbFields
<1>2. Bytes(c.nxt, c.nxt) = <<>>
  BY Zenon, <1>1, BytesEmpty
<1> QED
  BY Zenon, <1>1, <1>2 DEF Received

(* A segment that is only acknowledged.                                     *)
LEMMA NotCopiedRight ==
  ASSUME NEW c, Core(c), c.eof <=> c.nxt = N + 1
  PROVE  Received(c, NotCopied(c))
<1> DEFINE u == tcp_send_empty_ack(c)
           r == NotCopied(c)
<1>1. c \in Pcb
  BY Zenon DEF Core
<1>2. r.pcb = u /\ r.data = <<>> /\ r.fin = FALSE /\ r.sent = TRUE /\ r.now = FALSE
  BY Zenon DEF NotCopied
<1> HIDE DEF r, u
<1>3. /\ Core(u) /\ u.edge = u.nxt + u.ann /\ c.edge <= u.edge /\ u.nxt = c.nxt
      /\ u.wnd = c.wnd /\ u.refused = c.refused /\ u.rfin = c.rfin /\ u.eof = c.eof
  BY Zenon, SendRight DEF u
<1>4. r.sent \in BOOLEAN /\ r.now \in BOOLEAN
  BY Zenon, <1>2
<1> QED
  BY Zenon, <1>1, <1>2, <1>3, <1>4, NothingReceived DEF r

(* tcp_receive on a segment that the peer was allowed to send.              *)
LEMMA ReceiveRight ==
  ASSUME NatFacts, NEW c, Core(c), c.eof <=> c.nxt = N + 1, NEW s \in Good,
         End(s) <= c.nxt + c.wnd \/ TCPLEN(s) = 1
  PROVE  Received(c, tcp_receive(c, s))
<1> DEFINE r == tcp_receive(c, s)
           t == FrontCut(c, s)
           hi == c.nxt + c.wnd
<1>1. /\ c \in Pcb /\ c.nxt \in Nat /\ c.wnd \in Nat /\ c.ann \in Nat /\ c.edge \in Nat
      /\ c.delack \in BOOLEAN /\ c.eof \in BOOLEAN
      /\ hi \in Int /\ c.nxt + 1 \in Int /\ N \in Nat
      /\ c.ann <= c.wnd /\ c.edge <= c.nxt + c.ann /\ c.nxt <= N + 1
      /\ c.edge <= c.edge
  <2>1. c \in Pcb /\ c.ann <= c.wnd /\ c.edge <= c.nxt + c.ann /\ c.nxt <= N + 1
    BY Zenon DEF Core
  <2>2. /\ c.nxt \in Nat /\ c.wnd \in Nat /\ c.ann \in Nat /\ c.edge \in Nat
        /\ c.delack \in BOOLEAN /\ c.eof \in BOOLEAN
    BY Zenon, <2>1, PcbFields
  <2>3. N \in Nat
    BY Zenon, TcpReceiveAssumption
  <2>4. hi \in Int /\ c.nxt + 1 \in Int /\ c.edge <= c.edge
    BY <2>2
  <2> QED
    BY Zenon, <2>1, <2>2, <2>3, <2>4
<1>2. SortedIn(c.ooseq, c.nxt + 1, hi)
  BY Zenon DEF Core
<1>3. t \in Good /\ End(t) = End(s) /\ (End(t) <= hi \/ (t = s /\ TCPLEN(s) = 1))
  <2>1. /\ s.seq \in Nat /\ TCPLEN(s) \in Nat /\ End(s) = s.seq + TCPLEN(s) /\ End(s) \in Nat
    BY Zenon, GoodFields
  <2>2. CASE c.nxt \in s.seq + 1 .. s.seq + TCPLEN(s) - 1
    <3>1. c.nxt > s.seq /\ c.nxt < End(s) /\ TCPLEN(s) # 1
      BY <1>1, <2>1, <2>2
    <3>2. t \in Good /\ End(t) = End(s)
      BY Zenon, <1>1, <3>1, FrontCutGood
    <3> QED
      BY Zenon, <3>1, <3>2
  <2>3. CASE ~(c.nxt \in s.seq + 1 .. s.seq + TCPLEN(s) - 1)
    <3>1. t = s
      BY Zenon, <2>3 DEF FrontCut
    <3> QED
      BY Zenon, <3>1
  <2> QED
    BY Zenon, <2>2, <2>3
<1>4. /\ t.seq \in Nat /\ End(t) \in Nat /\ TCPLEN(t) \in Nat /\ End(t) = t.seq + TCPLEN(t)
      /\ End(t) > t.seq
  BY Zenon, <1>3, GoodFields
<1> HIDE DEF t, hi
<1>5. CASE c.eof
  <2>1. r = [pcb |-> c, data |-> <<>>, fin |-> FALSE, sent |-> FALSE,
             now |-> s.seq \notin c.nxt .. c.nxt + c.wnd - 1]
    BY Zenon, <1>5 DEF tcp_receive
  <2> HIDE DEF r
  <2>2. /\ r.pcb = c /\ r.data = <<>> /\ r.fin = FALSE /\ r.sent = FALSE
        /\ r.now = (s.seq \notin c.nxt .. c.nxt + c.wnd - 1)
    BY Zenon, <2>1
  <2>3. r.sent \in BOOLEAN /\ r.now \in BOOLEAN /\ ~r.sent
    BY Zenon, <2>2
  <2> QED
    BY Zenon, <1>1, <2>2, <2>3, NothingReceived DEF r
<1>6. CASE ~c.eof /\ t.seq \notin c.nxt .. c.nxt + c.wnd - 1
  <2> DEFINE u == tcp_send_empty_ack(c)
  <2>1. r = [pcb |-> u, data |-> <<>>, fin |-> FALSE, sent |-> TRUE, now |-> FALSE]
    BY Zenon, <1>6 DEF tcp_receive, t
  <2> HIDE DEF r, u
  <2>2. r.pcb = u /\ r.data = <<>> /\ r.fin = FALSE /\ r.sent = TRUE /\ r.now = FALSE
    BY Zenon, <2>1
  <2>3. /\ Core(u) /\ u.edge = u.nxt + u.ann /\ c.edge <= u.edge /\ u.nxt = c.nxt
        /\ u.wnd = c.wnd /\ u.refused = c.refused /\ u.rfin = c.rfin /\ u.eof = c.eof
    BY Zenon, SendRight DEF u
  <2>4. r.sent \in BOOLEAN /\ r.now \in BOOLEAN
    BY Zenon, <2>2
  <2> QED
    BY Zenon, <1>1, <2>2, <2>3, <2>4, NothingReceived DEF r
<1>7. CASE ~c.eof /\ t.seq \in c.nxt .. c.nxt + c.wnd - 1
  <2>1. t.seq < hi /\ c.nxt <= t.seq
    BY <1>1, <1>4, <1>7 DEF hi
  <2>2. End(t) <= hi
    <3>1. CASE End(t) <= hi
      BY Zenon, <3>1
    <3>2. CASE t = s /\ TCPLEN(s) = 1
      <4>1. End(t) = t.seq + 1
        BY Zenon, <1>4, <3>2
      <4> QED
        BY SMTT(30), <1>1, <1>4, <2>1, <4>1
    <3> QED
      BY Zenon, <1>3, <3>1, <3>2
  <2>3. CASE t.seq # c.nxt
    <3> DEFINE u == tcp_send_empty_ack(c)
               v == Queue(u, t)
    <3>1. r = [pcb |-> v, data |-> <<>>, fin |-> FALSE, sent |-> TRUE, now |-> FALSE]
      BY Zenon, <1>7, <2>3 DEF tcp_receive, t
    <3> HIDE DEF r, u
    <3>2. r.pcb = v /\ r.data = <<>> /\ r.fin = FALSE /\ r.sent = TRUE /\ r.now = FALSE
      BY Zenon, <3>1
    <3>3. /\ Core(u) /\ u.edge = u.nxt + u.ann /\ c.edge <= u.edge /\ u.nxt = c.nxt
          /\ u.wnd = c.wnd /\ u.refused = c.refused /\ u.rfin = c.rfin /\ u.eof = c.eof
          /\ u.ooseq = c.ooseq
      BY Zenon, SendRight DEF u
    <3>4. u \in Pcb
      BY Zenon, <3>3 DEF Core
    <3>5. c.nxt + 1 <= t.seq
      BY <1>1, <1>4, <2>1, <2>3
    <3>6. SortedIn(v.ooseq, c.nxt + 1, hi)
      <4>1. SortedIn(u.ooseq, c.nxt + 1, u.nxt + u.wnd) /\ End(t) <= u.nxt + u.wnd
        BY Zenon, <1>2, <2>2, <3>3 DEF hi
      <4>2. SortedIn(v.ooseq, c.nxt + 1, u.nxt + u.wnd)
        BY Zenon, <1>1, <1>3, <3>4, <3>5, <4>1, QueueSorted
      <4> QED
        BY Zenon, <3>3, <4>2 DEF hi
    <3>7. /\ v \in Pcb /\ v.edge = u.edge /\ v.ann = u.ann /\ v.nxt = u.nxt /\ v.wnd = u.wnd
          /\ v.refused = u.refused /\ v.rfin = u.rfin /\ v.eof = u.eof
      <4>1. PICK new : v = [u EXCEPT !.ooseq = new]
        BY Zenon DEF Queue
      <4>2. v.ooseq \in Seq(Good)
        BY Zenon, <3>6 DEF SortedIn
      <4> HIDE DEF v
      <4>3. v.ooseq = new
        BY Zenon, <3>4, <4>1 DEF Pcb
      <4> HIDE DEF Good
      <4>4. new \in Seq(Good)
        BY Zenon, <4>2, <4>3
      <4> QED
        BY Zenon, <3>4, <4>1, <4>4 DEF Pcb
    <3> HIDE DEF v
    <3>8. Core(v)
      <4>1. v.ann <= v.wnd /\ v.edge <= v.nxt + v.ann /\ v.nxt <= N + 1
        BY Zenon, <3>3, <3>7 DEF Core
      <4>2. SortedIn(v.ooseq, v.nxt + 1, v.nxt + v.wnd)
        BY Zenon, <3>3, <3>6, <3>7 DEF hi
      <4> QED
        BY Zenon, <3>7, <4>1, <4>2 DEF Core
    <3>9. r.sent \in BOOLEAN /\ r.now \in BOOLEAN
      BY Zenon, <3>2
    <3> QED
      BY ZenonT(60), <1>1, <3>2, <3>3, <3>7, <3>8, <3>9, NothingReceived DEF r
  <2>4. CASE t.seq = c.nxt
    <3>1. Trimmed(c, t) = t
      <4>1. ~(TCPLEN(t) > c.wnd)
        BY <1>1, <1>4, <2>2, <2>4 DEF hi
      <4> QED
        BY Zenon, <4>1 DEF Trimmed
    <3>2. r = InSequence(c, t)
      <4>1. r = InSequence(c, Trimmed(c, t))
        BY Zenon, <1>7, <2>4 DEF tcp_receive, t
      <4> QED
        BY Zenon, <3>1, <4>1
    <3> HIDE DEF r
    <3>3. PICK to \in Nat, fin \in BOOLEAN : \E left :
           /\ InSequence(c, t) =
                [pcb |-> tcp_update_rcv_ann_wnd(
                           [c EXCEPT !.nxt = to, !.wnd = (c.nxt + c.wnd) - to,
                                     !.ooseq = left]),
                 data |-> Bytes(c.nxt, IF fin THEN N ELSE to), fin |-> fin,
                 sent |-> FALSE, now |-> c.delack]
           /\ c.nxt < to /\ to <= c.nxt + c.wnd
           /\ to <= N + 1 /\ (fin <=> to = N + 1)
           /\ SortedIn(left, to + 1, c.nxt + c.wnd)
      BY Zenon, <1>1, <1>2, <1>3, <2>2, <2>4, InSequenceRight DEF hi
    <3>4. PICK left :
           /\ InSequence(c, t) =
                [pcb |-> tcp_update_rcv_ann_wnd(
                           [c EXCEPT !.nxt = to, !.wnd = (c.nxt + c.wnd) - to,
                                     !.ooseq = left]),
                 data |-> Bytes(c.nxt, IF fin THEN N ELSE to), fin |-> fin,
                 sent |-> FALSE, now |-> c.delack]
           /\ c.nxt < to /\ to <= c.nxt + c.wnd
           /\ to <= N + 1 /\ (fin <=> to = N + 1)
           /\ SortedIn(left, to + 1, c.nxt + c.wnd)
      BY Zenon, <3>3
    <3> DEFINE w == [c EXCEPT !.nxt = to, !.wnd = (c.nxt + c.wnd) - to, !.ooseq = left]
               u == tcp_update_rcv_ann_wnd(w)
    <3>5. /\ r.pcb = u /\ r.data = Bytes(c.nxt, IF fin THEN N ELSE to) /\ r.fin = fin
          /\ r.sent = FALSE /\ r.now = c.delack
      <4> HIDE DEF u
      <4>1. r = [pcb |-> u, data |-> Bytes(c.nxt, IF fin THEN N ELSE to), fin |-> fin,
                 sent |-> FALSE, now |-> c.delack]
        BY Zenon, <3>2, <3>4 DEF u
      <4> QED
        BY Zenon, <4>1
    <3>6. left \in Seq(Good)
      BY Zenon, <3>4 DEF SortedIn
    <3>7. (c.nxt + c.wnd) - to \in Nat /\ to + ((c.nxt + c.wnd) - to) = c.nxt + c.wnd
      BY SMTT(30), <1>1, <3>4
    <3>8. /\ w \in Pcb /\ w.nxt = to /\ w.wnd = (c.nxt + c.wnd) - to /\ w.ooseq = left
          /\ w.edge = c.edge /\ w.refused = c.refused /\ w.rfin = c.rfin /\ w.eof = c.eof
      <4> HIDE DEF Good
      <4> QED
        BY Zenon, <1>1, <3>6, <3>7 DEF Pcb
    <3> HIDE DEF w, u
    <3>9. w.edge <= w.nxt + w.wnd /\ w.nxt <= N + 1 /\ w.nxt + w.wnd = c.nxt + c.wnd
      BY <1>1, <3>4, <3>7, <3>8
    <3>10. SortedIn(w.ooseq, w.nxt + 1, w.nxt + w.wnd)
      BY Zenon, <3>4, <3>8, <3>9
    <3>11. /\ Core(u) /\ u.nxt = w.nxt /\ u.wnd = w.wnd /\ u.edge = w.edge
           /\ u.refused = w.refused /\ u.rfin = w.rfin /\ u.eof = w.eof
      BY Zenon, <3>8, <3>9, <3>10, UpdateRight DEF u
    <3>12. c.nxt <= to
      BY <1>1, <3>4
    <3>13. r.data = Bytes(c.nxt, IF r.fin THEN N ELSE r.pcb.nxt)
      BY Zenon, <3>5, <3>8, <3>11
    <3>14. (r.fin \/ c.eof) <=> r.pcb.nxt = N + 1
      BY ZenonT(60), <1>7, <3>4, <3>5, <3>8, <3>11
    <3>15. r.fin \in BOOLEAN /\ r.sent \in BOOLEAN /\ r.now \in BOOLEAN /\ ~r.sent
      BY Zenon, <1>1, <3>5
    <3> QED
      BY Zenon, <1>1, <1>7, <3>5, <3>8, <3>9, <3>11, <3>12, <3>13, <3>14, <3>15
         DEF Received, r
  <2> QED
    BY Zenon, <2>3, <2>4
<1> QED
  BY Zenon, <1>1, <1>5, <1>6, <1>7

-----------------------------------------------------------------------------

(* The window announced in units is not larger than the one meant.          *)
LEMMA UnitsBelow ==
  ASSUME NEW a \in Nat
  PROVE  (a \div UNIT) * UNIT <= a /\ (a \div UNIT) * UNIT \in Nat
<1>1. UNIT \in Nat \ {0}
  BY Zenon, TcpReceiveAssumption
<1>2. a \div UNIT \in Nat
  BY <1>1
<1>3. a = UNIT * (a \div UNIT) + (a % UNIT) /\ a % UNIT \in Nat
  BY <1>1
<1> DEFINE x == UNIT * (a \div UNIT)
           y == a % UNIT
<1>4. x \in Nat /\ y \in Nat /\ a = x + y
  BY SMTT(30), <1>1, <1>2, <1>3
<1>5. x = (a \div UNIT) * UNIT
  BY <1>1, <1>2
<1> HIDE DEF x, y
<1>6. x <= a
  BY <1>4
<1> QED
  BY Zenon, <1>4, <1>5, <1>6

(* The invariant of the pcb, with g the bytes passed to the application and *)
(* u how many of them it has given back: the stream is in order up to       *)
(* rcv_nxt, and the window counts what has not come back.                   *)
PcbInv(c, g, u) ==
  /\ Core(c)
  /\ c.eof <=> c.nxt = N + 1
  /\ c.rfin => c.eof /\ c.refused # <<>>
  /\ g \in Seq(Int) /\ u \in 0 .. Len(g)
  /\ g \o c.refused = Bytes(0, IF c.eof THEN N ELSE c.nxt)
  /\ c.wnd + (Len(g) - u) + Len(c.refused) + (IF c.rfin THEN 1 ELSE 0) = TCP_WND

IInv ==
  /\ PcbInv(pcb, got, used)
  /\ closed \in BOOLEAN /\ (closed => pcb.eof /\ pcb.refused = <<>>)
  /\ una \in Nat /\ una <= pcb.nxt
  /\ told \in Int /\ told <= pcb.edge

(* The place of the FIN in the window is free again when it was told        *)
(* (Closed).                                                                *)
LEMMA ClosedRight ==
  ASSUME NEW c, Core(c), c.wnd < TCP_WND
  PROVE  LET d == Closed(c)
         IN /\ Core(d) /\ d.wnd = c.wnd + 1 /\ d.rfin = FALSE
            /\ d.nxt = c.nxt /\ d.ann = c.ann /\ d.edge = c.edge /\ d.eof = c.eof
            /\ d.refused = c.refused
<1> DEFINE d == Closed(c)
<1>1. /\ c \in Pcb /\ c.nxt \in Nat /\ c.wnd \in Nat /\ c.ann \in Nat /\ c.ann <= c.wnd
      /\ TCP_WND \in Nat /\ N \in Nat
  BY Zenon, PcbFields, TcpReceiveAssumption DEF Core
<1>2. c.wnd # TCP_WND /\ c.wnd + 1 \in Nat /\ c.ann <= c.wnd + 1
  BY <1>1
<1>3. d = [c EXCEPT !.rfin = FALSE, !.wnd = c.wnd + 1]
  BY Zenon, <1>2 DEF Closed
<1> HIDE DEF d
<1>4. /\ d \in Pcb /\ d.wnd = c.wnd + 1 /\ d.rfin = FALSE /\ d.ooseq = c.ooseq
      /\ d.nxt = c.nxt /\ d.ann = c.ann /\ d.edge = c.edge /\ d.eof = c.eof
      /\ d.refused = c.refused
  <2> HIDE DEF Good
  <2> QED
    BY Zenon, <1>1, <1>2, <1>3 DEF Pcb
<1>5. SortedIn(d.ooseq, d.nxt + 1, d.nxt + d.wnd)
  <2>1. /\ c.nxt + 1 \in Int /\ c.nxt + c.wnd \in Int /\ c.nxt + (c.wnd + 1) \in Int
        /\ c.nxt + 1 <= c.nxt + 1 /\ c.nxt + c.wnd <= c.nxt + (c.wnd + 1)
    BY <1>1
  <2>2. SortedIn(c.ooseq, c.nxt + 1, c.nxt + c.wnd)
    BY Zenon DEF Core
  <2>3. SortedIn(c.ooseq, c.nxt + 1, c.nxt + (c.wnd + 1))
    BY Zenon, <2>1, <2>2, SortedWider
  <2> QED
    BY Zenon, <1>4, <2>3
<1>6. d.ann <= d.wnd
  BY Zenon, <1>2, <1>4
<1>7. Core(d)
  BY Zenon, <1>4, <1>5, <1>6 DEF Core
<1> QED
  BY Zenon, <1>4, <1>7 DEF d

(* A sound pcb that differs from c in what it has refused, in whether a FIN *)
(* waits behind that and in whether the FIN has come.                       *)
Like(e, c, x, f, b) ==
  /\ Core(e) /\ e.refused = x /\ e.rfin = f /\ e.eof = b
  /\ e.nxt = c.nxt /\ e.wnd = c.wnd /\ e.ann = c.ann /\ e.edge = c.edge

(* The pcb with other refused data.                                         *)
LEMMA RefusedSet ==
  ASSUME NEW c, Core(c), NEW x \in Seq(Int)
  PROVE  Like([c EXCEPT !.refused = x], c, x, c.rfin, c.eof)
<1> DEFINE e == [c EXCEPT !.refused = x]
<1>1. c \in Pcb
  BY Zenon DEF Core
<1>2. /\ e \in Pcb /\ e.refused = x /\ e.rfin = c.rfin /\ e.eof = c.eof
      /\ e.ooseq = c.ooseq /\ e.nxt = c.nxt /\ e.wnd = c.wnd /\ e.ann = c.ann
      /\ e.edge = c.edge
  <2> HIDE DEF Good
  <2> QED
    BY Zenon, <1>1 DEF Pcb
<1> HIDE DEF e
<1>3. Core(e)
  BY Zenon, <1>2 DEF Core
<1>4. Like(e, c, x, c.rfin, c.eof)
  BY Zenon, <1>2, <1>3 DEF Like
<1> QED
  BY Zenon, <1>4 DEF e

(* The pcb with other refused data once a FIN may have come.                *)
LEMMA EofSet ==
  ASSUME NEW c, Core(c), NEW x \in Seq(Int), NEW b \in BOOLEAN
  PROVE  Like([c EXCEPT !.refused = x, !.eof = b], c, x, c.rfin, b)
<1> DEFINE e == [c EXCEPT !.refused = x, !.eof = b]
<1>1. c \in Pcb
  BY Zenon DEF Core
<1>2. /\ e \in Pcb /\ e.refused = x /\ e.rfin = c.rfin /\ e.eof = b
      /\ e.ooseq = c.ooseq /\ e.nxt = c.nxt /\ e.wnd = c.wnd /\ e.ann = c.ann
      /\ e.edge = c.edge
  <2> HIDE DEF Good
  <2> QED
    BY Zenon, <1>1 DEF Pcb
<1> HIDE DEF e
<1>3. Core(e)
  BY Zenon, <1>2 DEF Core
<1>4. Like(e, c, x, c.rfin, b)
  BY Zenon, <1>2, <1>3 DEF Like
<1> QED
  BY Zenon, <1>4 DEF e

(* The pcb with another delayed acknowledgement.                            *)
LEMMA DelackSet ==
  ASSUME NEW c, Core(c), NEW b \in BOOLEAN
  PROVE  Like([c EXCEPT !.delack = b], c, c.refused, c.rfin, c.eof)
<1> DEFINE e == [c EXCEPT !.delack = b]
<1>1. c \in Pcb
  BY Zenon DEF Core
<1>2. /\ e \in Pcb /\ e.refused = c.refused /\ e.rfin = c.rfin /\ e.eof = c.eof
      /\ e.ooseq = c.ooseq /\ e.nxt = c.nxt /\ e.wnd = c.wnd /\ e.ann = c.ann
      /\ e.edge = c.edge
  <2> HIDE DEF Good
  <2> QED
    BY Zenon, <1>1 DEF Pcb
<1> HIDE DEF e
<1>3. Core(e)
  BY Zenon, <1>2 DEF Core
<1>4. Like(e, c, c.refused, c.rfin, c.eof)
  BY Zenon, <1>2, <1>3 DEF Like
<1> QED
  BY Zenon, <1>4 DEF e

(* The pcb with a FIN that waits behind refused data.                       *)
LEMMA FinSet ==
  ASSUME NEW c, Core(c), NEW b \in BOOLEAN
  PROVE  Like([c EXCEPT !.rfin = b], c, c.refused, b, c.eof)
<1> DEFINE e == [c EXCEPT !.rfin = b]
<1>1. c \in Pcb
  BY Zenon DEF Core
<1>2. /\ e \in Pcb /\ e.refused = c.refused /\ e.rfin = b /\ e.eof = c.eof
      /\ e.ooseq = c.ooseq /\ e.nxt = c.nxt /\ e.wnd = c.wnd /\ e.ann = c.ann
      /\ e.edge = c.edge
  <2> HIDE DEF Good
  <2> QED
    BY Zenon, <1>1 DEF Pcb
<1> HIDE DEF e
<1>3. Core(e)
  BY Zenon, <1>2 DEF Core
<1>4. Like(e, c, c.refused, b, c.eof)
  BY Zenon, <1>2, <1>3 DEF Like
<1> QED
  BY Zenon, <1>4 DEF e

(* Refused data that the application takes (tcp_process_refused_data).      *)
LEMMA AcceptedRight ==
  ASSUME NEW c, NEW g, NEW u, PcbInv(c, g, u), c.refused # <<>>
  PROVE  LET d == Accepted(c)
         IN /\ PcbInv(d, g \o c.refused, u)
            /\ d.refused = <<>> /\ d.rfin = FALSE
            /\ d.nxt = c.nxt /\ d.ann = c.ann /\ d.edge = c.edge /\ d.eof = c.eof
<1> DEFINE d == Accepted(c)
           e == [c EXCEPT !.refused = <<>>]
           h == g \o c.refused
<1>1. /\ Core(c) /\ c \in Pcb /\ c.wnd \in Nat /\ c.refused \in Seq(Int)
      /\ c.rfin \in BOOLEAN /\ g \in Seq(Int) /\ u \in 0 .. Len(g) /\ TCP_WND \in Nat
      /\ c.wnd + (Len(g) - u) + Len(c.refused) + (IF c.rfin THEN 1 ELSE 0) = TCP_WND
  BY Zenon, PcbFields, TcpReceiveAssumption DEF PcbInv, Core
<1>2. Len(g) \in Nat /\ Len(c.refused) \in Nat
  BY <1>1
<1>3. h \in Seq(Int) /\ Len(h) = Len(g) + Len(c.refused) /\ h \o <<>> = h
  BY <1>1
<1>4. /\ Core(e) /\ e.refused = <<>> /\ e.nxt = c.nxt /\ e.wnd = c.wnd /\ e.ann = c.ann
      /\ e.edge = c.edge /\ e.eof = c.eof /\ e.rfin = c.rfin
  <2>1. <<>> \in Seq(Int)
    OBVIOUS
  <2>2. Like(e, c, <<>>, c.rfin, c.eof)
    BY Zenon, <1>1, <2>1, RefusedSet
  <2> HIDE DEF e
  <2> QED
    BY Zenon, <2>2 DEF Like
<1> HIDE DEF e, h
<1>a. /\ c.wnd \in Nat /\ Len(g) \in Nat /\ Len(c.refused) \in Nat /\ u \in Int
      /\ TCP_WND \in Nat /\ Len(h) = Len(g) + Len(c.refused)
  BY SMTT(30), <1>1, <1>2, <1>3
<1>b. (c.rfin => c.wnd + (Len(g) - u) + Len(c.refused) + 1 = TCP_WND)
      /\ (~c.rfin => c.wnd + (Len(g) - u) + Len(c.refused) + 0 = TCP_WND)
  BY Zenon, <1>1
<1>5. Core(e)
  BY Zenon, <1>4
<1>6. CASE c.rfin
  <2>1. d = Closed(e)
    BY Zenon, <1>6 DEF Accepted, e
  <2>2. e.wnd < TCP_WND
    BY SMTT(30), <1>1, <1>2, <1>4, <1>6
  <2>3. /\ Core(d) /\ d.wnd = e.wnd + 1 /\ d.rfin = FALSE
        /\ d.nxt = e.nxt /\ d.ann = e.ann /\ d.edge = e.edge /\ d.eof = e.eof
        /\ d.refused = e.refused
    BY ZenonT(60), <1>5, <2>1, <2>2, ClosedRight
  <2> HIDE DEF d
  <2>4. d.wnd + (Len(h) - u) + Len(d.refused) + (IF d.rfin THEN 1 ELSE 0) = TCP_WND
    <3>1. Len(d.refused) = 0 /\ d.wnd = c.wnd + 1 /\ ~d.rfin
      BY <1>4, <2>3
    <3>a. c.wnd + (Len(g) - u) + Len(c.refused) + 1 = TCP_WND
      BY Zenon, <1>6, <1>b
    <3> DEFINE lg == Len(g)
               lr == Len(c.refused)
               w == c.wnd
    <3>b. /\ w \in Nat /\ lg \in Nat /\ lr \in Nat /\ u \in Int /\ TCP_WND \in Nat
          /\ w + (lg - u) + lr + 1 = TCP_WND
      BY Zenon, <1>a, <3>a
    <3>c. Len(h) = lg + lr /\ d.wnd = w + 1 /\ Len(d.refused) = 0
      BY Zenon, <1>a, <3>1
    <3> HIDE DEF lg, lr, w
    <3>d. (w + 1) + ((lg + lr) - u) + 0 + 0 = TCP_WND
      BY <3>b
    <3>2. d.wnd + (Len(h) - u) + Len(d.refused) + 0 = TCP_WND
      BY Zenon, <3>c, <3>d
    <3> QED
      BY Zenon, <3>1, <3>2
  <2>5. u \in 0 .. Len(h)
    BY SMTT(30), <1>1, <1>2, <1>3
  <2>6. h \o d.refused = Bytes(0, IF d.eof THEN N ELSE d.nxt)
    BY Zenon, <1>3, <1>4, <2>3 DEF PcbInv, h
  <2>7. PcbInv(d, h, u)
    BY Zenon, <1>3, <1>4, <2>3, <2>4, <2>5, <2>6 DEF PcbInv
  <2> QED
    BY Zenon, <1>4, <2>3, <2>7 DEF d, h
<1>7. CASE ~c.rfin
  <2>1. d = e
    BY Zenon, <1>7 DEF Accepted, e
  <2> HIDE DEF d
  <2>4. d.wnd + (Len(h) - u) + Len(d.refused) + (IF d.rfin THEN 1 ELSE 0) = TCP_WND
    <3>1. Len(d.refused) = 0 /\ d.wnd = c.wnd /\ ~d.rfin
      BY Zenon, <1>4, <1>7, <2>1
    <3>3. d.wnd + (Len(h) - u) + Len(d.refused) + 0 = TCP_WND
      BY SMTT(30), <1>7, <1>a, <1>b, <3>1
    <3> QED
      BY Zenon, <3>1, <3>3
  <2>5. u \in 0 .. Len(h)
    BY <1>1, <1>2, <1>3
  <2>6. h \o d.refused = Bytes(0, IF d.eof THEN N ELSE d.nxt)
    BY Zenon, <1>3, <1>4, <2>1 DEF PcbInv, h
  <2>7. d.rfin = FALSE
    BY Zenon, <1>1, <1>4, <1>7, <2>1
  <2>8. PcbInv(d, h, u)
    BY Zenon, <1>3, <1>4, <1>5, <2>1, <2>4, <2>5, <2>6, <2>7 DEF PcbInv
  <2> QED
    BY Zenon, <1>4, <2>1, <2>7, <2>8 DEF d, h
<1> QED
  BY ZenonT(60), <1>1, <1>6, <1>7

(* What the pcb is once the application was offered what was received.      *)
Delivered(c, g, u, r, ok, d) ==
  /\ PcbInv(d, g \o (IF ok THEN r.data ELSE <<>>), u)
  /\ d.nxt = r.pcb.nxt /\ d.ann = r.pcb.ann /\ d.edge = r.pcb.edge
  /\ d.eof = (c.eof \/ r.fin)
  /\ r.fin /\ ~d.rfin => d.refused = <<>>
  /\ c.eof => d.refused = <<>>

(* What was received goes to the application, or waits for it: no byte is   *)
(* lost or told twice, and the window counts it once (tcp_ack, Deliver).    *)
LEMMA DeliverRight ==
  ASSUME NEW c, NEW g, NEW u, PcbInv(c, g, u), c.refused = <<>>,
         NEW r, Received(c, r), NEW ok \in BOOLEAN
  PROVE  Delivered(c, g, u, r, ok, Deliver(tcp_ack(r), r, ok))
<1> DEFINE a == tcp_ack(r)
           d == Deliver(a, r, ok)
           to == IF r.fin THEN N ELSE r.pcb.nxt
           new == IF ok THEN <<>> ELSE r.data
           told1 == IF ok THEN r.data ELSE <<>>
           h == g \o told1
           kept == [a EXCEPT !.refused = new, !.eof = a.eof \/ r.fin]
<1>1. /\ Core(c) /\ c \in Pcb /\ c.nxt \in Nat /\ c.wnd \in Nat /\ c.eof \in BOOLEAN
      /\ c.rfin \in BOOLEAN /\ c.nxt <= N + 1 /\ (c.eof <=> c.nxt = N + 1)
      /\ TCP_WND \in Nat /\ N \in Nat
  BY Zenon, PcbFields, TcpReceiveAssumption DEF PcbInv, Core
<1>2. ~c.rfin
  BY Zenon DEF PcbInv
<1>3. /\ g \in Seq(Int) /\ u \in 0 .. Len(g) /\ Len(g) \in Nat /\ u \in Int
      /\ g \o <<>> = g
  BY DEF PcbInv
<1>4. g = Bytes(0, IF c.eof THEN N ELSE c.nxt)
  BY Zenon, <1>3 DEF PcbInv
<1>5. c.wnd + (Len(g) - u) = TCP_WND
  <2>1. c.wnd + (Len(g) - u) + Len(<<>>) + 0 = TCP_WND
    BY Zenon, <1>2 DEF PcbInv
  <2> QED
    BY <1>1, <1>3, <2>1
<1>6. /\ Core(r.pcb) /\ r.pcb \in Pcb /\ r.pcb.nxt \in Nat /\ r.pcb.wnd \in Nat
      /\ r.fin \in BOOLEAN /\ r.now \in BOOLEAN /\ r.data = Bytes(c.nxt, to)
      /\ c.nxt <= r.pcb.nxt /\ r.pcb.nxt + r.pcb.wnd = c.nxt + c.wnd
      /\ (r.fin => ~c.eof) /\ ((r.fin \/ c.eof) <=> r.pcb.nxt = N + 1)
      /\ r.pcb.refused = <<>> /\ r.pcb.eof = c.eof /\ r.pcb.rfin = c.rfin
  <2>1. Core(r.pcb) /\ r.pcb \in Pcb
    BY Zenon DEF Received, Core
  <2>2. r.pcb.nxt \in Nat /\ r.pcb.wnd \in Nat
    BY Zenon, <2>1, PcbFields
  <2> QED
    BY Zenon, <2>1, <2>2 DEF Received
<1>7. /\ Core(a) /\ a.refused = <<>> /\ a.eof = c.eof /\ a.nxt = r.pcb.nxt
      /\ a.wnd = r.pcb.wnd /\ a.ann = r.pcb.ann /\ a.edge = r.pcb.edge /\ a.rfin = c.rfin
  <2>1. CASE r.data = <<>> /\ ~r.fin
    <3>1. a = r.pcb
      BY Zenon, <2>1 DEF tcp_ack
    <3> QED
      BY Zenon, <1>6, <3>1
  <2>2. CASE ~(r.data = <<>> /\ ~r.fin)
    <3>1. a = [r.pcb EXCEPT !.delack = ~r.now]
      BY Zenon, <2>2 DEF tcp_ack
    <3> DEFINE b == ~r.now
               e == [r.pcb EXCEPT !.delack = b]
    <3>2. b \in BOOLEAN /\ Core(r.pcb) /\ a = e
      BY Zenon, <1>6, <3>1
    <3> HIDE DEF a, b
    <3>3. Like(e, r.pcb, r.pcb.refused, r.pcb.rfin, r.pcb.eof)
      BY ZenonT(60), <3>2, DelackSet
    <3> HIDE DEF e
    <3> QED
      BY Zenon, <1>6, <3>2, <3>3 DEF Like
  <2> QED
    BY Zenon, <2>1, <2>2
<1>8. c.nxt \in Int /\ to \in Int /\ c.nxt <= to
  BY SMTT(30), <1>1, <1>6
<1>9. /\ r.data \in Seq(Int) /\ Len(r.data) = to - c.nxt /\ Len(r.data) \in Nat
      /\ <<>> \in Seq(Int)
  <2>1. r.data \in Seq(Int) /\ Len(r.data) = to - c.nxt
    <3> HIDE DEF to
    <3> QED
      BY ZenonT(60), <1>6, <1>8, BytesType
  <2> QED
    BY <2>1
<1>10. g \o r.data = Bytes(0, IF c.eof \/ r.fin THEN N ELSE r.pcb.nxt)
  <2>1. CASE c.eof
    <3>1. r.pcb.nxt = N + 1 /\ c.nxt = N + 1 /\ ~r.fin
      BY Zenon, <1>1, <1>6, <2>1
    <3>2. r.data = Bytes(N + 1, N + 1)
      BY Zenon, <1>6, <3>1
    <3>3. N + 1 \in Int /\ N + 1 <= N + 1
      BY <1>1
    <3>4. r.data = <<>>
      BY Zenon, <3>2, <3>3, BytesEmpty
    <3> QED
      BY Zenon, <1>3, <1>4, <2>1, <3>4
  <2>2. CASE ~c.eof
    <3>1. g = Bytes(0, c.nxt)
      BY Zenon, <1>4, <2>2
    <3>2. 0 \in Int /\ 0 <= c.nxt
      BY <1>1
    <3>3. Bytes(0, c.nxt) \o Bytes(c.nxt, to) = Bytes(0, to)
      <4> HIDE DEF to
      <4> QED
        BY Zenon, <1>8, <3>2, BytesJoin
    <3>4. to = IF c.eof \/ r.fin THEN N ELSE r.pcb.nxt
      BY Zenon, <2>2
    <3> QED
      BY ZenonT(60), <1>6, <3>1, <3>3, <3>4
  <2> QED
    BY Zenon, <2>1, <2>2
<1> HIDE DEF to
<1>11. /\ h \in Seq(Int) /\ new \in Seq(Int) /\ h \o new = g \o r.data
       /\ Len(h) \in Nat /\ Len(new) \in Nat /\ Len(h) + Len(new) = Len(g) + Len(r.data)
       /\ u \in 0 .. Len(h)
  <2>1. CASE ok
    <3>1. h = g \o r.data /\ new = <<>>
      BY ZenonT(60), <2>1
    <3> HIDE DEF h, new
    <3>2. /\ g \o r.data \in Seq(Int) /\ Len(g \o r.data) = Len(g) + Len(r.data)
          /\ (g \o r.data) \o <<>> = g \o r.data
      BY SMTT(30), <1>3, <1>9
    <3>3. Len(new) = 0
      BY Zenon, <3>1
    <3>4. Len(h) = Len(g) + Len(r.data)
      BY ZenonT(60), <3>1, <3>2
    <3>5. /\ Len(h) \in Nat /\ Len(new) \in Nat /\ Len(h) + Len(new) = Len(g) + Len(r.data)
          /\ u \in 0 .. Len(h)
      BY SMTT(30), <1>3, <1>9, <3>3, <3>4
    <3> QED
      BY ZenonT(60), <1>9, <3>1, <3>2, <3>5
  <2>2. CASE ~ok
    <3>1. h = g /\ new = r.data
      BY ZenonT(60), <1>3, <2>2
    <3> HIDE DEF h, new
    <3>2. /\ Len(h) \in Nat /\ Len(new) \in Nat /\ Len(h) + Len(new) = Len(g) + Len(r.data)
      BY Zenon, <1>3, <1>9, <3>1
    <3> QED
      BY Zenon, <1>3, <1>9, <3>1, <3>2
  <2> QED
    BY Zenon, <2>1, <2>2
<1>12. /\ Core(kept) /\ kept.refused = new /\ kept.eof = (c.eof \/ r.fin)
       /\ kept.nxt = r.pcb.nxt /\ kept.wnd = r.pcb.wnd /\ kept.ann = r.pcb.ann
       /\ kept.edge = r.pcb.edge /\ kept.rfin = FALSE
  <2>1. (a.eof \/ r.fin) \in BOOLEAN /\ (a.eof \/ r.fin) = (c.eof \/ r.fin)
    BY Zenon, <1>7
  <2>2. a.rfin = FALSE
    BY ZenonT(60), <1>1, <1>2, <1>7
  <2> DEFINE b == a.eof \/ r.fin
             e == [a EXCEPT !.refused = new, !.eof = b]
  <2>3. b \in BOOLEAN /\ Core(a) /\ new \in Seq(Int) /\ kept = e
    BY ZenonT(60), <1>7, <1>11, <2>1
  <2>4. b = (c.eof \/ r.fin)
    BY Zenon, <2>1
  <2> HIDE DEF a, b, new, kept
  <2>5. Like(e, a, new, a.rfin, b)
    BY Zenon, <2>3, EofSet
  <2> HIDE DEF e
  <2> QED
    BY ZenonT(60), <1>7, <2>2, <2>3, <2>4, <2>5 DEF Like
<1>13. d = IF ~r.fin THEN kept
           ELSE IF kept.refused # <<>> THEN [kept EXCEPT !.rfin = TRUE] ELSE Closed(kept)
  BY Zenon DEF Deliver
<1>14. c.eof => new = <<>>
  <2> SUFFICES ASSUME c.eof
               PROVE  new = <<>>
    OBVIOUS
  <2>1. ~r.fin /\ r.pcb.nxt = c.nxt
    BY ZenonT(60), <1>1, <1>6
  <2>2. to = c.nxt
    BY Zenon, <2>1 DEF to
  <2>3. r.data = <<>>
    BY Zenon, <1>6, <1>8, <2>2, BytesEmpty
  <2> QED
    BY Zenon, <2>3
<1> HIDE DEF kept, a, h, new, d
<1>15. h \o new = Bytes(0, IF kept.eof THEN N ELSE kept.nxt)
  BY Zenon, <1>10, <1>11, <1>12
<1>16. kept.eof <=> kept.nxt = N + 1
  BY Zenon, <1>6, <1>12
<1>20. /\ kept.wnd \in Nat /\ kept.wnd = r.pcb.wnd /\ r.pcb.nxt \in Nat /\ Len(h) \in Nat
       /\ Len(new) \in Nat /\ Len(h) + Len(new) = Len(g) + (to - c.nxt)
       /\ r.pcb.nxt + kept.wnd = c.nxt + c.wnd /\ to \in Int /\ u \in 0 .. Len(h)
  BY Zenon, <1>6, <1>8, <1>9, <1>11, <1>12
<1>21. kept.wnd + (Len(h) - u) + Len(new) + (r.pcb.nxt - to) = TCP_WND
  <2>1. /\ c.nxt \in Nat /\ c.wnd \in Nat /\ TCP_WND \in Nat /\ Len(g) \in Nat
        /\ kept.wnd \in Nat /\ r.pcb.nxt \in Nat /\ Len(h) \in Nat /\ Len(new) \in Nat
        /\ u \in Int /\ to \in Int
    BY Zenon, <1>1, <1>3, <1>20
  <2>2. r.pcb.nxt + kept.wnd = c.nxt + c.wnd /\ Len(h) + Len(new) = Len(g) + (to - c.nxt)
    BY Zenon, <1>20
  <2> DEFINE lg == Len(g)
             lh == Len(h)
             ln == Len(new)
             y == r.pcb.nxt
             x == c.nxt
             w == c.wnd
             v == kept.wnd
  <2>3. /\ x \in Nat /\ w \in Nat /\ TCP_WND \in Nat /\ lg \in Nat
        /\ v \in Nat /\ y \in Nat /\ lh \in Nat /\ ln \in Nat
        /\ u \in Int /\ to \in Int
        /\ w + (lg - u) = TCP_WND /\ y + v = x + w /\ lh + ln = lg + (to - x)
    BY Zenon, <1>5, <2>1, <2>2
  <2> HIDE DEF lg, lh, ln, x, y, w, v
  <2>4. v + (lh - u) + ln + (y - to) = TCP_WND
    BY <2>3
  <2> QED
    BY Zenon, <2>4 DEF lg, lh, ln, x, y, w, v
<1>22. /\ kept.wnd \in Nat /\ Len(h) \in Nat /\ Len(new) \in Nat /\ u \in 0 .. Len(h)
       /\ TCP_WND \in Nat
  BY Zenon, <1>1, <1>20
<1>17. CASE ~r.fin
  <2>1. d = kept
    BY Zenon, <1>13, <1>17
  <2>2. to = r.pcb.nxt
    BY Zenon, <1>17 DEF to
  <2>3. d.wnd + (Len(h) - u) + Len(d.refused) + 0 = TCP_WND
    <3>1. kept.wnd + (Len(h) - u) + Len(new) + 0 = TCP_WND
      BY SMTT(30), <1>20, <1>21, <2>2
    <3> QED
      BY ZenonT(60), <1>12, <2>1, <3>1
  <2>4. PcbInv(d, h, u)
    BY ZenonT(60), <1>11, <1>12, <1>15, <1>16, <2>1, <2>3 DEF PcbInv
  <2> QED
    BY Zenon, <1>12, <1>14, <1>17, <2>1, <2>4 DEF Delivered, d, h, a
<1>18. CASE r.fin /\ new # <<>>
  <2>1. d = [kept EXCEPT !.rfin = TRUE]
    BY Zenon, <1>12, <1>13, <1>18
  <2>2. /\ Core(d) /\ d.refused = kept.refused /\ d.eof = kept.eof
        /\ d.nxt = kept.nxt /\ d.wnd = kept.wnd /\ d.ann = kept.ann /\ d.edge = kept.edge
        /\ d.rfin = TRUE
    <3> DEFINE e == [kept EXCEPT !.rfin = TRUE]
    <3>1. TRUE \in BOOLEAN /\ Core(kept)
      BY Zenon, <1>12
    <3>2. Like(e, kept, kept.refused, TRUE, kept.eof)
      BY Zenon, <3>1, FinSet
    <3> HIDE DEF e
    <3>3. d = e
      BY Zenon, <2>1 DEF e
    <3> QED
      BY Zenon, <3>2, <3>3 DEF Like
  <2>3. to = N /\ r.pcb.nxt = N + 1
    BY Zenon, <1>6, <1>18 DEF to
  <2>4. d.wnd + (Len(h) - u) + Len(d.refused) + 1 = TCP_WND
    <3>1. kept.wnd + (Len(h) - u) + Len(new) + 1 = TCP_WND
      BY SMTT(30), <1>20, <1>21, <2>3, TcpReceiveAssumption
    <3> QED
      BY ZenonT(60), <1>12, <2>2, <3>1
  <2>5. d.eof /\ d.refused # <<>>
    BY ZenonT(60), <1>12, <1>18, <2>2
  <2>6. PcbInv(d, h, u)
    BY ZenonT(60), <1>11, <1>12, <1>15, <1>16, <2>2, <2>4, <2>5 DEF PcbInv
  <2> QED
    BY Zenon, <1>12, <1>14, <1>18, <2>2, <2>6 DEF Delivered, d, h, a
<1>19. CASE r.fin /\ new = <<>>
  <2>1. d = Closed(kept)
    BY Zenon, <1>12, <1>13, <1>19
  <2>2. to = N /\ r.pcb.nxt = N + 1
    BY ZenonT(60), <1>6, <1>19 DEF to
  <2>3. kept.wnd + (Len(h) - u) + Len(new) + 1 = TCP_WND
    BY <1>20, <1>21, <2>2, TcpReceiveAssumption
  <2>4. kept.wnd < TCP_WND /\ kept.wnd \in Nat
    BY SMTT(30), <1>22, <2>3
  <2>5. /\ Core(d) /\ d.wnd = kept.wnd + 1 /\ d.rfin = FALSE
        /\ d.nxt = kept.nxt /\ d.ann = kept.ann /\ d.edge = kept.edge /\ d.eof = kept.eof
        /\ d.refused = kept.refused
    BY ZenonT(60), <1>12, <2>1, <2>4, ClosedRight
  <2>6. d.wnd + (Len(h) - u) + Len(d.refused) + 0 = TCP_WND
    <3>1. (kept.wnd + 1) + (Len(h) - u) + Len(new) + 0 = TCP_WND
      BY SMTT(30), <1>22, <2>3
    <3> QED
      BY ZenonT(60), <1>12, <2>5, <3>1
  <2>7. PcbInv(d, h, u)
    BY ZenonT(60), <1>11, <1>12, <1>15, <1>16, <2>5, <2>6 DEF PcbInv
  <2> QED
    BY ZenonT(60), <1>12, <1>14, <1>19, <2>5, <2>7 DEF Delivered, d, h, a
<1> QED
  BY ZenonT(60), <1>6, <1>17, <1>18, <1>19

(* An acknowledgement takes nothing from the pcb and announces what the     *)
(* window has (tcp_send_empty_ack).                                         *)
LEMMA SendKeeps ==
  ASSUME NEW c, NEW g, NEW u, PcbInv(c, g, u)
  PROVE  LET e == tcp_send_empty_ack(c)
         IN /\ PcbInv(e, g, u)
            /\ e.edge = c.nxt + c.ann /\ c.edge <= e.edge
            /\ e.nxt = c.nxt /\ e.eof = c.eof /\ e.refused = c.refused
<1> DEFINE e == tcp_send_empty_ack(c)
<1>1. Core(c)
  BY Zenon DEF PcbInv
<1>2. /\ Core(e) /\ e.edge = e.nxt + e.ann /\ c.edge <= e.edge
      /\ e.nxt = c.nxt /\ e.wnd = c.wnd /\ e.ann = c.ann /\ e.refused = c.refused
      /\ e.rfin = c.rfin /\ e.eof = c.eof
  BY Zenon, <1>1, SendRight
<1> HIDE DEF e
<1>3. PcbInv(e, g, u)
  BY Zenon, <1>2 DEF PcbInv
<1> QED
  BY Zenon, <1>2, <1>3 DEF e

(* What the peer has heard stays within what the receiver has and has       *)
(* announced, whether the acknowledgement is lost or not.                   *)
LEMMA HearsRight ==
  ASSUME NEW c \in Pcb, NEW edge \in Nat, NEW sent \in BOOLEAN, NEW lost \in BOOLEAN,
         PeerHears(c, sent, lost), sent => edge = c.nxt + c.ann,
         una \in Nat, una <= c.nxt, told \in Int, told <= edge
  PROVE  una' \in Nat /\ una' <= c.nxt /\ told' \in Int /\ told' <= edge
<1> DEFINE a == (c.ann \div UNIT) * UNIT
<1>1. c.nxt \in Nat /\ c.ann \in Nat
  BY Zenon, PcbFields
<1>2. a <= c.ann /\ a \in Nat
  BY Zenon, <1>1, UnitsBelow
<1> HIDE DEF a
<1>3. CASE sent /\ ~lost
  <2>1. una' = Larger(una, c.nxt) /\ told' = Larger(told, c.nxt + a) /\ edge = c.nxt + c.ann
    BY Zenon, <1>3 DEF PeerHears, a
  <2> QED
    BY <1>1, <1>2, <2>1 DEF Larger
<1>4. CASE ~(sent /\ ~lost)
  <2>1. una' = una /\ told' = told
    BY Zenon, <1>4 DEF PeerHears
  <2> QED
    BY Zenon, <2>1
<1> QED
  BY Zenon, <1>3, <1>4

(* Data refused before are offered first: what remains is a sound pcb with  *)
(* nothing refused, or the segment is dropped (tcp_process_refused_data).   *)
LEMMA OfferedRight ==
  ASSUME NEW again \in BOOLEAN, PcbInv(pcb, got, used),
         tcp_process_refused_data(again).refused = <<>>
  PROVE  LET c == tcp_process_refused_data(again)
         IN /\ PcbInv(c, got \o pcb.refused, used)
            /\ c.nxt = pcb.nxt /\ c.ann = pcb.ann /\ c.edge = pcb.edge /\ c.eof = pcb.eof
<1> DEFINE c == tcp_process_refused_data(again)
<1>1. CASE again /\ pcb.refused # <<>>
  <2>1. c = Accepted(pcb)
    BY Zenon, <1>1 DEF tcp_process_refused_data
  <2> DEFINE d == Accepted(pcb)
  <2>2. /\ PcbInv(d, got \o pcb.refused, used)
        /\ d.nxt = pcb.nxt /\ d.ann = pcb.ann /\ d.edge = pcb.edge /\ d.eof = pcb.eof
    BY Zenon, <1>1, AcceptedRight
  <2> HIDE DEF c, d
  <2>3. c = d
    BY Zenon, <2>1 DEF d
  <2>4. /\ PcbInv(c, got \o pcb.refused, used)
        /\ c.nxt = pcb.nxt /\ c.ann = pcb.ann /\ c.edge = pcb.edge /\ c.eof = pcb.eof
    BY Zenon, <2>2, <2>3
  <2> QED
    BY Zenon, <2>4 DEF c
<1>2. CASE ~(again /\ pcb.refused # <<>>)
  <2>1. c = pcb
    BY Zenon, <1>2 DEF tcp_process_refused_data
  <2>2. pcb.refused = <<>>
    BY Zenon, <2>1
  <2>3. got \in Seq(Int)
    BY Zenon DEF PcbInv
  <2>4. got \o <<>> = got
    BY <2>3
  <2>5. got \o pcb.refused = got
    BY Zenon, <2>2, <2>4
  <2> QED
    BY Zenon, <2>1, <2>5
<1> QED
  BY Zenon, <1>1, <1>2


-----------------------------------------------------------------------------

(* What tcp_input does with a result r of tcp_receive.                      *)
Told(r, ok, lost) ==
  LET d == Deliver(tcp_ack(r), r, ok)
      acknow == r.now \/ r.fin
  IN /\ pcb' = IF acknow THEN tcp_send_empty_ack(d) ELSE d
     /\ PeerHears(d, acknow \/ r.sent, lost)
     /\ got' = got \o pcb.refused \o (IF ok THEN r.data ELSE <<>>)
     /\ closed' = (closed \/ pcb.rfin \/ (r.fin /\ ~d.rfin))
     /\ UNCHANGED used

(* A segment that is looked at leaves the invariant intact.                 *)
LEMMA ResultKeeps ==
  ASSUME NatFacts, IInv, NEW s \in Pieces, PeerSends(s), NEW again \in BOOLEAN,
         NEW ok \in BOOLEAN, NEW lost \in BOOLEAN,
         tcp_process_refused_data(again).refused = <<>>,
         NEW r \in Outcomes(tcp_process_refused_data(again), s), Told(r, ok, lost)
  PROVE  IInv' /\ pcb.edge <= pcb'.edge
<1> DEFINE c == tcp_process_refused_data(again)
           d == Deliver(tcp_ack(r), r, ok)
           acknow == r.now \/ r.fin
           g == got \o pcb.refused
           new == IF ok THEN r.data ELSE <<>>
           h == g \o new
<1>1. /\ PcbInv(pcb, got, used) /\ closed \in BOOLEAN
      /\ (closed => pcb.eof /\ pcb.refused = <<>>)
      /\ una \in Nat /\ una <= pcb.nxt /\ told \in Int /\ told <= pcb.edge
      /\ (pcb.rfin => pcb.eof)
  BY Zenon DEF IInv, PcbInv
<1>2. Core(pcb) /\ pcb \in Pcb
  BY Zenon, <1>1 DEF PcbInv, Core
<1>3. pcb.edge \in Nat /\ pcb.nxt \in Nat /\ pcb.rfin \in BOOLEAN /\ pcb.eof \in BOOLEAN
  BY Zenon, <1>2, PcbFields
<1>5. CASE c.refused = <<>>
  <2>1. /\ pcb' = (IF acknow THEN tcp_send_empty_ack(d) ELSE d)
        /\ PeerHears(d, acknow \/ r.sent, lost)
        /\ got' = h
        /\ closed' = (closed \/ pcb.rfin \/ (r.fin /\ ~d.rfin))
        /\ used' = used
    BY Zenon DEF Told
  <2>2. /\ PcbInv(c, g, used)
        /\ c.nxt = pcb.nxt /\ c.ann = pcb.ann /\ c.edge = pcb.edge /\ c.eof = pcb.eof
    BY Zenon, <1>1, <1>5, OfferedRight
  <2> HIDE DEF c, g
  <2>3. /\ Core(c) /\ (c.eof <=> c.nxt = N + 1) /\ c \in Pcb
        /\ c.edge <= c.nxt + c.ann /\ c.ann <= c.wnd
    BY Zenon, <2>2 DEF PcbInv, Core
  <2>4. c.edge \in Nat /\ c.nxt \in Nat /\ c.ann \in Nat /\ c.wnd \in Nat
    BY Zenon, <2>3, PcbFields
  <2>5. s \in Good
    BY Zenon, PiecesGood
  <2>6. End(s) <= c.nxt + c.wnd \/ TCPLEN(s) = 1
    <3>1. CASE TCPLEN(s) = 1
      BY Zenon, <3>1
    <3>2. CASE s.seq + TCPLEN(s) <= told
      <4>1. End(s) \in Nat
        BY Zenon, <2>5, GoodFields
      <4>2. End(s) <= told /\ told <= c.edge
        BY Zenon, <1>1, <2>2, <3>2 DEF End
      <4>3. End(s) <= c.nxt + c.wnd
        BY SMTT(30), <1>1, <2>3, <2>4, <4>1, <4>2
      <4> QED
        BY Zenon, <4>3
    <3> QED
      BY Zenon, <3>1, <3>2 DEF PeerSends
  <2>7. Received(c, r)
    BY Zenon, <2>3, <2>5, <2>6, ReceiveRight, NotCopiedRight DEF Outcomes, c
  <2>8. /\ r.fin \in BOOLEAN /\ r.sent \in BOOLEAN /\ r.now \in BOOLEAN
        /\ c.nxt <= r.pcb.nxt /\ c.edge <= r.pcb.edge /\ Core(r.pcb)
        /\ (r.sent => r.pcb.edge = r.pcb.nxt + r.pcb.ann)
    BY Zenon, <2>7 DEF Received
  <2>9. /\ PcbInv(d, h, used)
        /\ d.nxt = r.pcb.nxt /\ d.ann = r.pcb.ann /\ d.edge = r.pcb.edge
        /\ d.eof = (c.eof \/ r.fin)
        /\ (r.fin /\ ~d.rfin => d.refused = <<>>)
        /\ (c.eof => d.refused = <<>>)
    <3>1. PcbInv(c, g, used)
      BY Zenon, <2>2
    <3>2. Delivered(c, g, used, r, ok, d)
      BY Zenon, <1>5, <2>7, <3>1, DeliverRight
    <3> HIDE DEF d
    <3> QED
      BY Zenon, <3>2 DEF Delivered
  <2> HIDE DEF d, h, acknow
  <2>10. d \in Pcb /\ Core(d)
    BY Zenon, <2>9 DEF PcbInv, Core
  <2>11. d.nxt \in Nat /\ d.edge \in Nat /\ d.ann \in Nat /\ acknow \in BOOLEAN
    BY Zenon, <2>8, <2>10, PcbFields DEF acknow
  <2>12. /\ PcbInv(pcb', h, used) /\ d.edge <= pcb'.edge /\ pcb'.nxt = d.nxt
         /\ pcb'.eof = d.eof /\ pcb'.refused = d.refused
         /\ (acknow => pcb'.edge = d.nxt + d.ann)
         /\ (~acknow => pcb'.edge = d.edge)
    <3>1. CASE acknow
      <4> DEFINE e == tcp_send_empty_ack(d)
      <4>1. /\ PcbInv(e, h, used) /\ e.edge = d.nxt + d.ann /\ d.edge <= e.edge
            /\ e.nxt = d.nxt /\ e.eof = d.eof /\ e.refused = d.refused
        BY Zenon, <2>9, SendKeeps
      <4>2. pcb' = e
        BY Zenon, <2>1, <3>1
      <4> HIDE DEF e
      <4> QED
        BY Zenon, <3>1, <4>1, <4>2
    <3>2. CASE ~acknow
      <4>1. pcb' = d
        BY Zenon, <2>1, <3>2
      <4>2. d.edge <= d.edge
        BY <2>11
      <4> QED
        BY Zenon, <2>9, <3>2, <4>1, <4>2
    <3> QED
      BY Zenon, <2>11, <3>1, <3>2
  <2>13. pcb' \in Pcb
    BY Zenon, <2>12 DEF PcbInv, Core
  <2>14. pcb'.edge \in Nat
    BY Zenon, <2>13, PcbFields
  <2>15. pcb.edge <= pcb'.edge /\ told <= pcb'.edge /\ una <= d.nxt
    <3>1. pcb.edge <= d.edge /\ d.edge <= pcb'.edge /\ pcb.nxt <= d.nxt
      BY Zenon, <2>2, <2>8, <2>9, <2>12
    <3> QED
      BY SMTT(30), <1>1, <1>3, <2>11, <2>14, <3>1
  <2>16. (acknow \/ r.sent) => pcb'.edge = d.nxt + d.ann
    BY ZenonT(60), <2>8, <2>9, <2>11, <2>12
  <2>17. (acknow \/ r.sent) \in BOOLEAN
    BY Zenon, <2>8, <2>11
  <2>18. una' \in Nat /\ una' <= d.nxt /\ told' \in Int /\ told' <= pcb'.edge
    <3> DEFINE sent == acknow \/ r.sent
               edge == pcb'.edge
    <3>1. /\ sent \in BOOLEAN /\ (sent => edge = d.nxt + d.ann) /\ edge \in Nat
          /\ PeerHears(d, sent, lost) /\ una \in Nat /\ una <= d.nxt /\ told \in Int
          /\ told <= edge /\ d \in Pcb
      BY ZenonT(60), <1>1, <2>1, <2>10, <2>14, <2>15, <2>16, <2>17
    <3> HIDE DEF sent, edge
    <3>2. una' \in Nat /\ una' <= d.nxt /\ told' \in Int /\ told' <= edge
      BY Zenon, <3>1, HearsRight
    <3> QED
      BY Zenon, <3>2 DEF edge
  <2>19. closed' \in BOOLEAN /\ (closed' => pcb'.eof /\ pcb'.refused = <<>>)
    <3>1. closed' \in BOOLEAN
      BY Zenon, <2>1
    <3>2. ASSUME closed'
          PROVE  pcb'.eof /\ pcb'.refused = <<>>
      <4>1. CASE closed \/ pcb.rfin
        <5>1. c.eof
          BY Zenon, <1>1, <2>2, <4>1
        <5> QED
          BY Zenon, <2>9, <2>12, <5>1
      <4>2. CASE r.fin /\ ~d.rfin
        BY Zenon, <2>9, <2>12, <4>2
      <4> QED
        BY Zenon, <2>1, <3>2, <4>1, <4>2
    <3> QED
      BY ZenonT(60), <3>1, <3>2
  <2>20. PcbInv(pcb, got, used)'
    BY Zenon, <2>1, <2>12
  <2>21. una' <= pcb'.nxt
    BY Zenon, <2>12, <2>18
  <2>22. IInv'
    BY Zenon, <2>18, <2>19, <2>20, <2>21 DEF IInv
  <2> QED
    BY Zenon, <2>15, <2>22
<1> QED
  BY Zenon, <1>5

(* A segment of the peer leaves the invariant intact (tcp_input).           *)
LEMMA InputKeeps ==
  ASSUME NatFacts, IInv, NEW s \in Pieces, PeerSends(s), NEW again \in BOOLEAN,
         NEW ok \in BOOLEAN, NEW lost \in BOOLEAN, tcp_input(s, again, ok, lost)
  PROVE  IInv' /\ pcb.edge <= pcb'.edge
<1> DEFINE c == tcp_process_refused_data(again)
<1>3. pcb.edge \in Nat
  <2>1. pcb \in Pcb
    BY Zenon DEF IInv, PcbInv, Core
  <2> QED
    BY Zenon, <2>1, PcbFields
<1>4. CASE c.refused # <<>>
  <2>1. UNCHANGED vars
    BY Zenon, <1>4 DEF tcp_input
  <2>2. IInv'
    BY Zenon, <2>1 DEF IInv, vars
  <2>3. pcb' = pcb
    BY Zenon, <2>1 DEF vars
  <2>4. pcb.edge <= pcb.edge
    BY <1>3
  <2> QED
    BY Zenon, <2>2, <2>3, <2>4
<1>5. CASE c.refused = <<>>
  <2>1. PICK r \in Outcomes(c, s) : Told(r, ok, lost)
    BY ZenonT(60), <1>5 DEF tcp_input, Told
  <2> QED
    BY Zenon, <1>5, <2>1, ResultKeeps
<1> QED
  BY Zenon, <1>4, <1>5


(* The application gives bytes back: the window grows by as much, and the   *)
(* invariant stays (tcp_recved).                                            *)
LEMMA RecvedKeeps ==
  ASSUME IInv, NEW n \in 1 .. TCP_WND, NEW lost \in BOOLEAN, tcp_recved(n, lost)
  PROVE  IInv' /\ pcb.edge <= pcb'.edge
<1> DEFINE w == Smaller(TCP_WND, pcb.wnd + n)
           e == [pcb EXCEPT !.wnd = w]
           c == tcp_update_rcv_ann_wnd(e)
           tell == wnd_inflation(c) >= THRESHOLD
<1>1. /\ PcbInv(pcb, got, used) /\ closed \in BOOLEAN
      /\ (closed => pcb.eof /\ pcb.refused = <<>>)
      /\ una \in Nat /\ una <= pcb.nxt /\ told \in Int /\ told <= pcb.edge
  BY Zenon DEF IInv
<1>2. /\ Core(pcb) /\ pcb \in Pcb /\ pcb.nxt <= N + 1 /\ pcb.edge <= pcb.nxt + pcb.ann
      /\ pcb.ann <= pcb.wnd /\ SortedIn(pcb.ooseq, pcb.nxt + 1, pcb.nxt + pcb.wnd)
  BY Zenon, <1>1 DEF PcbInv, Core
<1>3. /\ pcb.nxt \in Nat /\ pcb.wnd \in Nat /\ pcb.ann \in Nat /\ pcb.edge \in Nat
      /\ pcb.refused \in Seq(Int) /\ pcb.rfin \in BOOLEAN
  BY Zenon, <1>2, PcbFields
<1>4. /\ n \in 1 .. Len(got) - used /\ used' = used + n
      /\ pcb' = (IF tell THEN tcp_send_empty_ack(c) ELSE c)
      /\ PeerHears(c, tell, lost) /\ got' = got /\ closed' = closed
  BY Zenon DEF tcp_recved
<1>5. /\ got \in Seq(Int) /\ used \in 0 .. Len(got)
      /\ pcb.wnd + (Len(got) - used) + Len(pcb.refused) + (IF pcb.rfin THEN 1 ELSE 0) = TCP_WND
  BY Zenon, <1>1 DEF PcbInv
<1>6. /\ Len(got) \in Nat /\ Len(pcb.refused) \in Nat /\ used \in Nat /\ n \in Nat
      /\ TCP_WND \in Nat /\ (IF pcb.rfin THEN 1 ELSE 0) \in Nat /\ N \in Nat
  BY SMTT(60), <1>3, <1>5, TcpReceiveAssumption
<1>7. w = pcb.wnd + n /\ w \in Nat /\ pcb.wnd <= w
  <2>1. pcb.wnd + n <= TCP_WND
    <3>1. n <= Len(got) - used
      BY <1>4, <1>6
    <3> DEFINE lg == Len(got)
               lr == Len(pcb.refused)
               f == IF pcb.rfin THEN 1 ELSE 0
               v == pcb.wnd
    <3>2. /\ lg \in Nat /\ lr \in Nat /\ f \in Nat /\ v \in Nat /\ used \in Nat /\ n \in Nat
          /\ v + (lg - used) + lr + f = TCP_WND /\ n <= lg - used
      BY ZenonT(60), <1>3, <1>5, <1>6, <3>1
    <3> HIDE DEF lg, lr, f, v
    <3>3. v + n <= TCP_WND
      BY SMTT(30), <3>2
    <3> QED
      BY Zenon, <3>3 DEF v
  <2> QED
    BY SMTT(30), <1>3, <1>6, <2>1 DEF Smaller
<1>8. used + n \in 0 .. Len(got)
  BY <1>4, <1>6
<1> HIDE DEF w
<1>9. /\ e \in Pcb /\ e.nxt = pcb.nxt /\ e.wnd = w /\ e.edge = pcb.edge /\ e.eof = pcb.eof
      /\ e.refused = pcb.refused /\ e.rfin = pcb.rfin /\ e.ooseq = pcb.ooseq
  <2>1. w \in Nat
    BY Zenon, <1>7
  <2> QED
    BY Zenon, <1>2, <2>1 DEF Pcb
<1> HIDE DEF e
<1>10. /\ e.edge <= e.nxt + e.wnd /\ e.nxt <= N + 1
       /\ SortedIn(e.ooseq, e.nxt + 1, e.nxt + e.wnd)
  <2>1. pcb.edge <= pcb.nxt + w
    <3>1. pcb.edge <= pcb.nxt + pcb.ann /\ pcb.ann <= pcb.wnd
      BY Zenon, <1>2
    <3>2. pcb.nxt \in Nat /\ pcb.wnd \in Nat /\ pcb.ann \in Nat /\ pcb.edge \in Nat
      BY Zenon, <1>3
    <3>3. w \in Nat /\ pcb.wnd <= w
      BY Zenon, <1>7
    <3> QED
      BY SMTT(30), <3>1, <3>2, <3>3
  <2>2. /\ pcb.nxt + 1 \in Int /\ pcb.nxt + pcb.wnd \in Int /\ pcb.nxt + w \in Int
        /\ pcb.nxt + 1 <= pcb.nxt + 1 /\ pcb.nxt + pcb.wnd <= pcb.nxt + w
    BY SMTT(30), <1>3, <1>7
  <2>3. SortedIn(pcb.ooseq, pcb.nxt + 1, pcb.nxt + w)
    BY Zenon, <1>2, <2>2, SortedWider
  <2> QED
    BY Zenon, <1>2, <1>9, <2>1, <2>3
<1>11. /\ Core(c) /\ c.nxt = e.nxt /\ c.wnd = e.wnd /\ c.edge = e.edge
       /\ c.refused = e.refused /\ c.rfin = e.rfin /\ c.eof = e.eof
  BY Zenon, <1>9, <1>10, UpdateRight
<1> HIDE DEF c
<1>12. PcbInv(c, got, used + n)
  <2>1. w + (Len(got) - (used + n)) + Len(pcb.refused) + (IF pcb.rfin THEN 1 ELSE 0) = TCP_WND
    <3> DEFINE lg == Len(got)
               lr == Len(pcb.refused)
               f == IF pcb.rfin THEN 1 ELSE 0
               v == pcb.wnd
    <3>1. /\ lg \in Nat /\ lr \in Nat /\ f \in Nat /\ v \in Nat /\ used \in Nat /\ n \in Nat
          /\ v + (lg - used) + lr + f = TCP_WND /\ w = v + n
      BY Zenon, <1>3, <1>5, <1>6, <1>7
    <3> HIDE DEF lg, lr, f, v
    <3>2. w + (lg - (used + n)) + lr + f = TCP_WND
      BY <3>1
    <3> QED
      BY Zenon, <3>2 DEF lg, lr, f
  <2>2. c.wnd + (Len(got) - (used + n)) + Len(c.refused) + (IF c.rfin THEN 1 ELSE 0) = TCP_WND
    BY Zenon, <1>9, <1>11, <2>1
  <2> QED
    BY Zenon, <1>1, <1>8, <1>9, <1>11, <2>2 DEF PcbInv
<1>13. c \in Pcb
  BY Zenon, <1>11 DEF Core
<1>14. c.nxt \in Nat /\ c.ann \in Nat /\ c.edge \in Nat /\ c.wnd \in Nat
  BY Zenon, <1>13, PcbFields
<1>15. tell \in BOOLEAN
  OBVIOUS
<1> HIDE DEF tell
<1>16. /\ PcbInv(pcb', got, used + n) /\ c.edge <= pcb'.edge /\ pcb'.nxt = c.nxt
       /\ pcb'.eof = c.eof /\ pcb'.refused = c.refused
       /\ (tell => pcb'.edge = c.nxt + c.ann)
  <2>1. CASE tell
    <3> DEFINE d == tcp_send_empty_ack(c)
    <3>1. /\ PcbInv(d, got, used + n) /\ d.edge = c.nxt + c.ann /\ c.edge <= d.edge
          /\ d.nxt = c.nxt /\ d.eof = c.eof /\ d.refused = c.refused
      BY Zenon, <1>12, SendKeeps
    <3>2. pcb' = d
      BY Zenon, <1>4, <2>1
    <3> HIDE DEF d
    <3> QED
      BY Zenon, <3>1, <3>2
  <2>2. CASE ~tell
    <3>1. pcb' = c
      BY Zenon, <1>4, <2>2
    <3>2. c.edge <= c.edge
      BY <1>14
    <3> QED
      BY Zenon, <1>12, <2>2, <3>1, <3>2
  <2> QED
    BY Zenon, <1>15, <2>1, <2>2
<1>17. pcb' \in Pcb
  BY Zenon, <1>16 DEF PcbInv, Core
<1>18. pcb'.edge \in Nat
  BY Zenon, <1>17, PcbFields
<1>19. pcb.edge <= pcb'.edge /\ told <= pcb'.edge /\ una <= c.nxt
  <2>1. pcb.edge <= pcb'.edge /\ pcb.nxt = c.nxt
    BY ZenonT(60), <1>9, <1>11, <1>16
  <2>2. told <= pcb'.edge
    BY SMTT(30), <1>1, <1>3, <1>18, <2>1
  <2> QED
    BY Zenon, <1>1, <2>1, <2>2
<1>20. una' \in Nat /\ una' <= c.nxt /\ told' \in Int /\ told' <= pcb'.edge
  <2> DEFINE edge == pcb'.edge
  <2>1. /\ (tell => edge = c.nxt + c.ann) /\ edge \in Nat /\ told <= edge
        /\ PeerHears(c, tell, lost) /\ una \in Nat /\ una <= c.nxt /\ told \in Int
    BY ZenonT(60), <1>1, <1>4, <1>16, <1>18, <1>19
  <2> HIDE DEF edge
  <2>2. una' \in Nat /\ una' <= c.nxt /\ told' \in Int /\ told' <= edge
    BY Zenon, <1>13, <1>15, <2>1, HearsRight
  <2> QED
    BY Zenon, <2>2 DEF edge
<1>21. PcbInv(pcb, got, used)'
  BY Zenon, <1>4, <1>16
<1>22. closed' \in BOOLEAN /\ (closed' => pcb'.eof /\ pcb'.refused = <<>>) /\ una' <= pcb'.nxt
  BY ZenonT(60), <1>1, <1>4, <1>9, <1>11, <1>16, <1>20
<1>23. IInv'
  BY Zenon, <1>20, <1>21, <1>22 DEF IInv
<1> QED
  BY Zenon, <1>19, <1>23

(* The timers: the delayed acknowledgement, refused data offered again, and *)
(* ooseq dropped (tcp_unified_timer_handler, tcp_fasttmr, tcp_slowtmr).     *)
LEMMA TimersKeep ==
  ASSUME IInv, \/ \E lost \in BOOLEAN : DelayedAck(lost)
               \/ \E ok \in BOOLEAN : tcp_fasttmr(ok)
               \/ DropOoseq
               \/ UNCHANGED vars
  PROVE  IInv' /\ pcb.edge <= pcb'.edge
<1>1. /\ PcbInv(pcb, got, used) /\ closed \in BOOLEAN
      /\ (closed => pcb.eof /\ pcb.refused = <<>>)
      /\ una \in Nat /\ una <= pcb.nxt /\ told \in Int /\ told <= pcb.edge
      /\ (pcb.rfin => pcb.eof)
  BY Zenon DEF IInv, PcbInv
<1>2. Core(pcb) /\ pcb \in Pcb
  BY Zenon, <1>1 DEF PcbInv, Core
<1>3. /\ pcb.nxt \in Nat /\ pcb.wnd \in Nat /\ pcb.ann \in Nat /\ pcb.edge \in Nat
  BY Zenon, <1>2, PcbFields
<1>4. pcb.edge <= pcb.edge
  BY <1>3
<1>5. ASSUME NEW lost \in BOOLEAN, DelayedAck(lost)
      PROVE  IInv' /\ pcb.edge <= pcb'.edge
  <2> DEFINE d == tcp_send_empty_ack(pcb)
  <2>1. /\ PcbInv(d, got, used) /\ d.edge = pcb.nxt + pcb.ann /\ pcb.edge <= d.edge
        /\ d.nxt = pcb.nxt /\ d.eof = pcb.eof /\ d.refused = pcb.refused
    BY Zenon, <1>1, SendKeeps
  <2>2. /\ pcb' = d /\ PeerHears(pcb, TRUE, lost)
        /\ got' = got /\ used' = used /\ closed' = closed
    BY Zenon, <1>5 DEF DelayedAck
  <2> HIDE DEF d
  <2>3. d \in Pcb
    BY Zenon, <2>1 DEF PcbInv, Core
  <2>4. d.edge \in Nat
    BY Zenon, <2>3, PcbFields
  <2>5. told <= d.edge
    BY SMTT(30), <1>1, <1>3, <2>1, <2>4
  <2>6. una' \in Nat /\ una' <= pcb.nxt /\ told' \in Int /\ told' <= d.edge
    <3> DEFINE edge == d.edge
    <3>1. edge \in Nat /\ told <= edge /\ edge = pcb.nxt + pcb.ann
      BY Zenon, <2>1, <2>4, <2>5
    <3> HIDE DEF edge
    <3>2. TRUE \in BOOLEAN
      BY Zenon
    <3>3. una' \in Nat /\ una' <= pcb.nxt /\ told' \in Int /\ told' <= edge
      BY Zenon, <1>1, <1>2, <1>5, <2>2, <3>1, <3>2, HearsRight
    <3> QED
      BY Zenon, <3>3 DEF edge
  <2>7. IInv'
    BY Zenon, <1>1, <2>1, <2>2, <2>6 DEF IInv
  <2> QED
    BY Zenon, <2>1, <2>2, <2>7
<1>6. ASSUME NEW ok \in BOOLEAN, tcp_fasttmr(ok)
      PROVE  IInv' /\ pcb.edge <= pcb'.edge
  <2>1. /\ pcb.refused # <<>> /\ pcb' = tcp_process_refused_data(ok)
        /\ got' = (IF ok THEN got \o pcb.refused ELSE got)
        /\ closed' = (closed \/ (pcb.rfin /\ ok))
        /\ used' = used /\ una' = una /\ told' = told
    BY Zenon, <1>6 DEF tcp_fasttmr
  <2>2. CASE ok
    <3> DEFINE d == Accepted(pcb)
               h == got \o pcb.refused
    <3>1. pcb' = d /\ got' = h
      BY Zenon, <2>1, <2>2 DEF tcp_process_refused_data
    <3>2. /\ PcbInv(d, h, used) /\ d.refused = <<>>
          /\ d.nxt = pcb.nxt /\ d.edge = pcb.edge /\ d.eof = pcb.eof
      BY Zenon, <1>1, <2>1, AcceptedRight
    <3> HIDE DEF d, h
    <3>3. closed' \in BOOLEAN /\ (closed' => pcb'.eof /\ pcb'.refused = <<>>)
      BY Zenon, <1>1, <2>1, <3>1, <3>2
    <3>4. PcbInv(pcb, got, used)'
      BY Zenon, <2>1, <3>1, <3>2
    <3>5. una' \in Nat /\ una' <= pcb'.nxt /\ told' \in Int /\ told' <= pcb'.edge
      BY Zenon, <1>1, <2>1, <3>1, <3>2
    <3>6. IInv'
      BY Zenon, <3>3, <3>4, <3>5 DEF IInv
    <3> QED
      BY Zenon, <1>4, <3>1, <3>2, <3>6
  <2>3. CASE ~ok
    <3>1. pcb' = pcb /\ got' = got /\ closed' = (closed \/ (pcb.rfin /\ FALSE))
      BY Zenon, <2>1, <2>3 DEF tcp_process_refused_data
    <3>2. closed' = closed
      BY Zenon, <1>1, <3>1
    <3>3. IInv'
      BY Zenon, <1>1, <2>1, <3>1, <3>2 DEF IInv
    <3> QED
      BY Zenon, <1>4, <3>1, <3>3
  <2> QED
    BY Zenon, <1>6, <2>2, <2>3
<1>7. CASE DropOoseq
  <2> DEFINE d == [pcb EXCEPT !.ooseq = <<>>]
  <2>1. /\ pcb' = d /\ got' = got /\ used' = used /\ closed' = closed
        /\ una' = una /\ told' = told
    BY Zenon, <1>7 DEF DropOoseq
  <2>2. <<>> \in Seq(Good) /\ Len(<<>>) = 0
    OBVIOUS
  <2>3. /\ d \in Pcb /\ d.nxt = pcb.nxt /\ d.wnd = pcb.wnd /\ d.ann = pcb.ann
        /\ d.edge = pcb.edge /\ d.refused = pcb.refused /\ d.rfin = pcb.rfin
        /\ d.eof = pcb.eof /\ d.ooseq = <<>>
    BY Zenon, <1>2, <2>2 DEF Pcb
  <2> HIDE DEF d
  <2>4. SortedIn(d.ooseq, d.nxt + 1, d.nxt + d.wnd)
    <3>1. 1 .. 0 = {}
      OBVIOUS
    <3>2. 1 .. Len(d.ooseq) = {} /\ d.ooseq \in Seq(Good)
      BY Zenon, <2>2, <2>3, <3>1
    <3> QED
      BY Zenon, <3>2 DEF SortedIn
  <2>5. Core(d)
    BY Zenon, <1>2, <2>3, <2>4 DEF Core
  <2>6. PcbInv(d, got, used)
    BY Zenon, <1>1, <2>3, <2>5 DEF PcbInv
  <2>7. IInv'
    BY Zenon, <1>1, <2>1, <2>3, <2>6 DEF IInv
  <2> QED
    BY Zenon, <1>4, <2>1, <2>3, <2>7
<1>8. CASE UNCHANGED vars
  <2>1. IInv' /\ pcb' = pcb
    BY Zenon, <1>8 DEF IInv, vars
  <2> QED
    BY Zenon, <1>4, <2>1
<1> QED
  BY ZenonT(60), <1>5, <1>6, <1>7, <1>8


(* A new connection satisfies the invariant.                                *)
LEMMA InitRight ==
  ASSUME Init
  PROVE  IInv
<1>1. /\ pcb = [nxt |-> 0, wnd |-> TCP_WND, ann |-> TCP_WND, edge |-> TCP_WND,
                ooseq |-> <<>>, refused |-> <<>>, rfin |-> FALSE,
                delack |-> FALSE, eof |-> FALSE]
      /\ got = <<>> /\ used = 0 /\ closed = FALSE
      /\ una = 0 /\ told = (TCP_WND \div UNIT) * UNIT
  BY Zenon DEF Init
<1>2. TCP_WND \in Nat /\ N \in Nat /\ N # 0
  BY Zenon, TcpReceiveAssumption
<1>3. told <= TCP_WND /\ told \in Nat
  BY Zenon, <1>1, <1>2, UnitsBelow
<1>4. <<>> \in Seq(Good) /\ <<>> \in Seq(Int) /\ Len(<<>>) = 0 /\ <<>> \o <<>> = <<>>
  OBVIOUS
<1>5. /\ pcb.nxt = 0 /\ pcb.wnd = TCP_WND /\ pcb.ann = TCP_WND /\ pcb.edge = TCP_WND
      /\ pcb.ooseq = <<>> /\ pcb.refused = <<>> /\ pcb.rfin = FALSE /\ pcb.eof = FALSE
  BY Zenon, <1>1
<1>6. pcb \in Pcb
  <2>1. 0 \in Nat
    OBVIOUS
  <2> QED
    BY Zenon, <1>1, <1>2, <1>4, <2>1 DEF Pcb
<1>7. SortedIn(pcb.ooseq, pcb.nxt + 1, pcb.nxt + pcb.wnd)
  <2>1. 1 .. 0 = {}
    OBVIOUS
  <2>2. 1 .. Len(pcb.ooseq) = {} /\ pcb.ooseq \in Seq(Good)
    BY Zenon, <1>4, <1>5, <2>1
  <2> QED
    BY Zenon, <2>2 DEF SortedIn
<1>8. Core(pcb)
  <2>1. TCP_WND <= TCP_WND /\ TCP_WND <= 0 + TCP_WND /\ 0 <= N + 1
    BY <1>2
  <2> QED
    BY Zenon, <1>5, <1>6, <1>7, <2>1 DEF Core
<1>9. pcb.eof <=> pcb.nxt = N + 1
  <2>1. 0 # N + 1
    BY <1>2
  <2> QED
    BY Zenon, <1>5, <2>1
<1>10. got \o pcb.refused = Bytes(0, IF pcb.eof THEN N ELSE pcb.nxt)
  <2>1. 0 \in Int /\ 0 <= 0
    OBVIOUS
  <2>2. Bytes(0, 0) = <<>>
    BY Zenon, <2>1, BytesEmpty
  <2> QED
    BY Zenon, <1>1, <1>4, <1>5, <2>2
<1>11. got \in Seq(Int) /\ used \in 0 .. Len(got)
  <2>1. 0 \in 0 .. 0
    OBVIOUS
  <2> QED
    BY Zenon, <1>1, <1>4, <2>1
<1>12. pcb.wnd + (Len(got) - used) + Len(pcb.refused) + (IF pcb.rfin THEN 1 ELSE 0) = TCP_WND
  <2>1. TCP_WND + (0 - 0) + 0 + 0 = TCP_WND
    BY <1>2
  <2> QED
    BY Zenon, <1>1, <1>4, <1>5, <2>1
<1>13. PcbInv(pcb, got, used)
  BY ZenonT(60), <1>5, <1>8, <1>9, <1>10, <1>11, <1>12 DEF PcbInv
<1>14. una \in Nat /\ una <= pcb.nxt /\ told \in Int /\ told <= pcb.edge
  <2>1. 0 \in Nat /\ 0 <= 0 /\ told \in Int
    BY <1>3
  <2> QED
    BY Zenon, <1>1, <1>3, <1>5, <2>1
<1> QED
  BY Zenon, <1>1, <1>13, <1>14 DEF IInv


-----------------------------------------------------------------------------

(* What the invariant says of the numbers.                                  *)
LEMMA NumbersRight ==
  ASSUME IInv
  PROVE  TypeOK /\ WindowAccount /\ EdgeKept
<1>1. /\ PcbInv(pcb, got, used) /\ closed \in BOOLEAN
      /\ una \in Nat /\ una <= pcb.nxt /\ told \in Int /\ told <= pcb.edge
  BY Zenon DEF IInv
<1>2. /\ Core(pcb) /\ pcb \in Pcb /\ pcb.nxt <= N + 1 /\ pcb.edge <= pcb.nxt + pcb.ann
      /\ pcb.ann <= pcb.wnd /\ SortedIn(pcb.ooseq, pcb.nxt + 1, pcb.nxt + pcb.wnd)
      /\ got \in Seq(Int) /\ used \in 0 .. Len(got)
      /\ pcb.wnd + (Len(got) - used) + Len(pcb.refused) + (IF pcb.rfin THEN 1 ELSE 0) = TCP_WND
  BY Zenon, <1>1 DEF PcbInv, Core
<1>3. /\ pcb.nxt \in Nat /\ pcb.wnd \in Nat /\ pcb.ann \in Nat /\ pcb.edge \in Nat
      /\ pcb.refused \in Seq(Int) /\ pcb.ooseq \in Seq(Good)
      /\ pcb.rfin \in BOOLEAN /\ pcb.delack \in BOOLEAN /\ pcb.eof \in BOOLEAN
  BY Zenon, <1>2, PcbFields
<1>4. /\ Len(got) \in Nat /\ Len(pcb.refused) \in Nat /\ used \in Nat /\ used <= Len(got)
      /\ TCP_WND \in Nat /\ N \in Nat /\ (IF pcb.rfin THEN 1 ELSE 0) \in Nat
  <2>1. got \in Seq(Int) /\ pcb.refused \in Seq(Int) /\ used \in 0 .. Len(got)
    BY Zenon, <1>2, <1>3
  <2>2. Len(got) \in Nat /\ Len(pcb.refused) \in Nat
    BY <2>1
  <2>3. used \in Nat /\ used <= Len(got)
    BY <2>1, <2>2
  <2>4. TCP_WND \in Nat /\ N \in Nat
    BY Zenon, TcpReceiveAssumption
  <2>5. 0 \in Nat /\ 1 \in Nat
    OBVIOUS
  <2> QED
    BY Zenon, <2>2, <2>3, <2>4, <2>5
<1>5. /\ pcb.wnd <= TCP_WND
      /\ pcb.wnd = TCP_WND - (Len(got) - used) - Len(pcb.refused) - (IF pcb.rfin THEN 1 ELSE 0)
  <2> DEFINE lg == Len(got)
             lr == Len(pcb.refused)
             f == IF pcb.rfin THEN 1 ELSE 0
             v == pcb.wnd
  <2>1. /\ lg \in Nat /\ lr \in Nat /\ f \in Nat /\ v \in Nat /\ used \in Nat /\ TCP_WND \in Nat
        /\ v + (lg - used) + lr + f = TCP_WND /\ used <= lg
    BY Zenon, <1>2, <1>3, <1>4
  <2> HIDE DEF lg, lr, f, v
  <2>2. v <= TCP_WND /\ v = TCP_WND - (lg - used) - lr - f
    BY <2>1
  <2> QED
    BY Zenon, <2>2 DEF lg, lr, f, v
<1>6. WindowAccount
  BY Zenon, <1>5 DEF WindowAccount
<1>7. EdgeKept
  <2>1. pcb.edge <= pcb.nxt + pcb.wnd
    BY SMTT(30), <1>2, <1>3
  <2> QED
    BY Zenon, <1>1, <2>1 DEF EdgeKept
<1>8. /\ pcb.nxt \in 0 .. N + 1 /\ pcb.wnd \in 0 .. TCP_WND
      /\ pcb.ann \in 0 .. TCP_WND /\ pcb.edge \in 0 .. N + 1 + TCP_WND
      /\ una \in 0 .. N + 1
  <2>1. /\ pcb.nxt \in Nat /\ pcb.wnd \in Nat /\ pcb.ann \in Nat /\ pcb.edge \in Nat
        /\ una \in Nat /\ N \in Nat /\ TCP_WND \in Nat
        /\ una <= pcb.nxt /\ pcb.nxt <= N + 1 /\ pcb.edge <= pcb.nxt + pcb.ann
        /\ pcb.ann <= pcb.wnd /\ pcb.wnd <= TCP_WND
    BY Zenon, <1>1, <1>2, <1>3, <1>4, <1>5
  <2> QED
    BY <2>1
<1>9. ASSUME NEW i \in DOMAIN pcb.ooseq
      PROVE  pcb.ooseq[i] \in [seq : 0 .. N, d : Seq(0 .. N), fin : BOOLEAN]
  <2> DEFINE s == pcb.ooseq[i]
  <2>1. s \in Good
    <3>1. DOMAIN pcb.ooseq = 1 .. Len(pcb.ooseq)
      BY <1>3
    <3>2. i \in 1 .. Len(pcb.ooseq) /\ pcb.nxt + 1 \in Int /\ pcb.nxt + pcb.wnd \in Int
      BY <1>3, <3>1
    <3> QED
      BY Zenon, <1>2, <3>2, SortedFields
  <2> HIDE DEF s
  <2>2. s \in [seq : 0 .. N, d : Seq(Int), fin : BOOLEAN]
    BY Zenon, <2>1 DEF Good
  <2>3. s.d \in Seq(0 .. N)
    <3>1. /\ s.seq \in Nat /\ len(s) \in Nat /\ s.seq + len(s) <= N
          /\ s.d = Bytes(s.seq, s.seq + len(s))
      BY Zenon, <2>1, GoodFields
    <3> DEFINE a == s.seq
               k == len(s)
    <3>2. s.d = [j \in 1 .. (a + k) - a |-> a + j - 1]
      BY Zenon, <3>1 DEF Bytes
    <3>3. a \in Nat /\ k \in Nat /\ a + k <= N
      BY Zenon, <3>1
    <3> HIDE DEF a, k
    <3>4. (a + k) - a = k
      BY <3>3
    <3>5. ASSUME NEW j \in 1 .. k
          PROVE  a + j - 1 \in 0 .. N
      BY <1>4, <3>3
    <3>6. [j \in 1 .. k |-> a + j - 1] \in Seq(0 .. N)
      BY <3>3, <3>5
    <3> QED
      BY Zenon, <3>2, <3>4, <3>6
  <2>4. s \in [seq : 0 .. N, d : Seq(0 .. N), fin : BOOLEAN]
    BY Zenon, <2>2, <2>3
  <2> QED
    BY Zenon, <2>4 DEF s
<1>10. {pcb.rfin, pcb.delack, pcb.eof, closed} \subseteq BOOLEAN
  BY Zenon, <1>1, <1>3
<1> QED
  BY Zenon, <1>2, <1>6, <1>7, <1>8, <1>9, <1>10 DEF TypeOK

(* What the invariant says of the bytes of the stream.                      *)
LEMMA StreamRight ==
  ASSUME IInv
  PROVE  InOrder /\ OoseqSorted
<1>1. /\ PcbInv(pcb, got, used) /\ closed \in BOOLEAN
      /\ (closed => pcb.eof /\ pcb.refused = <<>>)
  BY Zenon DEF IInv
<1>2. /\ pcb \in Pcb /\ pcb.nxt <= N + 1
      /\ SortedIn(pcb.ooseq, pcb.nxt + 1, pcb.nxt + pcb.wnd)
      /\ got \in Seq(Int) /\ (pcb.eof <=> pcb.nxt = N + 1)
      /\ got \o pcb.refused = Bytes(0, IF pcb.eof THEN N ELSE pcb.nxt)
  BY Zenon, <1>1 DEF PcbInv, Core
<1>3. /\ pcb.nxt \in Nat /\ pcb.wnd \in Nat /\ pcb.refused \in Seq(Int)
      /\ pcb.ooseq \in Seq(Good) /\ pcb.eof \in BOOLEAN
  BY Zenon, <1>2, PcbFields
<1>4. N \in Nat
  BY Zenon, TcpReceiveAssumption
<1>5. InOrder
  <2> DEFINE e == IF pcb.eof THEN N ELSE pcb.nxt
             l == Len(got) + Len(pcb.refused)
  <2>1. e \in Nat /\ 0 \in Int /\ e \in Int /\ 0 <= e /\ e - 0 = e
    BY <1>3, <1>4
  <2>2. Len(got \o pcb.refused) = l
    BY <1>2, <1>3
  <2>3. got \o pcb.refused = Bytes(0, e)
    BY Zenon, <1>2
  <2> HIDE DEF e, l
  <2>4. Len(Bytes(0, e)) = e - 0
    BY Zenon, <2>1, BytesType
  <2>5. l = e
    BY Zenon, <2>1, <2>2, <2>3, <2>4
  <2>6. got \o pcb.refused = [i \in 1 .. l |-> i - 1]
    <3>1. [i \in 1 .. e - 0 |-> 0 + i - 1] = [i \in 1 .. e |-> i - 1]
      BY <2>1
    <3> QED
      BY Zenon, <2>3, <2>5, <3>1 DEF Bytes
  <2>7. pcb.nxt = l + (IF pcb.eof THEN 1 ELSE 0)
    <3>1. CASE pcb.eof
      <4>1. l = N /\ pcb.nxt = N + 1
        BY Zenon, <1>2, <2>5, <3>1 DEF e
      <4> QED
        BY Zenon, <3>1, <4>1
    <3>2. CASE ~pcb.eof
      <4>1. l = pcb.nxt
        BY Zenon, <2>5, <3>2 DEF e
      <4>2. l = l + 0
        BY <2>1, <2>5
      <4> QED
        BY Zenon, <3>2, <4>1, <4>2
    <3> QED
      BY Zenon, <3>1, <3>2
  <2>8. closed => Len(got) = N
    <3>1. ASSUME closed
          PROVE  Len(got) = N
      <4>1. e = N /\ pcb.refused = <<>>
        BY Zenon, <1>1, <3>1 DEF e
      <4>2. Len(pcb.refused) = 0 /\ Len(got) \in Nat
        BY <1>2, <4>1
      <4>3. Len(got) + 0 = N
        BY Zenon, <2>5, <4>1, <4>2 DEF l
      <4> QED
        BY <4>2, <4>3
    <3> QED
      BY Zenon, <3>1
  <2> QED
    BY Zenon, <2>6, <2>7, <2>8 DEF InOrder, l
<1>6. OoseqSorted
  <2> DEFINE q == pcb.ooseq
             lo == pcb.nxt + 1
             hi == pcb.nxt + pcb.wnd
             last(i) == IF i = Len(q) THEN hi ELSE q[i + 1].seq
  <2>1. lo \in Int /\ hi \in Int /\ SortedIn(q, lo, hi) /\ lo = pcb.nxt + 1
    BY SMTT(30), <1>2, <1>3
  <2>2. DOMAIN q = 1 .. Len(q)
    BY <1>3
  <2>3. Len(q) \in Nat
    BY <1>3
  <2> HIDE DEF q, lo, hi
  <2>4. ASSUME NEW i \in DOMAIN q
        PROVE  LET s == q[i]
               IN /\ s.seq > pcb.nxt /\ s.seq + TCPLEN(s) <= last(i)
                  /\ s.d = Segment(s.seq, s.seq + len(s), FALSE).d
                  /\ s.fin => s.seq + len(s) = N
                  /\ len(s) = 0 => s.fin
    <3> DEFINE s == q[i]
    <3>1. i \in 1 .. Len(q)
      BY Zenon, <2>2
    <3>2. s \in Good
      BY Zenon, <2>1, <3>1, SortedFields
    <3>3. lo <= s.seq /\ End(s) <= hi
      BY Zenon, <2>1, <3>1 DEF SortedIn
    <3>4. i # Len(q) => End(s) <= q[i + 1].seq
      <4>1. ASSUME i # Len(q)
            PROVE  End(s) <= q[i + 1].seq
        <5>1. i + 1 \in 1 .. Len(q) /\ i < i + 1
          BY SMTT(30), <2>3, <3>1, <4>1
        <5> QED
          BY Zenon, <2>1, <3>1, <5>1 DEF SortedIn
      <4> QED
        BY Zenon, <4>1
    <3> HIDE DEF s
    <3>5. /\ s.seq \in Nat /\ s.d = Bytes(s.seq, s.seq + len(s)) /\ s.fin \in BOOLEAN
          /\ (s.fin => s.seq + len(s) = N) /\ TCPLEN(s) \in Nat /\ TCPLEN(s) > 0
          /\ TCPLEN(s) = (IF s.fin THEN len(s) + 1 ELSE len(s))
      BY Zenon, <3>2, GoodFields
    <3>6. s.seq > pcb.nxt
      BY SMTT(30), <1>3, <2>1, <3>3, <3>5
    <3>7. s.seq + TCPLEN(s) <= last(i)
      BY Zenon, <3>3, <3>4 DEF End
    <3>8. s.d = Segment(s.seq, s.seq + len(s), FALSE).d
      <4> DEFINE a == s.seq
                 b == s.seq + len(s)
      <4>1. s.d = Bytes(a, b)
        BY Zenon, <3>5
      <4> HIDE DEF a, b
      <4>2. Segment(a, b, FALSE).d = Bytes(a, b)
        BY Zenon DEF Segment, Bytes
      <4> QED
        BY Zenon, <4>1, <4>2 DEF a, b
    <3>9. len(s) = 0 => s.fin
      <4>1. ASSUME len(s) = 0, ~s.fin
            PROVE  FALSE
        <5>1. TCPLEN(s) = 0
          BY Zenon, <3>5, <4>1
        <5> QED
          BY SMTT(30), <3>5, <5>1
      <4> QED
        BY Zenon, <3>5, <4>1
    <3> QED
      BY ZenonT(60), <3>5, <3>6, <3>7, <3>8, <3>9 DEF s
  <2> QED
    BY Zenon, <2>4 DEF OoseqSorted, q, hi
<1> QED
  BY Zenon, <1>5, <1>6

(* Every step of the receiver, the timers and the application keeps the     *)
(* invariant, and none moves the announced right edge back.                 *)
LEMMA StepRight ==
  ASSUME NatFacts, IInv, [Next]_vars
  PROVE  IInv' /\ pcb.edge <= pcb'.edge
<1>1. CASE Segments
  <2>1. PICK s \in Pieces, again \in BOOLEAN, ok \in BOOLEAN, lost \in BOOLEAN :
          PeerSends(s) /\ tcp_input(s, again, ok, lost)
    BY Zenon, <1>1 DEF Segments
  <2> QED
    BY Zenon, <2>1, InputKeeps
<1>2. CASE \E n \in 1 .. TCP_WND, lost \in BOOLEAN : tcp_recved(n, lost)
  BY Zenon, <1>2, RecvedKeeps
<1>3. CASE \E lost \in BOOLEAN : DelayedAck(lost)
  BY Zenon, <1>3, TimersKeep
<1>4. CASE \E ok \in BOOLEAN : tcp_fasttmr(ok)
  BY Zenon, <1>4, TimersKeep
<1>5. CASE DropOoseq
  BY Zenon, <1>5, TimersKeep
<1>6. CASE UNCHANGED vars
  BY Zenon, <1>6, TimersKeep
<1> QED
  BY Zenon, <1>1, <1>2, <1>3, <1>4, <1>5, <1>6 DEF Next

-----------------------------------------------------------------------------
INSTANCE FiniteSetTheorems

(* The naturals are well-founded, and an interval is as long as it is.      *)
LEMMA NatRight == NatFacts
<1>1. ASSUME NEW T \in SUBSET Nat, T # {} PROVE \E m \in T : \A n \in T : m <= n
  <2> DEFINE R == {ss \in Nat \X Nat : ss[1] < ss[2]}
  <2>1. IsWellFoundedOn(R, Nat)
    BY Zenon, NatLessThanWellFounded DEF OpToRel
  <2> HIDE DEF R
  <2>2. PICK x \in T : \A y \in T : ~ (<<y, x>> \in R)
    BY Zenon, <1>1, <2>1, WFMin
  <2>3. \A y \in T : ~(y < x)
    BY Zenon, <2>2 DEF R
  <2> QED
    BY <2>3
<1>2. ASSUME NEW m \in Nat PROVE Cardinality(1 .. m) = m
  <2>1. 1 \in Int /\ m \in Int /\ m >= 0
    OBVIOUS
  <2>2. Cardinality(1 .. m) = IF 1 > m THEN 0 ELSE m - 1 + 1
    BY Zenon, <2>1, FS_Interval
  <2> QED
    BY <2>1, <2>2
<1> QED
  BY Zenon, <1>1, <1>2 DEF NatFacts

(* The inductive invariant of the receiver holds in every reachable state,  *)
(* whatever the peer sends and whatever is lost.                            *)
THEOREM ReceiverInvariant == Spec => []IInv
<1>1. Init => IInv
  BY Zenon, InitRight
<1>2. IInv /\ [Next]_vars => IInv'
  BY Zenon, NatRight, StepRight
<1> QED
  BY <1>1, <1>2, PTL DEF Spec

(* The application gets the peer's stream in order, ooseq stays sorted      *)
(* within the window, and the window accounts for every byte, for streams,  *)
(* windows and segment sizes of any length (tcp_receive).                   *)
THEOREM StreamReceived == Spec => []ReceiverSound
<1>1. IInv => ReceiverSound
  BY Zenon, NumbersRight, StreamRight DEF ReceiverSound
<1> QED
  BY <1>1, ReceiverInvariant, PTL

(* No step moves the announced right edge of the window back                *)
(* (tcp_update_rcv_ann_wnd).                                                *)
THEOREM RightEdgeAdvances == Spec => EdgeAdvances
<1>1. IInv /\ [Next]_vars => [pcb'.edge >= pcb.edge]_vars
  <2> SUFFICES ASSUME IInv, [Next]_vars
               PROVE  pcb'.edge >= pcb.edge
    OBVIOUS
  <2>1. IInv' /\ pcb.edge <= pcb'.edge
    BY Zenon, NatRight, StepRight
  <2>2. pcb \in Pcb /\ pcb' \in Pcb
    BY Zenon, <2>1 DEF IInv, PcbInv, Core
  <2>3. pcb.edge \in Nat /\ pcb'.edge \in Nat
    BY Zenon, <2>2, PcbFields
  <2> QED
    BY ZenonT(30), <2>1, <2>3
<1> QED
  BY <1>1, ReceiverInvariant, PTL DEF Spec, EdgeAdvances
=============================================================================
