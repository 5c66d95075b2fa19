--------------------------- MODULE Storage_proofs ---------------------------
(***************************************************************************)
(* What was stored is found again.  The audit log tells what happened;     *)
(* saved sessions stay readable whatever rotates beside them, and the      *)
(* vault implements the store of SessionStore: proofs for every number of  *)
(* callers, contents, environments, clients, sessions and keys, and every  *)
(* order of calls and faults.                                              *)
(***************************************************************************)
EXTENDS AuditLog, SessionVault, FiniteSetTheorems, SequenceTheorems,
        WellFoundedInduction, TLAPS

(* A set of natural numbers with an element has a least one.                *)
LEMMA LeastOf ==
    ASSUME NEW T \in SUBSET Nat, T # {}
    PROVE  \E x \in T : \A y \in T : x <= y
<1>1. IsWellFoundedOn(OpToRel(<, Nat), Nat)
  BY NatLessThanWellFounded
<1>2. IsWellFoundedOn({ss \in Nat \X Nat : ss[1] < ss[2]}, Nat)
  BY <1>1 DEF OpToRel
<1>3. PICK x \in T : \A y \in T :
         ~ (<<y, x>> \in {ss \in Nat \X Nat : ss[1] < ss[2]})
  BY <1>2, WFMin, Zenon
<1>4. \A y \in T : ~ (y < x)
  BY <1>3
<1> QED BY <1>4

-----------------------------------------------------------------------------
(* The audit log.                                                           *)

(* Bytes' equation for the first m lines of a file.                         *)
CountsTo(b, f, m) ==
    b = [k \in 0 .. m |-> IF k = 0 THEN 0 ELSE b[k - 1] + EventSize(f[k].ev)]

(* The recursive definition of Bytes defines a function.                    *)
LEMMA BytesEquation ==
    ASSUME NEW f, Len(f) \in Nat
    PROVE  CountsTo(Bytes(f), f, Len(f))
<1>1. ASSUME NEW x \in Nat, x # 0, NEW g, CountsTo(g, f, x - 1)
      PROVE  \E b : CountsTo(b, f, x)
  <2> PICK last : last = g[x - 1] + EventSize(f[x].ev)
    OBVIOUS
  <2> PICK b : b = [n \in 0 .. x |-> IF n = x THEN last ELSE g[n]]
    OBVIOUS
  <2>1. \A n \in 0 .. x - 1 : /\ n \in 0 .. x /\ n # x /\ b[n] = g[n]
                              /\ n # 0 => n - 1 \in 0 .. x - 1
    BY <1>1
  <2>2. x - 1 \in 0 .. x - 1 /\ b[x] = last /\ b[x - 1] = g[x - 1]
    BY <1>1, <2>1
  <2>3. ASSUME NEW n \in 0 .. x
        PROVE  b[n] = IF n = 0 THEN 0 ELSE b[n - 1] + EventSize(f[n].ev)
    <3>1. CASE n = x
      BY <1>1, <2>2, <3>1
    <3>2. CASE n # x
      <4>1. n \in 0 .. x - 1
        BY <1>1, <2>3, <3>2
      <4>2. g[n] = IF n = 0 THEN 0 ELSE g[n - 1] + EventSize(f[n].ev)
        BY <1>1, <4>1 DEF CountsTo
      <4> QED BY <2>1, <4>1, <4>2
    <3> QED BY <3>1, <3>2
  <2>4. CountsTo(b, f, x)
    BY <2>3 DEF CountsTo
  <2> QED BY <2>4
<1>2. \E b : CountsTo(b, f, 0)
  <2> PICK b : b = [n \in 0 .. 0 |-> 0]
    OBVIOUS
  <2>1. CountsTo(b, f, 0)
    BY DEF CountsTo
  <2> QED BY <2>1
<1>3. \A m \in Nat : \E b : CountsTo(b, f, m)
  <2> SUFFICES ASSUME {m \in Nat : ~ \E b : CountsTo(b, f, m)} # {} PROVE FALSE
    OBVIOUS
  <2> PICK T : T = {m \in Nat : ~ \E b : CountsTo(b, f, m)}
    OBVIOUS
  <2>1. PICK x \in T : \A y \in T : x <= y
    BY LeastOf
  <2>2. x \in Nat /\ x # 0 /\ x - 1 \in Nat /\ x - 1 \notin T
    BY <1>2, <2>1
  <2> QED BY <1>1, <2>1, <2>2
<1>4. \E b : CountsTo(b, f, Len(f))
  BY <1>3
<1> QED BY <1>4 DEF Bytes, CountsTo

(* The pieces of lines.                                                     *)
LogPieces == [ev : LogEvents, whole : BOOLEAN, safe : BOOLEAN]

(* Events have a size.                                                      *)
LEMMA SizesCount ==
    ASSUME NEW e \in LogEvents
    PROVE  EventSize(e) \in Nat
<1>1. e.id \in Nat
  BY DEF LogEvents, CallEvents, UpdateEvents
<1>2. e.id % 2 \in Nat
  BY <1>1
<1> QED BY <1>2 DEF EventSize

(* The first line and the next.                                             *)
LEMMA BytesOfNext ==
    ASSUME NEW f \in Seq(LogPieces)
    PROVE  /\ Bytes(f)[0] = 0
           /\ \A k \in 1 .. Len(f) : Bytes(f)[k] = Bytes(f)[k - 1] + EventSize(f[k].ev)
<1>1. Len(f) \in Nat
  OBVIOUS
<1>2. Bytes(f) = [k \in 0 .. Len(f) |->
                     IF k = 0 THEN 0 ELSE Bytes(f)[k - 1] + EventSize(f[k].ev)]
  BY <1>1, BytesEquation DEF CountsTo
<1>3. PICK b : b = Bytes(f)
  OBVIOUS
<1>4. b = [k \in 0 .. Len(f) |-> IF k = 0 THEN 0 ELSE b[k - 1] + EventSize(f[k].ev)]
  BY <1>2, <1>3
<1>5. b[0] = 0 /\ \A k \in 1 .. Len(f) : b[k] = b[k - 1] + EventSize(f[k].ev)
  BY <1>1, <1>4
<1> QED BY <1>3, <1>5

(* Bytes are counted, and grow along a file.                                *)
LEMMA BytesGrow ==
    ASSUME NEW f \in Seq(LogPieces)
    PROVE  \A k \in 0 .. Len(f) : /\ Bytes(f)[k] \in Nat
                                  /\ Bytes(f)[k] <= Bytes(f)[Len(f)]
<1> PICK b : b = Bytes(f)
  OBVIOUS
<1>0. Len(f) \in Nat
  OBVIOUS
<1>1. b[0] = 0 /\ \A k \in 1 .. Len(f) : b[k] = b[k - 1] + EventSize(f[k].ev)
  BY BytesOfNext
<1>2. \A k \in 1 .. Len(f) : EventSize(f[k].ev) \in Nat
  <2>1. \A k \in 1 .. Len(f) : f[k] \in LogPieces
    OBVIOUS
  <2>2. \A p \in LogPieces : p.ev \in LogEvents
    BY DEF LogPieces
  <2> QED BY <2>1, <2>2, SizesCount
<1>3. \A k \in 0 .. Len(f) : b[k] \in Nat
  <2> SUFFICES ASSUME {k \in 0 .. Len(f) : b[k] \notin Nat} # {} PROVE FALSE
    OBVIOUS
  <2> PICK T : T = {k \in 0 .. Len(f) : b[k] \notin Nat}
    OBVIOUS
  <2>0. T \in SUBSET Nat /\ T # {}
    BY <1>0
  <2>1. PICK x \in T : \A y \in T : x <= y
    BY <2>0, LeastOf
  <2>2. x \in 1 .. Len(f) /\ x - 1 \in 0 .. Len(f) /\ x - 1 \notin T
    BY <1>0, <1>1, <2>1
  <2> QED BY <1>1, <1>2, <2>1, <2>2
<1>4. \A k \in 0 .. Len(f) : b[k] <= b[Len(f)]
  <2> DEFINE n == Len(f)
  <2> SUFFICES ASSUME {d \in 0 .. n : ~ (b[n - d] <= b[n])} # {} PROVE FALSE
    <3>1. \A k \in 0 .. n : n - k \in 0 .. n /\ n - (n - k) = k
      BY <1>0
    <3> QED BY <3>1
  <2> PICK T : T = {d \in 0 .. n : ~ (b[n - d] <= b[n])}
    OBVIOUS
  <2>0. T \in SUBSET Nat /\ T # {}
    BY <1>0
  <2>1. PICK x \in T : \A y \in T : x <= y
    BY <2>0, LeastOf
  <2>2. n - 0 = n /\ n \in 0 .. n /\ b[n] \in Nat
    BY <1>0, <1>3
  <2>3. x # 0
    BY <2>1, <2>2
  <2>4. x \in 1 .. n /\ x - 1 \in 0 .. n /\ x - 1 \notin T
    BY <1>0, <2>1, <2>3
  <2>5. PICK i : i = n - x
    OBVIOUS
  <2>6. /\ i \in 0 .. n /\ i + 1 \in 1 .. n /\ n - (x - 1) = i + 1 /\ (i + 1) - 1 = i
    BY <1>0, <2>4, <2>5
  <2>7. b[i + 1] = b[i] + EventSize(f[i + 1].ev) /\ EventSize(f[i + 1].ev) \in Nat
    BY <1>1, <1>2, <2>6
  <2>8. b[i + 1] <= b[n]
    BY <2>4, <2>6
  <2>9. b[i] \in Nat /\ b[i + 1] \in Nat
    BY <1>3, <2>6
  <2>10. b[i] <= b[n]
    BY <2>2, <2>7, <2>8, <2>9
  <2> QED BY <2>1, <2>5, <2>10
<1> QED BY <1>3, <1>4

(* Files with the same events up to n have the same bytes up to n.          *)
LEMMA BytesAgree ==
    ASSUME NEW f \in Seq(LogPieces), NEW g \in Seq(LogPieces), NEW n \in Nat,
           n <= Len(f), n <= Len(g), \A k \in 1 .. n : f[k].ev = g[k].ev
    PROVE  Bytes(f)[n] = Bytes(g)[n]
<1> PICK b, c : b = Bytes(f) /\ c = Bytes(g)
  OBVIOUS
<1>0. 1 .. n \subseteq 1 .. Len(f) /\ 1 .. n \subseteq 1 .. Len(g)
  OBVIOUS
<1>1. b[0] = 0 /\ \A k \in 1 .. n : b[k] = b[k - 1] + EventSize(f[k].ev)
  BY <1>0, BytesOfNext
<1>2. c[0] = 0 /\ \A k \in 1 .. n : c[k] = c[k - 1] + EventSize(g[k].ev)
  BY <1>0, BytesOfNext
<1>3. \A k \in 1 .. n : EventSize(f[k].ev) = EventSize(g[k].ev)
  BY DEF EventSize
<1>4. \A k \in 0 .. n : b[k] = c[k]
  <2> SUFFICES ASSUME {k \in 0 .. n : b[k] # c[k]} # {} PROVE FALSE
    OBVIOUS
  <2> PICK T : T = {k \in 0 .. n : b[k] # c[k]}
    OBVIOUS
  <2>0. T \in SUBSET Nat /\ T # {}
    OBVIOUS
  <2>1. PICK x \in T : \A y \in T : x <= y
    BY <2>0, LeastOf
  <2>2. x \in 1 .. n /\ x - 1 \in 0 .. n /\ x - 1 \notin T
    BY <1>1, <1>2, <2>1
  <2> QED BY <1>1, <1>2, <1>3, <2>1, <2>2
<1> QED BY <1>4
(* What is left of a file that was cut is no longer than it was.            *)
LEMMA BytesOfCut ==
    ASSUME NEW f \in Seq(LogPieces), NEW n \in 0 .. Len(f), NEW g \in Seq(LogPieces),
           g = SubSeq(f, 1, n)
    PROVE  /\ Len(g) = n /\ \A k \in 1 .. n : g[k] = f[k]
           /\ Bytes(g)[Len(g)] <= Bytes(f)[Len(f)]
<1>1. Len(g) = n /\ \A k \in 1 .. n : g[k] = f[k]
  BY SubSeqProperties
<1>2. n \in Nat /\ n <= Len(f) /\ n <= Len(g) /\ \A k \in 1 .. n : f[k].ev = g[k].ev
  BY <1>1
<1>3. Bytes(f)[n] = Bytes(g)[n]
  BY <1>2, BytesAgree
<1>4. Bytes(f)[n] <= Bytes(f)[Len(f)]
  BY BytesGrow
<1> QED BY <1>1, <1>3, <1>4

(* A piece is put behind the last file's; a safe one makes those before it  *)
(* in the file safe, and nothing else changes.                              *)
Appended(fs, p, r) ==
    /\ r \in Seq(Seq(LogPieces)) /\ Len(r) = Len(fs) /\ Len(fs) \in Nat \ {0}
    /\ \A n \in 1 .. Len(fs) - 1 : r[n] = fs[n]
    /\ fs[Len(fs)] \in Seq(LogPieces) /\ r[Len(fs)] \in Seq(LogPieces)
    /\ Len(r[Len(fs)]) = Len(fs[Len(fs)]) + 1
    /\ r[Len(fs)][Len(fs[Len(fs)]) + 1] = p
    /\ \A k \in 1 .. Len(fs[Len(fs)]) :
         /\ r[Len(fs)][k].ev = fs[Len(fs)][k].ev
         /\ r[Len(fs)][k].whole = fs[Len(fs)][k].whole
         /\ fs[Len(fs)][k].safe => r[Len(fs)][k].safe

(* Appending a piece leaves every other piece, its event and its bytes.     *)
LEMMA AppendedPiece ==
    ASSUME NEW fs \in Seq(Seq(LogPieces)), fs # <<>>, NEW p \in LogPieces,
           NEW r, r = AppendPiece(fs, p)
    PROVE  Appended(fs, p, r)
<1> PICK m : m = Len(fs)
  OBVIOUS
<1>1. m \in Nat \ {0} /\ m \in 1 .. m
  OBVIOUS
<1> PICK f : f = fs[m]
  OBVIOUS
<1>2. f \in Seq(LogPieces) /\ Len(f) \in Nat /\ DOMAIN f = 1 .. Len(f)
  BY <1>1
<1> PICK g : g = IF p.safe THEN [k \in DOMAIN f |-> [f[k] EXCEPT !.safe = TRUE]] ELSE f
  OBVIOUS
<1>3. r = [fs EXCEPT ![m] = Append(g, p)]
  BY DEF AppendPiece
<1>4. \A q \in LogPieces : [q EXCEPT !.safe = TRUE] \in LogPieces
                            /\ [q EXCEPT !.safe = TRUE].ev = q.ev
                            /\ [q EXCEPT !.safe = TRUE].whole = q.whole
                            /\ [q EXCEPT !.safe = TRUE].safe
  BY DEF LogPieces
<1>5. \A k \in 1 .. Len(f) : f[k] \in LogPieces
  BY <1>2
<1>6. g \in Seq(LogPieces) /\ Len(g) = Len(f)
  <2>1. CASE p.safe
    <3>1. g = [k \in 1 .. Len(f) |-> [f[k] EXCEPT !.safe = TRUE]]
      BY <1>2, <2>1
    <3>2. g \in [1 .. Len(f) -> LogPieces]
      BY <1>4, <1>5, <3>1
    <3> QED BY <1>2, <3>2
  <2>2. CASE ~ p.safe
    BY <1>2, <2>2
  <2> QED BY <2>1, <2>2
<1>7. \A k \in 1 .. Len(f) : /\ g[k].ev = f[k].ev /\ g[k].whole = f[k].whole
                             /\ f[k].safe => g[k].safe
  <2>1. CASE p.safe
    <3>1. \A k \in 1 .. Len(f) : g[k] = [f[k] EXCEPT !.safe = TRUE]
      BY <1>2, <2>1
    <3> QED BY <1>4, <1>5, <3>1
  <2>2. CASE ~ p.safe
    BY <1>2, <2>2
  <2> QED BY <2>1, <2>2
<1> PICK h : h = Append(g, p)
  OBVIOUS
<1>8. /\ h \in Seq(LogPieces) /\ Len(h) = Len(f) + 1 /\ h[Len(f) + 1] = p
      /\ \A k \in 1 .. Len(f) : h[k] = g[k]
  BY <1>2, <1>6
<1>9. r = [fs EXCEPT ![m] = h]
  BY <1>3
<1>10. /\ r \in Seq(Seq(LogPieces)) /\ Len(r) = m /\ r[m] = h
       /\ \A n \in 1 .. m - 1 : r[n] = fs[n]
  <2> PICK S : S = Seq(LogPieces)
    OBVIOUS
  <2>1. fs \in Seq(S) /\ h \in S
    BY <1>8
  <2>2. DOMAIN fs = 1 .. m /\ \A n \in 1 .. m : fs[n] \in S
    BY <2>1
  <2>3. r = [n \in 1 .. m |-> IF n = m THEN h ELSE fs[n]]
    BY <2>2, <1>9
  <2>4. \A n \in 1 .. m : (IF n = m THEN h ELSE fs[n]) \in S
    BY <2>1, <2>2
  <2>5. r \in [1 .. m -> S]
    BY <2>3, <2>4
  <2>6. r \in Seq(S) /\ Len(r) = m
    BY <2>3, <2>5, <1>1
  <2>7. r[m] = h /\ \A n \in 1 .. m - 1 : r[n] = fs[n]
    BY <2>3, <1>1
  <2> QED BY <2>6, <2>7
<1>11. \A k \in 1 .. Len(f) : /\ h[k].ev = f[k].ev /\ h[k].whole = f[k].whole
                              /\ f[k].safe => h[k].safe
  BY <1>7, <1>8
<1>12. Len(fs) = m /\ fs[Len(fs)] = f /\ r[Len(fs)] = h
  BY <1>10
<1>13. /\ r \in Seq(Seq(LogPieces)) /\ Len(r) = Len(fs) /\ Len(fs) \in Nat \ {0}
       /\ \A n \in 1 .. Len(fs) - 1 : r[n] = fs[n]
  BY <1>1, <1>10
<1> QED BY <1>2, <1>8, <1>11, <1>12, <1>13 DEF Appended

(* One piece more is on file, behind all others, which are what they were.  *)
Grown(top, p) ==
    /\ files' \in Seq(Seq(LogPieces))
    /\ top \notin Pieces /\ Pieces' = Pieces \cup {top} /\ files'[top[1]][top[2]] = p
    /\ \A q \in Pieces : /\ Sooner(q, top) /\ ~ Sooner(top, q)
                         /\ files'[q[1]][q[2]].ev = PieceAt(q).ev
                         /\ files'[q[1]][q[2]].whole = PieceAt(q).whole
                         /\ PieceAt(q).safe => files'[q[1]][q[2]].safe
    /\ ~ Sooner(top, top)

(* The pieces, one by one.                                                  *)
PiecesShape ==
           /\ \A p \in Pieces : /\ p = <<p[1], p[2]>>
                                /\ p[1] \in 1 .. Len(files)
                                /\ p[2] \in 1 .. Len(files[p[1]])
                                /\ p[1] \in Nat /\ p[2] \in Nat
                                /\ PieceAt(p) \in LogPieces
           /\ \A n \in 1 .. Len(files) : \A k \in 1 .. Len(files[n]) : <<n, k>> \in Pieces
           /\ Len(files) \in Nat
           /\ \A n \in 1 .. Len(files) : files[n] \in Seq(LogPieces) /\ Len(files[n]) \in Nat

(* Every piece has its file and its place, and every place its piece.       *)
LEMMA PiecesAre ==
    ASSUME files \in Seq(Seq(LogPieces))
    PROVE  PiecesShape
<1>1. /\ DOMAIN files = 1 .. Len(files) /\ Len(files) \in Nat
      /\ \A n \in 1 .. Len(files) : files[n] \in Seq(LogPieces)
  OBVIOUS
<1>2. \A n \in 1 .. Len(files) : /\ DOMAIN files[n] = 1 .. Len(files[n])
                                 /\ Len(files[n]) \in Nat
                                 /\ \A k \in 1 .. Len(files[n]) : files[n][k] \in LogPieces
  BY <1>1
<1>3. \A p \in Pieces : \E n \in 1 .. Len(files) : \E k \in 1 .. Len(files[n]) : p = <<n, k>>
  BY <1>1, <1>2 DEF Pieces
<1>4. \A n \in 1 .. Len(files) : \A k \in 1 .. Len(files[n]) : <<n, k>> \in Pieces
  BY <1>1, <1>2 DEF Pieces
<1> QED BY <1>1, <1>2, <1>3, <1>4 DEF PieceAt, PiecesShape

(* What a write adds, in the file that is open or in a new one, and the     *)
(* bytes of the files then.                                                 *)
LEMMA WriteGrows ==
    ASSUME files \in Seq(Seq(LogPieces)), NEW fresh \in BOOLEAN, ~ fresh => files # <<>>,
           NEW p \in LogPieces,
           files' = AppendPiece(IF fresh THEN Append(files, <<>>) ELSE files, p)
    PROVE  /\ \E top : Grown(top, p)
           /\ files' # <<>> /\ Len(files') \in 1 .. Len(files')
           /\ Bytes(files'[Len(files')])[Len(files'[Len(files')])] =
                 EventSize(p.ev) + (IF fresh THEN 0
                                    ELSE Bytes(files[Len(files)])[Len(files[Len(files)])])
           /\ fresh => Len(files'[Len(files')]) = 1
           /\ \A n \in 1 .. Len(files') - 1 : n \in 1 .. Len(files) /\ files'[n] = files[n]
<1> PICK fs : fs = IF fresh THEN Append(files, <<>>) ELSE files
  OBVIOUS
<1> PICK r : r = files'
  OBVIOUS
<1> PICK len : len = Len(files)
  OBVIOUS
<1> PICK m : m = Len(fs)
  OBVIOUS
<1>0. /\ \A q \in Pieces : /\ q = <<q[1], q[2]>> /\ q[1] \in Nat /\ q[2] \in Nat
                           /\ q[1] \in 1 .. len /\ q[2] \in 1 .. Len(files[q[1]])
                           /\ PieceAt(q) \in LogPieces
      /\ \A n \in 1 .. len : \A k \in 1 .. Len(files[n]) : <<n, k>> \in Pieces
      /\ len \in Nat
      /\ \A n \in 1 .. len : files[n] \in Seq(LogPieces) /\ Len(files[n]) \in Nat
  BY PiecesAre DEF PiecesShape
<1>1. /\ fs \in Seq(Seq(LogPieces)) /\ fs # <<>>
      /\ m = IF fresh THEN len + 1 ELSE len
      /\ \A n \in 1 .. len : fs[n] = files[n]
      /\ fresh => fs[m] = <<>>
  <2>1. CASE fresh
    <3>1. fs = Append(files, <<>>) /\ <<>> \in Seq(LogPieces)
      BY <2>1
    <3> QED BY <3>1, <2>1, <1>0
  <2>2. CASE ~ fresh
    BY <2>2, <1>0
  <2> QED BY <2>1, <2>2
<1> PICK f : f = fs[m]
  OBVIOUS
<1> PICK g : g = r[m]
  OBVIOUS
<1> PICK top : top = <<m, Len(f) + 1>>
  OBVIOUS
<1>2. r = AppendPiece(fs, p)
  OBVIOUS
<1>3. /\ r \in Seq(Seq(LogPieces)) /\ Len(r) = m /\ m \in Nat \ {0}
      /\ \A n \in 1 .. m - 1 : r[n] = fs[n]
      /\ f \in Seq(LogPieces) /\ g \in Seq(LogPieces)
      /\ Len(g) = Len(f) + 1 /\ g[Len(f) + 1] = p
      /\ \A k \in 1 .. Len(f) : /\ g[k].ev = f[k].ev /\ g[k].whole = f[k].whole
                                /\ f[k].safe => g[k].safe
  <2>1. Appended(fs, p, r)
    BY <1>1, <1>2, AppendedPiece
  <2>2. Len(fs) = m /\ fs[Len(fs)] = f /\ r[Len(fs)] = g
    OBVIOUS
  <2> QED BY ONLY <2>1, <2>2 DEF Appended
<1>4. Len(f) \in Nat /\ Len(g) \in Nat
  BY <1>3
<1>5. \A n \in 1 .. m - 1 : n \in 1 .. len /\ r[n] = files[n]
  <2>1. len \in Nat /\ (m = len + 1 \/ m = len)
    BY <1>0, <1>1
  <2>2. \A n \in 1 .. m - 1 : n \in 1 .. len
    BY ONLY <2>1
  <2>3. \A n \in 1 .. m - 1 : r[n] = fs[n]
    BY <1>3
  <2>4. \A n \in 1 .. len : fs[n] = files[n]
    BY <1>1
  <2> QED BY ONLY <2>2, <2>3, <2>4
<1>6. /\ fresh => Len(f) = 0 /\ m = len + 1
      /\ ~ fresh => f = files[len] /\ m = len /\ len \in 1 .. len
  BY <1>0, <1>1, <1>3
<1>7. /\ \A q \in Pieces' : /\ q = <<q[1], q[2]>> /\ q[1] \in 1 .. m /\ q[2] \in 1 .. Len(r[q[1]])
      /\ \A n \in 1 .. m : \A k \in 1 .. Len(r[n]) : <<n, k>> \in Pieces'
  <2>1. (files \in Seq(Seq(LogPieces)) => PiecesShape)'
    BY PiecesAre, PTL
  <2> QED BY <2>1, <1>3 DEF PiecesShape
<1>8. Grown(top, p)
  <2>1. top[1] = m /\ top[2] = Len(f) + 1
    OBVIOUS
  <2>2. ASSUME NEW q \in Pieces
        PROVE  /\ Sooner(q, top) /\ ~ Sooner(top, q) /\ q # top
               /\ r[q[1]][q[2]].ev = PieceAt(q).ev
               /\ r[q[1]][q[2]].whole = PieceAt(q).whole
               /\ PieceAt(q).safe => r[q[1]][q[2]].safe
               /\ q \in Pieces'
    <3>1. /\ q[1] \in Nat /\ q[2] \in Nat /\ q[1] \in 1 .. len /\ q[1] <= m
          /\ q[2] \in 1 .. Len(files[q[1]]) /\ q = <<q[1], q[2]>>
      BY <1>0, <1>1
    <3>2. CASE q[1] = m
      <4>1. ~ fresh /\ f = files[len] /\ m = len
        BY <1>0, <1>6, <3>1, <3>2
      <4>2. q[2] \in 1 .. Len(f) /\ PieceAt(q) = f[q[2]] /\ r[q[1]] = g
        BY <3>1, <3>2, <4>1 DEF PieceAt
      <4>3. q[2] \in 1 .. Len(g) /\ q[2] < Len(f) + 1
        <5>1. /\ q[2] \in Nat /\ Len(f) \in Nat /\ Len(g) = Len(f) + 1
              /\ q[2] \in 1 .. Len(f)
          BY <1>3, <1>4, <3>1, <4>2
        <5> QED BY ONLY <5>1
      <4>4. Sooner(q, top) /\ ~ Sooner(top, q) /\ q # top
        BY <1>4, <1>3, <2>1, <3>1, <3>2, <4>3 DEF Sooner
      <4>5. q \in Pieces'
        BY <1>3, <1>7, <3>1, <3>2, <4>2, <4>3
      <4>6. r[q[1]][q[2]] = g[q[2]] /\ PieceAt(q) = f[q[2]]
        BY <4>2
      <4>7. /\ g[q[2]].ev = f[q[2]].ev /\ g[q[2]].whole = f[q[2]].whole
            /\ f[q[2]].safe => g[q[2]].safe
        BY <1>3, <4>2
      <4> QED BY ONLY <4>4, <4>5, <4>6, <4>7
    <3>3. CASE q[1] # m
      <4>1. q[1] \in 1 .. m - 1 /\ q[1] < m
        <5>1. q[1] \in Nat \ {0} /\ m \in Nat /\ q[1] <= m /\ q[1] # m
          BY <1>3, <3>1, <3>3
        <5> QED BY ONLY <5>1
      <4>2. r[q[1]] = files[q[1]] /\ r[q[1]][q[2]] = PieceAt(q)
        BY <1>5, <4>1 DEF PieceAt
      <4>3. Sooner(q, top) /\ ~ Sooner(top, q) /\ q # top
        <5>1. q[1] \in Nat /\ m \in Nat /\ q[1] < m /\ top[1] = m
          BY <1>3, <2>1, <3>1, <4>1
        <5> QED BY ONLY <5>1 DEF Sooner
      <4>4. q \in Pieces'
        BY <1>3, <1>7, <3>1, <4>1, <4>2
      <4> QED BY <4>2, <4>3, <4>4
    <3> QED BY <3>2, <3>3
  <2>3. top \notin Pieces
    BY <2>2
  <2>4. top \in Pieces' /\ r[top[1]][top[2]] = p
    <3>1. Len(f) + 1 \in 1 .. Len(g) /\ m \in 1 .. m
      BY <1>3, <1>4
    <3> QED BY <1>3, <1>7, <2>1, <3>1
  <2>5. ASSUME NEW q \in Pieces', q # top
        PROVE  q \in Pieces
    <3>1. q = <<q[1], q[2]>> /\ q[1] \in 1 .. m /\ q[2] \in 1 .. Len(r[q[1]])
      BY <1>7
    <3>2. CASE q[1] = m
      <4>1. q[2] \in 1 .. Len(f) + 1 /\ q[2] # Len(f) + 1
        BY <1>3, <2>5, <3>1, <3>2
      <4>2. q[2] \in 1 .. Len(f)
        BY <1>4, <4>1
      <4>3. ~ fresh
        BY <1>6, <4>2
      <4> QED BY <1>0, <1>6, <3>1, <3>2, <4>2, <4>3
    <3>3. CASE q[1] # m
      <4>1. q[1] \in 1 .. m - 1
        BY <1>3, <3>1, <3>3
      <4> QED BY <1>0, <1>5, <3>1, <4>1
    <3> QED BY <3>2, <3>3
  <2>6. Pieces' = Pieces \cup {top}
    BY <2>2, <2>4, <2>5
  <2>7. ~ Sooner(top, top)
    BY <1>3, <1>4, <2>1 DEF Sooner
  <2> QED BY <1>3, <2>2, <2>3, <2>4, <2>6, <2>7 DEF Grown
<1>9. Bytes(g)[Len(g)] = EventSize(p.ev) + (IF fresh THEN 0 ELSE Bytes(f)[Len(f)])
  <2>1. Len(f) \in Nat /\ Len(f) <= Len(f) /\ Len(f) <= Len(g)
        /\ \A k \in 1 .. Len(f) : g[k].ev = f[k].ev
    <3>1. Len(f) \in Nat /\ Len(g) = Len(f) + 1
      BY <1>3, <1>4
    <3>2. \A k \in 1 .. Len(f) : g[k].ev = f[k].ev
      BY <1>3
    <3>3. Len(f) <= Len(f) /\ Len(f) <= Len(g)
      BY ONLY <3>1
    <3> QED BY ONLY <3>1, <3>2, <3>3
  <2>0. f \in Seq(LogPieces) /\ g \in Seq(LogPieces)
    BY <1>3
  <2>2. Bytes(g)[Len(f)] = Bytes(f)[Len(f)]
    BY ONLY <2>0, <2>1, BytesAgree
  <2>3. Len(g) \in 1 .. Len(g) /\ Len(g) - 1 = Len(f)
    BY <1>3, <1>4
  <2>4. Bytes(g)[Len(g)] = Bytes(g)[Len(g) - 1] + EventSize(g[Len(g)].ev)
    BY <1>3, <2>3, BytesOfNext
  <2>5. Bytes(g)[Len(g)] = Bytes(f)[Len(f)] + EventSize(p.ev)
    BY <1>3, <2>2, <2>3, <2>4
  <2>6. p.ev \in LogEvents
    BY DEF LogPieces
  <2>7. EventSize(p.ev) \in Nat /\ Bytes(f)[Len(f)] \in Nat
    <3>1. Len(f) \in 0 .. Len(f)
      BY <1>4
    <3>2. Bytes(f)[Len(f)] \in Nat
      BY ONLY <2>0, <3>1, BytesGrow
    <3> QED BY <2>6, <3>2, SizesCount
  <2>8. CASE fresh
    <3>1. Bytes(f)[Len(f)] = 0
      <4>1. Bytes(f)[0] = 0 /\ Len(f) = 0
        BY <1>6, <2>0, <2>8, BytesOfNext
      <4> QED BY <4>1
    <3> QED BY <2>5, <2>7, <2>8, <3>1
  <2>9. CASE ~ fresh
    BY <2>5, <2>7, <2>9
  <2> QED BY <2>8, <2>9
<1>10. files' # <<>> /\ Len(files') \in 1 .. Len(files')
  BY <1>3
<1>11. fresh => Len(files'[Len(files')]) = 1
  <2>1. files'[Len(files')] = g
    BY <1>3
  <2>2. fresh => Len(g) = 1
    <3>1. fresh => Len(f) = 0
      BY <1>6
    <3>2. Len(g) = Len(f) + 1
      BY <1>3
    <3> QED BY ONLY <3>1, <3>2
  <2> QED BY <2>1, <2>2
<1>12. Bytes(files'[Len(files')])[Len(files'[Len(files')])] = Bytes(g)[Len(g)]
  BY <1>3
<1>13. ~ fresh => Bytes(files[Len(files)])[Len(files[Len(files)])] = Bytes(f)[Len(f)]
  BY <1>6
<1>14. \A n \in 1 .. Len(files') - 1 : n \in 1 .. Len(files) /\ files'[n] = files[n]
  BY <1>3, <1>5
<1> QED BY <1>8, <1>9, <1>10, <1>11, <1>12, <1>13, <1>14
(* A crash leaves of every file what was safe, and nothing else than was    *)
(* there.                                                                   *)
LEMMA CutFiles ==
    ASSUME files \in Seq(Seq(LogPieces)), NEW keep \in [DOMAIN files -> Nat],
           \A n \in DOMAIN files : Survives(files[n], keep[n]),
           files' = [n \in DOMAIN files |-> SubSeq(files[n], 1, keep[n])]
    PROVE  /\ files' \in Seq(Seq(LogPieces)) /\ Len(files') = Len(files)
           /\ Pieces' \subseteq Pieces
           /\ \A p \in Pieces' : files'[p[1]][p[2]] = PieceAt(p)
           /\ \A p \in Pieces : PieceAt(p).safe => p \in Pieces'
           /\ \A n \in 1 .. Len(files) :
                /\ Len(files'[n]) \in Nat /\ Len(files'[n]) <= Len(files[n])
                /\ Bytes(files'[n])[Len(files'[n])] <= Bytes(files[n])[Len(files[n])]
                /\ \A k \in 1 .. Len(files'[n]) : files'[n][k] = files[n][k]
<1> PICK r, m : r = files' /\ m = Len(files)
  OBVIOUS
<1>1. PiecesShape /\ m \in Nat /\ DOMAIN files = 1 .. m
  BY PiecesAre
<1>2. \A n \in 1 .. m : /\ files[n] \in Seq(LogPieces) /\ Len(files[n]) \in Nat
                        /\ keep[n] \in 0 .. Len(files[n])
                        /\ \A k \in 1 .. Len(files[n]) : files[n][k].safe => k <= keep[n]
  BY <1>1 DEF PiecesShape, Survives
<1>3. \A n \in 1 .. m : r[n] = SubSeq(files[n], 1, keep[n])
  BY <1>1
<1>4. ASSUME NEW n \in 1 .. m
      PROVE  /\ r[n] \in Seq(LogPieces) /\ Len(r[n]) = keep[n]
             /\ \A k \in 1 .. keep[n] : r[n][k] = files[n][k]
             /\ Bytes(r[n])[Len(r[n])] <= Bytes(files[n])[Len(files[n])]
  <2> PICK f, g, k : f = files[n] /\ g = r[n] /\ k = keep[n]
    OBVIOUS
  <2>1. f \in Seq(LogPieces) /\ k \in 0 .. Len(f) /\ g = SubSeq(f, 1, k)
    BY <1>2, <1>3
  <2>2. g \in Seq(LogPieces)
    BY <2>1
  <2>3. /\ Len(g) = k /\ \A i \in 1 .. k : g[i] = f[i]
        /\ Bytes(g)[Len(g)] <= Bytes(f)[Len(f)]
    BY <2>1, <2>2, BytesOfCut
  <2> QED BY <2>2, <2>3
<1>5. r = [n \in 1 .. m |-> r[n]] /\ r \in Seq(Seq(LogPieces)) /\ Len(r) = m
  <2>1. r = [n \in 1 .. m |-> SubSeq(files[n], 1, keep[n])]
    BY <1>1
  <2>2. r = [n \in 1 .. m |-> r[n]]
    BY <2>1
  <2>3. r \in [1 .. m -> Seq(LogPieces)]
    BY <2>2, <1>4
  <2> QED BY <2>2, <2>3, <1>1
<1>6. (files \in Seq(Seq(LogPieces)) => PiecesShape)'
  BY PiecesAre, PTL
<1>7. PiecesShape'
  BY <1>5, <1>6
<1>8. ASSUME NEW p \in Pieces'
      PROVE  p \in Pieces /\ files'[p[1]][p[2]] = PieceAt(p)
  <2>1. p = <<p[1], p[2]>> /\ p[1] \in 1 .. m /\ p[2] \in 1 .. Len(r[p[1]])
    BY <1>5, <1>7 DEF PiecesShape
  <2>2. p[2] \in 1 .. keep[p[1]] /\ p[2] \in 1 .. Len(files[p[1]])
    BY <1>2, <1>4, <2>1
  <2>3. p \in Pieces
    BY <1>1, <2>1, <2>2 DEF PiecesShape
  <2> QED BY <1>4, <2>1, <2>2, <2>3 DEF PieceAt
<1>9. ASSUME NEW p \in Pieces, PieceAt(p).safe
      PROVE  p \in Pieces'
  <2>1. p = <<p[1], p[2]>> /\ p[1] \in 1 .. m /\ p[2] \in 1 .. Len(files[p[1]])
    BY <1>1 DEF PiecesShape
  <2>2. p[2] <= keep[p[1]]
    BY <1>2, <1>9, <2>1 DEF PieceAt
  <2>3. p[2] \in 1 .. Len(r[p[1]])
    BY <1>2, <1>4, <2>1, <2>2
  <2> QED BY <1>5, <1>7, <2>1, <2>3 DEF PiecesShape
<1>10. \A n \in 1 .. m :
         /\ Len(r[n]) \in Nat /\ Len(r[n]) <= Len(files[n])
         /\ Bytes(r[n])[Len(r[n])] <= Bytes(files[n])[Len(files[n])]
         /\ \A k \in 1 .. Len(r[n]) : r[n][k] = files[n][k]
  <2> SUFFICES ASSUME NEW n \in 1 .. m
               PROVE  /\ Len(r[n]) \in Nat /\ Len(r[n]) <= Len(files[n])
                      /\ Bytes(r[n])[Len(r[n])] <= Bytes(files[n])[Len(files[n])]
                      /\ \A k \in 1 .. Len(r[n]) : r[n][k] = files[n][k]
    OBVIOUS
  <2> PICK k : k = keep[n]
    OBVIOUS
  <2>1. k \in 0 .. Len(files[n]) /\ Len(files[n]) \in Nat /\ Len(r[n]) = k
    BY <1>2, <1>4
  <2>2. k \in Nat /\ k <= Len(files[n])
    BY <2>1
  <2> QED BY <1>4, <2>1, <2>2
<1> QED BY <1>5, <1>8, <1>9, <1>10

-----------------------------------------------------------------------------
(* Sequences of events on their way.                                        *)

(* One event more behind a sequence, which came after all of its thread.    *)
LEMMA OneMore ==
    ASSUME NEW S, NEW s \in Seq(S), NEW e \in S, Ascending(s),
           \A d \in In(s) : d.by = e.by => d.id < e.id
    PROVE  /\ Append(s, e) \in Seq(S) /\ In(Append(s, e)) = In(s) \cup {e}
           /\ Ascending(Append(s, e))
<1> PICK t, n : t = Append(s, e) /\ n = Len(s)
  OBVIOUS
<1>1. /\ n \in Nat /\ DOMAIN s = 1 .. n /\ t \in Seq(S) /\ DOMAIN t = 1 .. n + 1
      /\ t[n + 1] = e /\ \A k \in 1 .. n : t[k] = s[k]
  OBVIOUS
<1>2. In(t) = In(s) \cup {e}
  BY <1>1 DEF In
<1>3. ASSUME NEW i \in 1 .. n + 1, NEW j \in 1 .. n + 1, i < j, t[i].by = t[j].by
      PROVE  t[i].id < t[j].id
  <2>1. i \in 1 .. n
    BY <1>1, <1>3
  <2>2. CASE j = n + 1
    <3>1. s[i] \in In(s) /\ t[i] = s[i] /\ t[j] = e
      BY <1>1, <2>1, <2>2 DEF In
    <3> QED BY <1>3, <3>1
  <2>3. CASE j # n + 1
    <3>1. j \in 1 .. n
      BY <1>1, <2>3
    <3> QED BY <1>1, <1>3, <2>1, <3>1 DEF Ascending
  <2> QED BY <2>2, <2>3
<1>4. Ascending(t)
  BY <1>1, <1>3 DEF Ascending
<1> QED BY <1>1, <1>2, <1>4

(* The first of a sequence came before the others of its thread.            *)
LEMMA TheRest ==
    ASSUME NEW S, NEW s \in Seq(S), s # <<>>, Ascending(s)
    PROVE  /\ Head(s) \in S /\ Head(s) \in In(s) /\ Tail(s) \in Seq(S)
           /\ In(Tail(s)) \subseteq In(s) /\ Ascending(Tail(s))
           /\ \A f \in In(Tail(s)) : Head(s).by = f.by => Head(s).id < f.id
           /\ Len(Tail(s)) = Len(s) - 1 /\ Len(s) \in Nat \ {0}
           /\ \A k \in 1 .. Len(s) - 1 : Tail(s)[k] = s[k + 1]
           /\ Head(s) = s[1] /\ 1 \in DOMAIN s
<1> PICK t, n : t = Tail(s) /\ n = Len(s)
  OBVIOUS
<1>1. /\ n \in Nat \ {0} /\ DOMAIN s = 1 .. n /\ t \in Seq(S) /\ DOMAIN t = 1 .. n - 1
      /\ \A k \in 1 .. n - 1 : t[k] = s[k + 1]
      /\ Head(s) = s[1] /\ 1 \in 1 .. n
  OBVIOUS
<1>2. \A k \in 1 .. n - 1 : k + 1 \in 1 .. n /\ 1 < k + 1
  BY <1>1
<1>3. In(t) \subseteq In(s) /\ Head(s) \in In(s)
  BY <1>1, <1>2 DEF In
<1>4. Ascending(t)
  <2>1. \A i, j \in 1 .. n - 1 : i < j => i + 1 < j + 1
    BY <1>1
  <2> QED BY <1>1, <1>2, <2>1 DEF Ascending
<1>5. \A f \in In(t) : Head(s).by = f.by => Head(s).id < f.id
  BY <1>1, <1>2 DEF In, Ascending
<1> QED BY <1>1, <1>3, <1>4, <1>5

(* The recent events after a push: the last of them and the new one.        *)
LEMMA Pushed ==
    ASSUME NEW s \in Seq(LogEvents), NEW e \in LogEvents, Ascending(s),
           \A d \in In(s) : d.by = e.by => d.id < e.id
    PROVE  /\ Push(s, e) \in Seq(LogEvents) /\ In(Push(s, e)) \subseteq In(s) \cup {e}
           /\ Ascending(Push(s, e))
<1> PICK t : t = Append(s, e)
  OBVIOUS
<1>1. t \in Seq(LogEvents) /\ In(t) = In(s) \cup {e} /\ Ascending(t)
  BY OneMore
<1> PICK n : n = Len(t)
  OBVIOUS
<1>2. n \in Nat /\ DOMAIN t = 1 .. n /\ \A i \in 1 .. n : t[i] \in LogEvents
  BY ONLY <1>1, n = Len(t)
<1>3. MaxRecent \in Nat
  BY LogAssumption DEF LogAssumption
<1> PICK k : k = IF n > MaxRecent THEN n - MaxRecent ELSE 0
  OBVIOUS
<1>4. k \in Nat /\ k <= n /\ n - k \in Nat
  BY ONLY <1>2, <1>3, k = IF n > MaxRecent THEN n - MaxRecent ELSE 0
<1> PICK u : u = SubSeq(t, k + 1, n)
  OBVIOUS
<1>5. Push(s, e) = u
  BY ONLY t = Append(s, e), n = Len(t), k = IF n > MaxRecent THEN n - MaxRecent ELSE 0,
          u = SubSeq(t, k + 1, n) DEF Push
<1>6. u \in Seq(LogEvents) /\ Len(u) = n - k /\ \A i \in 1 .. n - k : u[i] = t[k + i]
  <2>1. u = [i \in 1 .. n - k |-> t[k + i]]
    <3>1. (1 + n) - (k + 1) = n - k /\ \A i \in 1 .. n - k : (i + (k + 1)) - 1 = k + i
      BY ONLY <1>2, <1>4
    <3> QED BY ONLY <3>1, <1>1, <1>2, <1>4, n = Len(t), u = SubSeq(t, k + 1, n)
  <2>2. \A i \in 1 .. n - k : k + i \in 1 .. n
    BY ONLY <1>2, <1>4
  <2>3. \A i \in 1 .. n - k : t[k + i] \in LogEvents
    BY ONLY <1>2, <2>2
  <2>4. u \in [1 .. n - k -> LogEvents]
    BY ONLY <2>1, <2>3
  <2>5. u \in Seq(LogEvents) /\ Len(u) = n - k
    BY ONLY <2>4, <1>4
  <2>6. \A i \in 1 .. n - k : u[i] = t[k + i]
    BY ONLY <2>1
  <2> QED BY <2>5, <2>6
<1>7. DOMAIN u = 1 .. n - k
  BY ONLY <1>4, <1>6
<1>8. /\ \A i \in 1 .. n - k : k + i \in 1 .. n
      /\ \A i, j \in 1 .. n - k : i < j => k + i < k + j
  BY ONLY <1>2, <1>4
<1>9. In(u) \subseteq In(t)
  <2>1. \A i \in DOMAIN u : u[i] \in {t[j] : j \in DOMAIN t}
    BY ONLY <1>2, <1>6, <1>7, <1>8
  <2> QED BY ONLY <2>1 DEF In
<1>10. Ascending(u)
  <2>1. Ascending(t)
    BY <1>1
  <2>2. \A i \in DOMAIN u : u[i] = t[k + i] /\ k + i \in DOMAIN t
    BY ONLY <1>2, <1>6, <1>7, <1>8
  <2>3. \A i, j \in DOMAIN u : i < j => k + i < k + j
    BY ONLY <1>7, <1>8
  <2> QED BY ONLY <2>1, <2>2, <2>3 DEF Ascending
<1> QED BY <1>1, <1>5, <1>6, <1>9, <1>10

(* Where events are, as sets: n were logged, F is on file, W with the       *)
(* worker, V of it not yet written, C in the channel, H half way, R         *)
(* received, P being posted, Q queued for the webhook, B recent.            *)
Ranked(n, F, W, V, C, H, R, P, Q, B) ==
    /\ n \in Nat /\ V \subseteq W
    /\ \A e \in F \cup W \cup C \cup H \cup R \cup P \cup Q \cup B : e.id \in Nat /\ e.id <= n
    /\ \A e, f \in F \cup W \cup C \cup H : e.id = f.id => e.by = f.by
    /\ Ahead(F \cup W, C \cup H) /\ Ahead(F, V) /\ Ahead(C, H)
    /\ Ahead({e \in B : e.by = "page"}, C)
    /\ Ahead(R \cup P, Q \cup W \cup C \cup H) /\ Ahead(Q, W \cup C \cup H)
    /\ \A e \in R, f \in P : e.by = f.by => e.id <= f.id

(* A new event of a thread is put half way and into the recent events.      *)
LEMMA RankedNew ==
    ASSUME NEW n, NEW F, NEW W, NEW V, NEW C, NEW H, NEW R, NEW P, NEW Q, NEW B,
           Ranked(n, F, W, V, C, H, R, P, Q, B),
           NEW e, e.id = n + 1, e.by # "page",
           NEW B1, B1 \subseteq B \cup {e}
    PROVE  Ranked(n + 1, F, W, V, C, H \cup {e}, R, P, Q, B1)
BY DEF Ranked, Ahead

(* A new event of the page is put into the channel.                         *)
LEMMA RankedUpdate ==
    ASSUME NEW n, NEW F, NEW W, NEW V, NEW C, NEW H, NEW R, NEW P, NEW Q, NEW B,
           Ranked(n, F, W, V, C, H, R, P, Q, B),
           NEW e, e.id = n + 1, \A f \in H : f.by # e.by
    PROVE  Ranked(n + 1, F, W, V, C \cup {e}, H, R, P, Q, B)
BY DEF Ranked, Ahead

(* A thread sends what it had half way.                                     *)
LEMMA RankedSend ==
    ASSUME NEW n, NEW F, NEW W, NEW V, NEW C, NEW H, NEW R, NEW P, NEW Q, NEW B,
           Ranked(n, F, W, V, C, H, R, P, Q, B),
           NEW e \in H, e.by # "page", NEW H1, H1 \subseteq H, \A f \in H1 : f.by # e.by
    PROVE  Ranked(n, F, W, V, C \cup {e}, H1, R, P, Q, B)
BY DEF Ranked, Ahead

(* The worker takes a message, and makes an event of it or none.            *)
LEMMA RankedTake ==
    ASSUME NEW n, NEW F, NEW C, NEW H, NEW R, NEW P, NEW Q, NEW B,
           Ranked(n, F, {}, {}, C, H, R, P, Q, B),
           NEW m \in C, NEW C1, C1 \subseteq C, \A f \in C1 : m.by = f.by => m.id < f.id,
           NEW E, \A e \in E : e.id = m.id /\ e.by = m.by,
           NEW B1, B1 \subseteq B \cup E
    PROVE  Ranked(n, F, E, E, C1, H, R, P, Q, B1)
<1>1. /\ n \in Nat
      /\ \A e \in F \cup C \cup H \cup R \cup P \cup Q \cup B : e.id \in Nat /\ e.id <= n
      /\ \A e, f \in F \cup C \cup H : e.id = f.id => e.by = f.by
  BY DEF Ranked
<1>2. /\ \A e \in F \cup E \cup C1 \cup H \cup R \cup P \cup Q \cup B1 : e.id \in Nat /\ e.id <= n
      /\ \A e, f \in F \cup E \cup C1 \cup H : e.id = f.id => e.by = f.by
  BY <1>1
<1>3. Ahead(F \cup E, C1 \cup H) /\ Ahead(F, E) /\ Ahead(C1, H)
  BY DEF Ranked, Ahead
<1>4. Ahead({e \in B1 : e.by = "page"}, C1)
  BY DEF Ranked, Ahead
<1>5. Ahead(R \cup P, Q \cup E \cup C1 \cup H) /\ Ahead(Q, E \cup C1 \cup H)
  BY DEF Ranked, Ahead
<1>6. \A e \in R, f \in P : e.by = f.by => e.id <= f.id
  BY DEF Ranked
<1> QED BY <1>1, <1>2, <1>3, <1>4, <1>5, <1>6 DEF Ranked

(* The worker writes.                                                       *)
LEMMA RankedWrite ==
    ASSUME NEW n, NEW F, NEW W, NEW V, NEW C, NEW H, NEW R, NEW P, NEW Q, NEW B,
           Ranked(n, F, W, V, C, H, R, P, Q, B), NEW F1, F1 \subseteq F \cup V
    PROVE  Ranked(n, F1, W, {}, C, H, R, P, Q, B)
BY DEF Ranked, Ahead

(* The worker hands on to the webhook.                                      *)
LEMMA RankedPost ==
    ASSUME NEW n, NEW F, NEW W, NEW V, NEW C, NEW H, NEW R, NEW P, NEW Q, NEW B,
           Ranked(n, F, W, V, C, H, R, P, Q, B), NEW Q1, Q1 \subseteq Q \cup W
    PROVE  Ranked(n, F, {}, {}, C, H, R, P, Q1, B)
BY DEF Ranked, Ahead

(* The sender thread takes an event of its queue.                           *)
LEMMA RankedNext ==
    ASSUME NEW n, NEW F, NEW W, NEW V, NEW C, NEW H, NEW R, NEW Q, NEW B,
           Ranked(n, F, W, V, C, H, R, {}, Q, B),
           NEW q \in Q, NEW Q1, Q1 \subseteq Q, \A f \in Q1 : q.by = f.by => q.id < f.id
    PROVE  Ranked(n, F, W, V, C, H, R, {q}, Q1, B)
BY DEF Ranked, Ahead

(* The receiver gets what is posted.                                        *)
LEMMA RankedReceive ==
    ASSUME NEW n, NEW F, NEW W, NEW V, NEW C, NEW H, NEW R, NEW P, NEW Q, NEW B,
           Ranked(n, F, W, V, C, H, R, P, Q, B), \A p, q \in P : p = q,
           NEW R1, R1 \subseteq R \cup P, NEW P1, P1 \subseteq P
    PROVE  Ranked(n, F, W, V, C, H, R1, P1, Q, B)
BY DEF Ranked, Ahead

(* Less of all is ranked still.                                             *)
LEMMA RankedLess ==
    ASSUME NEW n, NEW F, NEW W, NEW V, NEW C, NEW H, NEW R, NEW P, NEW Q, NEW B,
           Ranked(n, F, W, V, C, H, R, P, Q, B), NEW F1, F1 \subseteq F,
           NEW B1, B1 \subseteq B
    PROVE  /\ Ranked(n, F1, {}, {}, {}, {}, R, {}, {}, B1)
           /\ Ranked(n, F, W, V, C, H, R, P, Q, B1)
BY DEF Ranked, Ahead

(* The same, in the state.                                                  *)
ToFile == {w.ev : w \in {v \in worker : v.to = "file"}}

RankedNow == Ranked(logged, Filed, WithWorker, ToFile, In(channel), Halfway,
                    In(received), Posted, In(hook), In(recent))

(* The order in the sequences and on file.                                  *)
ReceivedInOrder ==
    \A i, j \in DOMAIN received :
        i < j /\ received[i].by = received[j].by => received[i].id <= received[j].id

PiecesInOrder ==
    \A p, q \in Pieces :
        Sooner(p, q) /\ PieceAt(p).ev.by = PieceAt(q).ev.by =>
            PieceAt(p).ev.id < PieceAt(q).ev.id

InOrder ==
    /\ Ascending(recent) /\ Ascending(channel) /\ Ascending(hook)
    /\ ReceivedInOrder /\ PiecesInOrder

(* The ranks are the order and the ids.                                     *)
LEMMA Reranked ==
    ASSUME RankedNow, InOrder
    PROVE  OrderKept /\ IdsOK
BY DEF RankedNow, Ranked, InOrder, ReceivedInOrder, PiecesInOrder, OrderKept, IdsOK, ToFile

(* What there is has the right type, wherever it is.                        *)
LEMMA PlacesTyped ==
    ASSUME LogTypeOK
    PROVE  /\ Filed \subseteq LogEvents /\ WithWorker \subseteq LogEvents
           /\ ToFile \subseteq WithWorker /\ Posted \subseteq LogEvents
           /\ Halfway \subseteq CallEvents /\ In(channel) \subseteq CallEvents \cup Messages
           /\ In(received) \subseteq LogEvents /\ In(hook) \subseteq LogEvents
           /\ In(recent) \subseteq LogEvents
<1>1. files \in Seq(Seq(LogPieces))
  BY DEF LogTypeOK, LogPieces
<1>2. \A p \in Pieces : PieceAt(p) \in LogPieces
  BY <1>1, PiecesAre DEF PiecesShape
<1>3. \A p \in LogPieces : p.ev \in LogEvents
  BY DEF LogPieces
<1>4. Filed \subseteq LogEvents
  BY <1>2, <1>3 DEF Filed
<1>5. \A S, s : s \in Seq(S) => In(s) \subseteq S
  BY DEF In
<1>6. /\ recent \in Seq(LogEvents) /\ channel \in Seq(CallEvents \cup Messages)
      /\ hook \in Seq(LogEvents) /\ received \in Seq(LogEvents)
  BY DEF LogTypeOK
<1>7. Halfway \subseteq CallEvents
  BY DEF LogTypeOK, Halfway
<1>8. WithWorker \subseteq LogEvents /\ ToFile \subseteq WithWorker
  BY DEF LogTypeOK, WithWorker, ToFile
<1>9. Posted \subseteq LogEvents
  BY DEF LogTypeOK, Posted
<1> QED BY <1>4, <1>5, <1>6, <1>7, <1>8, <1>9

(* The order and the ids are the ranks.                                     *)
LEMMA RankedThen ==
    ASSUME LogTypeOK, OrderKept, IdsOK
    PROVE  RankedNow /\ InOrder
<1>1. \A e \in LogEvents \cup CallEvents \cup Messages : e.id \in Nat
  BY DEF LogEvents, CallEvents, UpdateEvents, Messages
<1>2. /\ ToFile \subseteq WithWorker
      /\ \A e \in Filed \cup WithWorker \cup In(channel) \cup Halfway \cup In(received)
                  \cup Posted \cup In(hook) \cup In(recent) : e.id \in Nat
  BY <1>1, PlacesTyped
<1>3. logged \in Nat
  BY DEF LogTypeOK
<1>4. InOrder
  BY DEF OrderKept, InOrder, ReceivedInOrder, PiecesInOrder
<1>5. RankedNow
  BY <1>2, <1>3 DEF RankedNow, Ranked, OrderKept, IdsOK, ToFile
<1> QED BY <1>4, <1>5

-----------------------------------------------------------------------------
(* Each operation keeps types and order.                                    *)

(* What an update becomes.                                                  *)
BuiltOf(m, e) ==
    /\ m.prev # {m.cur} /\ BuildStateUpdate(m) = {e} /\ Sanitized(e) \in UpdateEvents
    /\ Sanitized(e).id = m.id /\ Sanitized(e).by = m.by /\ Sanitized(e).from = m.prev
    /\ Sanitized(e).to = m.cur /\ Sanitized(e).kind \in {"snapshot", "patch"}
    /\ Sanitized(e).kind = "patch" => m.prev # {}

(* What an update becomes has its id, its thread and its contents.          *)
LEMMA Built ==
    ASSUME NEW m \in Messages
    PROVE  \/ m.prev = {m.cur} /\ BuildStateUpdate(m) = {}
           \/ \E e : BuiltOf(m, e)
<1>1. /\ m.id \in Nat /\ m.by = "page" /\ m.prev \in SUBSET Contents /\ m.cur \in Contents
      /\ m.raw = TRUE
  BY DEF Messages
<1> PICK k : k = IF m.prev = {} THEN "snapshot" ELSE "patch"
  OBVIOUS
<1> PICK e : e = [id |-> m.id, by |-> m.by, raw |-> m.raw, from |-> m.prev,
                  to |-> m.cur, kind |-> k]
  OBVIOUS
<1>2. m.prev # {m.cur} => BuildStateUpdate(m) = {e}
  BY DEF BuildStateUpdate
<1>3. /\ Sanitized(e) \in [id : {m.id}, by : {m.by}, raw : {FALSE}, from : {m.prev},
                           to : {m.cur}, kind : {k}]
  <2>1. e = [id |-> m.id, by |-> m.by, raw |-> TRUE, from |-> m.prev,
             to |-> m.cur, kind |-> k]
    BY <1>1
  <2>2. [e EXCEPT !.raw = FALSE] \in [id : {m.id}, by : {m.by}, raw : {FALSE},
                                      from : {m.prev}, to : {m.cur}, kind : {k}]
    BY ONLY <2>1
  <2> QED BY <2>2 DEF Sanitized
<1>4. k \in {"snapshot", "patch"} /\ (k = "patch" => m.prev # {})
  OBVIOUS
<1>5. CASE m.prev = {m.cur}
  BY <1>5 DEF BuildStateUpdate
<1>6. CASE m.prev # {m.cur}
  <2> PICK q : q = Sanitized(e)
    OBVIOUS
  <2>1. Sanitized(e) \in UpdateEvents
    <3>1. q \in [id : {m.id}, by : {m.by}, raw : {FALSE}, from : {m.prev}, to : {m.cur},
                 kind : {k}]
      BY <1>3
    <3>2. q \in UpdateEvents
      BY ONLY <1>1, <1>4, <3>1 DEF UpdateEvents
    <3> QED BY <3>2
  <2>2. /\ Sanitized(e).id = m.id /\ Sanitized(e).by = m.by /\ Sanitized(e).from = m.prev
        /\ Sanitized(e).to = m.cur /\ Sanitized(e).kind = k
    BY <1>3
  <2>3. BuiltOf(m, e)
    BY <1>2, <1>4, <1>6, <2>1, <2>2 DEF BuiltOf
  <2> QED BY <2>3
<1> QED BY <1>5, <1>6

(* A call is recorded as it is.                                             *)
LEMMA CallStays ==
    ASSUME NEW m \in CallEvents
    PROVE  Sanitized(m) = m /\ m.kind = "call" /\ m.by \in Callers /\ m \in LogEvents
<1>1. /\ m = [id |-> m.id, by |-> m.by, kind |-> m.kind, raw |-> m.raw]
      /\ m.raw = FALSE /\ m.kind = "call" /\ m.by \in Callers
  BY DEF CallEvents
<1>2. [m EXCEPT !.raw = FALSE] = m
  BY <1>1
<1> QED BY <1>1, <1>2 DEF Sanitized, LogEvents

(* Sanitizing the event of a call clears its raw mark only.                 *)
LEMMA SanitizedCall ==
    ASSUME NEW i, NEW c
    PROVE  Sanitized([id |-> i, by |-> c, kind |-> "call", raw |-> TRUE])
               = [id |-> i, by |-> c, kind |-> "call", raw |-> FALSE]
<1> PICK r : r = [id |-> i, by |-> c, kind |-> "call", raw |-> TRUE]
  OBVIOUS
<1>1. Sanitized(r) = [r EXCEPT !.raw = FALSE]
  BY ONLY DEF Sanitized
<1> PICK q : q = [r EXCEPT !.raw = FALSE]
  OBVIOUS
<1>2. q \in [id : {i}, by : {c}, kind : {"call"}, raw : {FALSE}]
  OBVIOUS
<1>3. q = [id |-> i, by |-> c, kind |-> "call", raw |-> FALSE]
  BY ONLY <1>2
<1> QED BY <1>1, <1>3

(* Files that stay keep their pieces and their order.                       *)
LEMMA FilesStay ==
    ASSUME UNCHANGED files
    PROVE  /\ Pieces' = Pieces /\ Filed' = Filed /\ Updates' = Updates /\ Reached' = Reached
           /\ \A p : PieceAt(p)' = PieceAt(p) /\ (Applies(p)' <=> Applies(p))
           /\ PiecesInOrder => PiecesInOrder'
<1>1. Pieces' = Pieces
  BY DEF Pieces
<1>2. \A p : PieceAt(p)' = PieceAt(p)
  BY DEF PieceAt
<1>3. Updates' = Updates
  BY <1>1, <1>2 DEF Updates
<1>4. \A p, q : LastBefore(q, p)' <=> LastBefore(q, p)
  BY <1>3 DEF LastBefore
<1>5. \A p : Applies(p)' <=> Applies(p)
  BY <1>2, <1>3, <1>4 DEF Applies
<1>6. Filed' = Filed
  BY <1>1, <1>2 DEF Filed
<1>7. Reached' = Reached
  BY <1>2, <1>3 DEF Reached
<1>8. PiecesInOrder => PiecesInOrder'
  BY <1>1, <1>2 DEF PiecesInOrder
<1> QED BY <1>1, <1>2, <1>3, <1>5, <1>6, <1>7, <1>8

(* The parts of the invariant about types and order.                        *)
TypedInOrder == LogTypeOK /\ SinglesOK /\ RankedNow /\ InOrder

(* A caller pushes its event.                                               *)
LEMMA PushOrder ==
    ASSUME LogAssumption, TypedInOrder, NEW c \in Callers, LogPush(c)
    PROVE  TypedInOrder'
<1> PICK e : e = [id |-> logged + 1, by |-> c, kind |-> "call", raw |-> FALSE]
  OBVIOUS
<1>0. Sanitized([id |-> logged + 1, by |-> c, kind |-> "call", raw |-> TRUE]) = e
  BY SanitizedCall
<1>1. /\ logged' = logged + 1 /\ recent' = Push(recent, e) /\ halfway[c] = {}
      /\ halfway' = [halfway EXCEPT ![c] = {e}]
      /\ UNCHANGED <<logEnv, channel, worker, fileVars, hookVars, pageVars, alive>>
  BY <1>0 DEF LogPush
<1>2. /\ UNCHANGED <<logEnv, channel, worker, files, open, faults, hook, post, received,
                     cache, waiter, waits, alive>>
      /\ UNCHANGED files
  BY <1>1 DEF fileVars, hookVars, pageVars
<1>3. LogTypeOK /\ SinglesOK /\ RankedNow /\ InOrder
  BY DEF TypedInOrder
<1>4. logged \in Nat /\ halfway \in [Callers -> SUBSET CallEvents]
      /\ recent \in Seq(LogEvents)
  BY <1>3 DEF LogTypeOK
<1>5. e \in CallEvents /\ e.id = logged + 1 /\ e.by = c /\ c # "page" /\ e \in LogEvents
  <2>1. e \in CallEvents
    BY <1>4 DEF CallEvents
  <2> QED BY <2>1, LogAssumption DEF LogEvents, LogAssumption
<1>6. \A d \in In(recent) : d.id < e.id
  <2>1. \A d \in In(recent) : d.id \in Nat /\ d.id <= logged
    BY <1>3 DEF RankedNow, Ranked
  <2> QED BY <1>4, <1>5, <2>1
<1>7. /\ recent' \in Seq(LogEvents) /\ In(recent)' \subseteq In(recent) \cup {e}
      /\ Ascending(recent)'
  <2>1. Ascending(recent)
    BY <1>3 DEF InOrder
  <2>2. /\ Push(recent, e) \in Seq(LogEvents)
        /\ In(Push(recent, e)) \subseteq In(recent) \cup {e}
        /\ Ascending(Push(recent, e))
    <3>1. \A d \in In(recent) : d.by = e.by => d.id < e.id
      BY <1>6
    <3> QED BY ONLY <1>4, <1>5, <2>1, <3>1, Pushed
  <2>3. In(recent)' = In(recent') /\ (Ascending(recent)' <=> Ascending(recent'))
    BY DEF In, Ascending
  <2> QED BY <1>1, <2>2, <2>3
<1>8. /\ \A d \in Callers \ {c} : halfway'[d] = halfway[d]
      /\ halfway'[c] = {e} /\ halfway' \in [Callers -> SUBSET CallEvents]
  BY <1>1, <1>4, <1>5
<1>9. Halfway' = Halfway \cup {e}
  BY <1>1, <1>8 DEF Halfway
<1>10. /\ Filed' = Filed /\ WithWorker' = WithWorker /\ ToFile' = ToFile
       /\ In(channel)' = In(channel) /\ In(received)' = In(received)
       /\ Posted' = Posted /\ In(hook)' = In(hook)
  BY <1>2, FilesStay DEF WithWorker, ToFile, Posted, In
<1>11. RankedNow'
  <2>1. Ranked(logged + 1, Filed, WithWorker, ToFile, In(channel), Halfway \cup {e},
               In(received), Posted, In(hook), In(recent)')
    BY <1>3, <1>5, <1>7, RankedNew DEF RankedNow
  <2> QED BY <1>1, <1>9, <1>10, <2>1 DEF RankedNow
<1>12. InOrder'
  BY <1>2, <1>3, <1>7, FilesStay DEF InOrder, ReceivedInOrder, Ascending
<1>13. LogTypeOK'
  <2>1. \A d \in Callers : \A f \in halfway'[d] : f.by = d
    BY <1>3, <1>5, <1>8 DEF LogTypeOK
  <2>2. logged' \in Nat
    BY <1>1, <1>4
  <2> QED BY <1>2, <1>3, <1>7, <1>8, <2>1, <2>2 DEF LogTypeOK
<1>14. SinglesOK'
  BY <1>2, <1>3 DEF SinglesOK
<1> QED BY <1>11, <1>12, <1>13, <1>14 DEF TypedInOrder

(* A caller sends its event.                                                *)
LEMMA SendOrder ==
    ASSUME LogAssumption, TypedInOrder, NEW c \in Callers, LogSend(c)
    PROVE  TypedInOrder'
<1>0. LogTypeOK /\ SinglesOK /\ RankedNow /\ InOrder
  BY DEF TypedInOrder
<1>1. PICK e \in halfway[c] : channel' = Append(channel, e)
  BY DEF LogSend
<1>2. /\ halfway' = [halfway EXCEPT ![c] = {}]
      /\ UNCHANGED <<logEnv, logged, recent, worker, files, open, faults, hook, post, received,
                     cache, waiter, waits, alive>>
      /\ UNCHANGED files
  BY DEF LogSend, fileVars, hookVars, pageVars
<1>3. /\ halfway \in [Callers -> SUBSET CallEvents]
      /\ \A d \in Callers : \A f \in halfway[d] : f.by = d
      /\ channel \in Seq(CallEvents \cup Messages)
  BY <1>0 DEF LogTypeOK
<1>4. e \in CallEvents /\ e.by = c /\ c # "page" /\ e \in Halfway
  BY <1>3, LogAssumption DEF LogAssumption, Halfway
<1>5. /\ \A d \in Callers \ {c} : halfway'[d] = halfway[d]
      /\ halfway'[c] = {} /\ halfway' \in [Callers -> SUBSET CallEvents]
  BY <1>2, <1>3
<1>6. Halfway' \subseteq Halfway /\ \A f \in Halfway' : f.by # e.by
  <2>1. Halfway' \subseteq UNION {halfway[d] : d \in Callers \ {c}}
    BY <1>5 DEF Halfway
  <2> QED BY <1>3, <1>4, <2>1 DEF Halfway
<1>7. /\ channel' \in Seq(CallEvents \cup Messages) /\ In(channel)' = In(channel) \cup {e}
      /\ Ascending(channel)'
  <2> PICK S : S = CallEvents \cup Messages
    OBVIOUS
  <2>1. channel \in Seq(S) /\ e \in S /\ Ascending(channel)
    BY <1>0, <1>3, <1>4 DEF InOrder
  <2>2. \A d \in In(channel) : d.by = e.by => d.id < e.id
    BY <1>0, <1>4 DEF RankedNow, Ranked, Ahead
  <2>3. /\ Append(channel, e) \in Seq(S) /\ In(Append(channel, e)) = In(channel) \cup {e}
        /\ Ascending(Append(channel, e))
    BY ONLY <2>1, <2>2, OneMore
  <2>4. In(channel)' = In(channel') /\ (Ascending(channel)' <=> Ascending(channel'))
    BY DEF In, Ascending
  <2> QED BY <1>1, <2>3, <2>4
<1>8. /\ Filed' = Filed /\ WithWorker' = WithWorker /\ ToFile' = ToFile
      /\ In(recent)' = In(recent) /\ In(received)' = In(received)
      /\ Posted' = Posted /\ In(hook)' = In(hook)
  BY <1>2, FilesStay DEF WithWorker, ToFile, Posted, In
<1>9. RankedNow'
  <2>1. Ranked(logged, Filed, WithWorker, ToFile, In(channel) \cup {e}, Halfway',
               In(received), Posted, In(hook), In(recent))
    BY <1>0, <1>4, <1>6, RankedSend DEF RankedNow
  <2> QED BY <1>2, <1>7, <1>8, <2>1 DEF RankedNow
<1>10. InOrder'
  BY <1>0, <1>2, <1>7, FilesStay DEF InOrder, ReceivedInOrder, Ascending
<1>11. LogTypeOK'
  <2>1. \A d \in Callers : \A f \in halfway'[d] : f.by = d
    BY <1>3, <1>5
  <2> QED BY <1>0, <1>2, <1>5, <1>7, <2>1 DEF LogTypeOK
<1>12. SinglesOK'
  BY <1>0, <1>2 DEF SinglesOK
<1> QED BY <1>9, <1>10, <1>11, <1>12 DEF TypedInOrder

(* An update is put into the channel.                                       *)
UpdateSent(m, previous, current) ==
    /\ m \in Messages /\ m.id = logged + 1 /\ m.prev = previous /\ m.cur = current
    /\ channel' = Append(channel, m)
    /\ logged' = logged + 1 /\ alive
    /\ UNCHANGED <<logEnv, halfway, recent, worker, files, open, faults, hook, post,
                   received, alive>>
    /\ UNCHANGED files

(* A state update is a message of the next id.                              *)
LEMMA UpdateIsSent ==
    ASSUME logged \in Nat, NEW previous \in SUBSET Contents, NEW current \in Contents,
           StateUpdate(previous, current)
    PROVE  \E m : UpdateSent(m, previous, current)
<1> PICK m : m = [id |-> logged + 1, by |-> "page", kind |-> "update", raw |-> TRUE,
                  prev |-> previous, cur |-> current]
  OBVIOUS
<1>1. m \in Messages /\ m.id = logged + 1 /\ m.prev = previous /\ m.cur = current
  BY DEF Messages
<1>2. /\ channel' = Append(channel, m) /\ logged' = logged + 1 /\ alive
      /\ UNCHANGED <<logEnv, halfway, recent, worker, fileVars, hookVars, alive>>
  BY DEF StateUpdate
<1> QED BY <1>1, <1>2 DEF UpdateSent, fileVars, hookVars

(* A state update is the latest event of its thread.                        *)
LEMMA UpdateOrder ==
    ASSUME LogAssumption, TypedInOrder, NEW m, NEW previous, NEW current,
           UpdateSent(m, previous, current),
           cache' \subseteq Contents, waiter' \subseteq Contents, waits' \in BOOLEAN
    PROVE  TypedInOrder'
<1>0. LogTypeOK /\ SinglesOK /\ RankedNow /\ InOrder
  BY DEF TypedInOrder
<1>1. /\ m \in Messages /\ m.id = logged + 1 /\ channel' = Append(channel, m)
      /\ logged' = logged + 1
      /\ UNCHANGED <<logEnv, halfway, recent, worker, files, open, faults, hook, post,
                     received, alive>>
      /\ UNCHANGED files
  BY DEF UpdateSent
<1>2. /\ halfway \in [Callers -> SUBSET CallEvents]
      /\ \A d \in Callers : \A f \in halfway[d] : f.by = d
      /\ channel \in Seq(CallEvents \cup Messages) /\ logged \in Nat
  BY <1>0 DEF LogTypeOK
<1>3. m.by = "page" /\ \A f \in Halfway : f.by # m.by
  BY <1>1, <1>2, LogAssumption DEF LogAssumption, Halfway, Messages
<1>4. /\ channel' \in Seq(CallEvents \cup Messages) /\ In(channel)' = In(channel) \cup {m}
      /\ Ascending(channel)'
  <2> PICK S : S = CallEvents \cup Messages
    OBVIOUS
  <2>1. channel \in Seq(S) /\ m \in S /\ Ascending(channel)
    BY <1>0, <1>1, <1>2 DEF InOrder
  <2>2. \A d \in In(channel) : d.by = m.by => d.id < m.id
    <3>1. \A d \in In(channel) : d.id \in Nat /\ d.id <= logged
      BY <1>0 DEF RankedNow, Ranked
    <3> QED BY <1>1, <1>2, <3>1
  <2>3. /\ Append(channel, m) \in Seq(S) /\ In(Append(channel, m)) = In(channel) \cup {m}
        /\ Ascending(Append(channel, m))
    BY ONLY <2>1, <2>2, OneMore
  <2>4. In(channel)' = In(channel') /\ (Ascending(channel)' <=> Ascending(channel'))
    BY DEF In, Ascending
  <2> QED BY <1>1, <2>3, <2>4
<1>5. /\ Filed' = Filed /\ WithWorker' = WithWorker /\ ToFile' = ToFile /\ Halfway' = Halfway
      /\ In(recent)' = In(recent) /\ In(received)' = In(received)
      /\ Posted' = Posted /\ In(hook)' = In(hook)
  BY <1>1, FilesStay DEF WithWorker, ToFile, Posted, In, Halfway
<1>6. RankedNow'
  <2>1. Ranked(logged + 1, Filed, WithWorker, ToFile, In(channel) \cup {m}, Halfway,
               In(received), Posted, In(hook), In(recent))
    BY <1>0, <1>1, <1>3, RankedUpdate DEF RankedNow
  <2> QED BY <1>1, <1>4, <1>5, <2>1 DEF RankedNow
<1>7. InOrder'
  BY <1>0, <1>1, <1>4, FilesStay DEF InOrder, ReceivedInOrder, Ascending
<1>8. LogTypeOK'
  <2>1. logged' \in Nat
    BY <1>1, <1>2
  <2> QED BY <1>0, <1>1, <1>4, <2>1 DEF LogTypeOK
<1>9. SinglesOK'
  BY <1>0, <1>1 DEF SinglesOK
<1> QED BY <1>6, <1>7, <1>8, <1>9 DEF TypedInOrder

(* The recent events are cleared, a wait ends, the page changes.            *)
LEMMA QuietOrder ==
    ASSUME TypedInOrder, ClearRecent \/ WaitEnds \/ CacheCleared
    PROVE  TypedInOrder'
<1>0. LogTypeOK /\ SinglesOK /\ RankedNow /\ InOrder
  BY DEF TypedInOrder
<1>1. /\ UNCHANGED <<logEnv, logged, halfway, channel, worker, files, open, faults, hook, post,
                     received, waits, alive>>
      /\ UNCHANGED files
      /\ recent' = recent \/ recent' = <<>>
      /\ cache' = cache \/ cache' = {}
      /\ waiter' = waiter \/ waiter' = {}
  BY DEF ClearRecent, WaitEnds, CacheCleared, fileVars, hookVars, pageVars
<1>2. /\ Filed' = Filed /\ WithWorker' = WithWorker /\ ToFile' = ToFile /\ Halfway' = Halfway
      /\ In(channel)' = In(channel) /\ In(received)' = In(received)
      /\ Posted' = Posted /\ In(hook)' = In(hook)
  BY <1>1, FilesStay DEF WithWorker, ToFile, Posted, In, Halfway
<1>3. /\ In(recent)' \subseteq In(recent) /\ (Ascending(recent) => Ascending(recent)')
      /\ recent' \in Seq(LogEvents)
  <2>1. recent \in Seq(LogEvents)
    BY <1>0 DEF LogTypeOK
  <2>2. CASE recent' = recent
    BY <2>1, <2>2 DEF In, Ascending
  <2>3. CASE recent' = <<>>
    <3>1. recent' \in Seq(LogEvents) /\ DOMAIN (recent') = {}
      BY <2>3
    <3>2. (DOMAIN recent)' = {}
      BY <3>1
    <3> QED BY <3>1, <3>2 DEF In, Ascending
  <2> QED BY <1>1, <2>2, <2>3
<1>4. RankedNow'
  <2>1. Ranked(logged, Filed, WithWorker, ToFile, In(channel), Halfway, In(received), Posted,
               In(hook), In(recent)')
    BY <1>0, <1>3, RankedLess DEF RankedNow
  <2> QED BY <1>1, <1>2, <2>1 DEF RankedNow
<1>5. InOrder'
  BY <1>0, <1>1, <1>3, FilesStay DEF InOrder, ReceivedInOrder, Ascending
<1>6. LogTypeOK'
  BY <1>0, <1>1, <1>3 DEF LogTypeOK
<1>7. SinglesOK'
  BY <1>0, <1>1 DEF SinglesOK
<1> QED BY <1>4, <1>5, <1>6, <1>7 DEF TypedInOrder

(* The worker takes m from the channel and makes E of it, an event or none. *)
Taken(m, E) ==
    /\ alive /\ worker = {} /\ channel # <<>> /\ m = Head(channel) /\ channel' = Tail(channel)
    /\ m \in CallEvents \cup Messages
    /\ E \subseteq LogEvents /\ (\A e, f \in E : e = f)
    /\ \A e \in E : e.id = m.id /\ e.by = m.by
    /\ worker' = {[ev |-> e, to |-> "file"] : e \in E}
    /\ recent' = recent \/ (m.by = "page" /\ \E e \in E : recent' = Push(recent, e))
    /\ \/ m.kind = "call" /\ E = {m}
       \/ m.kind = "update" /\ m.prev = {m.cur} /\ E = {}
       \/ /\ m.kind = "update" /\ E # {}
          /\ \A e \in E : /\ e.from = m.prev /\ e.to = m.cur /\ e.kind # "call"
                          /\ e.kind = "patch" => m.prev # {}
    /\ UNCHANGED <<logEnv, logged, halfway, files, open, written, faults, hook, post, received,
                   cache, waiter, waits, alive>>
    /\ UNCHANGED files

(* What the worker holds after it has taken a message.                      *)
LEMMA TakeEffect ==
    ASSUME LogTypeOK, WorkerTakes
    PROVE  \E m, E : Taken(m, E)
<1> PICK m : m = Head(channel)
  OBVIOUS
<1> PICK built : built = IF m.kind = "update" THEN BuildStateUpdate(m) ELSE {m}
  OBVIOUS
<1>1. /\ alive /\ worker = {} /\ channel # <<>> /\ channel' = Tail(channel)
      /\ worker' = {[ev |-> Sanitized(e), to |-> "file"] : e \in built}
      /\ recent' = IF built # {} /\ Buffers(m)
                   THEN Push(recent, Sanitized(CHOOSE e \in built : TRUE)) ELSE recent
  BY DEF WorkerTakes
<1>2. /\ UNCHANGED <<logEnv, logged, halfway, files, open, written, faults, hook, post, received,
                     cache, waiter, waits, alive>>
      /\ UNCHANGED files
  BY DEF WorkerTakes, fileVars, hookVars, pageVars
<1>3. channel \in Seq(CallEvents \cup Messages)
  BY DEF LogTypeOK
<1>4. m \in CallEvents \cup Messages
  <2> PICK S : S = CallEvents \cup Messages
    OBVIOUS
  <2>1. channel \in Seq(S) /\ channel # <<>>
    BY <1>1, <1>3
  <2>2. Head(channel) \in S
    BY ONLY <2>1
  <2> QED BY <2>2
<1>5. CASE m \in CallEvents
  <2>1. Sanitized(m) = m /\ m.kind = "call" /\ m \in LogEvents
    BY <1>5, CallStays
  <2>2. built = {m} /\ ~ Buffers(m)
    BY <2>1 DEF Buffers
  <2>3. worker' = {[ev |-> e, to |-> "file"] : e \in {m}} /\ recent' = recent
    BY <1>1, <2>1, <2>2
  <2>4. Taken(m, {m})
    BY <1>1, <1>2, <1>4, <2>1, <2>3 DEF Taken
  <2> QED BY <2>4
<1>6. CASE m \in Messages
  <2>1. m.kind = "update" /\ m.by = "page"
    BY <1>6 DEF Messages
  <2>2. built = BuildStateUpdate(m) /\ Buffers(m)
    BY <2>1 DEF Buffers
  <2>3. CASE m.prev = {m.cur} /\ BuildStateUpdate(m) = {}
    <3>1. worker' = {[ev |-> e, to |-> "file"] : e \in {}} /\ recent' = recent
      BY <1>1, <2>2, <2>3
    <3>2. Taken(m, {})
      BY <1>1, <1>2, <1>4, <2>1, <2>3, <3>1 DEF Taken
    <3> QED BY <3>2
  <2>4. ASSUME NEW e, BuiltOf(m, e)
        PROVE  \E E : Taken(m, E)
    <3> PICK s : s = Sanitized(e)
      OBVIOUS
    <3>1. /\ built = {e} /\ s \in UpdateEvents /\ s.id = m.id /\ s.by = m.by
          /\ s.from = m.prev /\ s.to = m.cur /\ s.kind # "call"
          /\ s.kind = "patch" => m.prev # {}
      BY <2>2, <2>4 DEF BuiltOf
    <3>2. (CHOOSE d \in {e} : TRUE) = e
      OBVIOUS
    <3>3. /\ worker' = {[ev |-> d, to |-> "file"] : d \in {s}}
          /\ recent' = Push(recent, s)
      BY <1>1, <2>2, <3>1, <3>2
    <3>4. s \in LogEvents
      BY <3>1 DEF LogEvents
    <3>5. Taken(m, {s})
      BY <1>1, <1>2, <1>4, <2>1, <3>1, <3>3, <3>4 DEF Taken
    <3> QED BY <3>5
  <2> QED BY <1>6, <2>3, <2>4, Built
<1> QED BY <1>4, <1>5, <1>6

(* The worker takes the oldest message.                                     *)
LEMMA TakeOrder ==
    ASSUME LogAssumption, TypedInOrder, WorkerTakes
    PROVE  TypedInOrder'
<1>0. LogTypeOK /\ SinglesOK /\ RankedNow /\ InOrder
  BY DEF TypedInOrder
<1>1. PICK m, E : Taken(m, E)
  BY <1>0, TakeEffect
<1>2. /\ worker = {} /\ channel # <<>> /\ m = Head(channel) /\ channel' = Tail(channel)
      /\ E \subseteq LogEvents /\ (\A e, f \in E : e = f)
      /\ \A e \in E : e.id = m.id /\ e.by = m.by
      /\ worker' = {[ev |-> e, to |-> "file"] : e \in E}
      /\ recent' = recent \/ (m.by = "page" /\ \E e \in E : recent' = Push(recent, e))
      /\ UNCHANGED <<logEnv, logged, halfway, files, open, faults, hook, post, received,
                     cache, waiter, waits, alive>>
      /\ UNCHANGED files
  BY <1>1 DEF Taken
<1>3. /\ m \in In(channel) /\ In(channel)' \subseteq In(channel) /\ Ascending(channel)'
      /\ \A f \in In(channel)' : m.by = f.by => m.id < f.id
      /\ channel' \in Seq(CallEvents \cup Messages)
  <2> PICK S : S = CallEvents \cup Messages
    OBVIOUS
  <2>1. channel \in Seq(S) /\ channel # <<>> /\ Ascending(channel)
    BY <1>0, <1>2 DEF InOrder, LogTypeOK
  <2>2. /\ Head(channel) \in In(channel) /\ Tail(channel) \in Seq(S)
        /\ In(Tail(channel)) \subseteq In(channel) /\ Ascending(Tail(channel))
        /\ \A f \in In(Tail(channel)) : Head(channel).by = f.by => Head(channel).id < f.id
    BY ONLY <2>1, TheRest
  <2>3. In(channel)' = In(channel') /\ (Ascending(channel)' <=> Ascending(channel'))
    BY DEF In, Ascending
  <2> QED BY <1>2, <2>2, <2>3
<1>4. WithWorker = {} /\ ToFile = {} /\ WithWorker' = E /\ ToFile' = E
  <2>1. WithWorker = {} /\ ToFile = {}
    BY <1>2 DEF WithWorker, ToFile
  <2>2. /\ \A w \in worker' : w.to = "file" /\ w.ev \in E
        /\ \A e \in E : \E w \in worker' : w.ev = e
    <3>1. worker' = {[ev |-> e, to |-> "file"] : e \in E}
      BY <1>2
    <3>2. \A w \in worker' : w.to = "file" /\ w.ev \in E
      BY ONLY <3>1
    <3>3. \A e \in E : [ev |-> e, to |-> "file"] \in worker' /\ [ev |-> e, to |-> "file"].ev = e
      BY ONLY <3>1
    <3> QED BY <3>2, <3>3
  <2>3. {w.ev : w \in worker'} = E /\ {v \in worker' : v.to = "file"} = worker'
    BY <2>2
  <2>4. WithWorker' = {w.ev : w \in worker'}
    BY DEF WithWorker
  <2>5. ToFile' = {w.ev : w \in {v \in worker' : v.to = "file"}}
    BY DEF ToFile
  <2> QED BY <2>1, <2>3, <2>4, <2>5
<1>5. /\ recent' \in Seq(LogEvents) /\ In(recent)' \subseteq In(recent) \cup E
      /\ Ascending(recent)'
  <2>1. recent \in Seq(LogEvents) /\ Ascending(recent)
    BY <1>0 DEF LogTypeOK, InOrder
  <2>2. CASE recent' = recent
    BY <2>1, <2>2 DEF In, Ascending
  <2>3. CASE m.by = "page" /\ \E e \in E : recent' = Push(recent, e)
    <3>1. PICK e \in E : recent' = Push(recent, e)
      BY <2>3
    <3>2. \A d \in In(recent) : d.by = e.by => d.id < e.id
      BY <1>0, <1>2, <1>3, <2>3 DEF RankedNow, Ranked, Ahead
    <3>3. e \in LogEvents
      BY <1>2
    <3>4. /\ Push(recent, e) \in Seq(LogEvents)
          /\ In(Push(recent, e)) \subseteq In(recent) \cup {e}
          /\ Ascending(Push(recent, e))
      BY ONLY <2>1, <3>2, <3>3, Pushed
    <3>5. In(recent)' = In(recent') /\ (Ascending(recent)' <=> Ascending(recent'))
      BY DEF In, Ascending
    <3> QED BY <3>1, <3>4, <3>5
  <2> QED BY <1>2, <2>2, <2>3
<1>6. /\ Filed' = Filed /\ Halfway' = Halfway /\ In(received)' = In(received)
      /\ Posted' = Posted /\ In(hook)' = In(hook)
  BY <1>2, FilesStay DEF Posted, In, Halfway
<1>7. RankedNow'
  <2>1. Ranked(logged, Filed, {}, {}, In(channel), Halfway, In(received), Posted, In(hook),
               In(recent))
    BY <1>0, <1>4 DEF RankedNow
  <2>2. Ranked(logged, Filed, E, E, In(channel)', Halfway, In(received), Posted, In(hook),
               In(recent)')
    BY <1>2, <1>3, <1>5, <2>1, RankedTake
  <2> QED BY <1>2, <1>4, <1>6, <2>2 DEF RankedNow
<1>8. InOrder'
  BY <1>0, <1>2, <1>3, <1>5, FilesStay DEF InOrder, ReceivedInOrder, Ascending
<1>9. LogTypeOK'
  <2>1. worker' \subseteq [ev : LogEvents, to : {"file", "hook"}]
    BY <1>2
  <2> QED BY <1>0, <1>2, <1>3, <1>5, <2>1 DEF LogTypeOK
<1>10. SinglesOK'
  BY <1>0, <1>2 DEF SinglesOK
<1> QED BY <1>7, <1>8, <1>9, <1>10 DEF TypedInOrder

(* The write of e opens a file or not, and leaves a piece of the line: it   *)
(* was written, or failed.                                                  *)
FileWrite(e, fresh, p) ==
    /\ p \in LogPieces /\ p.ev = e /\ fresh \in BOOLEAN
    /\ files' = AppendPiece(IF fresh THEN Append(files, <<>>) ELSE files, p)
    /\ ~ fresh => open # {} /\ (logEnv.max > 0 => \A b \in open : ~ (b + EventSize(e) > logEnv.max))
    /\ \/ /\ p.whole /\ (logEnv.sync => p.safe) /\ written' = written \cup {e.id}
          /\ faults' = faults
          /\ open' = {EventSize(e) + (IF fresh THEN 0 ELSE CHOOSE b \in open : TRUE)}
       \/ /\ faults' = faults + 1 /\ written' = written
          /\ open' = IF fresh THEN {0} ELSE open

(* A write that failed before anything was written.                         *)
FileUntouched == UNCHANGED <<files, open, written>> /\ UNCHANGED files

(* A write adds one piece, to the last file or a fresh one, or none.        *)
LEMMA WriteCases ==
    ASSUME LogTypeOK, NEW e \in LogEvents, WriteOk(e) \/ WriteFails(e)
    PROVE  \/ FileUntouched /\ faults' = faults + 1
           \/ \E fresh, p : FileWrite(e, fresh, p)
<1> PICK fresh : fresh = (NeedsNew(e) = TRUE)
  OBVIOUS
<1>1. fresh \in BOOLEAN /\ (fresh <=> NeedsNew(e))
  OBVIOUS
<1>2. ~ fresh => open # {} /\ (logEnv.max > 0 => \A b \in open : ~ (b + EventSize(e) > logEnv.max))
  BY <1>1 DEF NeedsNew
<1>3. \A w, s \in BOOLEAN : Piece(e, w, s) \in LogPieces /\ Piece(e, w, s).ev = e
                            /\ (Piece(e, w, s).whole <=> w) /\ (Piece(e, w, s).safe <=> s)
  BY DEF LogPieces, Piece
<1>4. logEnv.sync \in BOOLEAN
  BY DEF LogTypeOK
<1>5. CASE WriteOk(e)
  <2> PICK p : p = Piece(e, TRUE, logEnv.sync)
    OBVIOUS
  <2>1. p \in LogPieces /\ p.ev = e /\ p.whole /\ (logEnv.sync => p.safe)
    BY <1>3, <1>4
  <2>2. /\ files' = AppendPiece(IF NeedsNew(e) THEN Append(files, <<>>) ELSE files, p)
        /\ open' = {EventSize(e) + (IF NeedsNew(e) THEN 0 ELSE CHOOSE b \in open : TRUE)}
        /\ written' = written \cup {e.id} /\ faults' = faults
    BY <1>5 DEF WriteOk
  <2>3. FileWrite(e, fresh, p)
    BY <1>1, <1>2, <2>1, <2>2 DEF FileWrite
  <2> QED BY <2>3
<1>6. CASE WriteFails(e)
  <2>1. CASE UNCHANGED <<files, open>>
    BY <1>6, <2>1 DEF WriteFails, FileUntouched
  <2>2. ASSUME NEW w \in BOOLEAN,
               files' = AppendPiece(IF NeedsNew(e) THEN Append(files, <<>>) ELSE files,
                                    Piece(e, w, FALSE)),
               open' = IF NeedsNew(e) THEN {0} ELSE open
        PROVE  \E p : FileWrite(e, fresh, p)
    <3> PICK p : p = Piece(e, w, FALSE)
      OBVIOUS
    <3>1. p \in LogPieces /\ p.ev = e
      BY <1>3
    <3>2. faults' = faults + 1 /\ written' = written
      BY <1>6 DEF WriteFails
    <3>3. FileWrite(e, fresh, p)
      BY <1>1, <1>2, <2>2, <3>1, <3>2 DEF FileWrite
    <3> QED BY <3>3
  <2> QED BY <1>6, <2>1, <2>2 DEF WriteFails
<1> QED BY <1>5, <1>6

(* The files after it.                                                      *)
LEMMA FileWritten ==
    ASSUME LogTypeOK, open # {} => files # <<>>, NEW e \in LogEvents, NEW fresh, NEW p,
           FileWrite(e, fresh, p)
    PROVE  /\ \E top : Grown(top, p)
           /\ files' \in Seq(Seq(LogPieces)) /\ files' # <<>> /\ open' \subseteq Nat
           /\ (\A a, b \in open : a = b) => \A a, b \in open' : a = b
<1>1. /\ p \in LogPieces /\ p.ev = e /\ fresh \in BOOLEAN /\ (~ fresh => open # {})
      /\ files' = AppendPiece(IF fresh THEN Append(files, <<>>) ELSE files, p)
  BY DEF FileWrite
<1>2. files \in Seq(Seq(LogPieces)) /\ open \subseteq Nat
  BY DEF LogTypeOK, LogPieces
<1>3. (\E top : Grown(top, p)) /\ files' # <<>>
  BY <1>1, <1>2, WriteGrows
<1>4. files' \in Seq(Seq(LogPieces))
  BY <1>3 DEF Grown
<1>5. EventSize(e) \in Nat
  BY SizesCount
<1>6. /\ \E n \in Nat : open' = {n}
      \/ open' = open
  <2>1. CASE open' = {EventSize(e) + (IF fresh THEN 0 ELSE CHOOSE b \in open : TRUE)}
    <3>1. ~ fresh => (CHOOSE b \in open : TRUE) \in Nat
      BY <1>1, <1>2
    <3>2. CASE fresh
      <4>1. open' = {EventSize(e) + 0} /\ EventSize(e) + 0 \in Nat
        BY <1>5, <2>1, <3>2
      <4> QED BY <4>1
    <3>3. CASE ~ fresh
      <4>1. open' = {EventSize(e) + (CHOOSE b \in open : TRUE)}
        BY <2>1, <3>3
      <4>2. EventSize(e) + (CHOOSE b \in open : TRUE) \in Nat
        BY <1>5, <3>1, <3>3
      <4> QED BY <4>1, <4>2
    <3> QED BY <3>2, <3>3
  <2>2. CASE open' = IF fresh THEN {0} ELSE open
    BY <1>1, <2>2
  <2> QED BY <2>1, <2>2 DEF FileWrite
<1> QED BY <1>2, <1>3, <1>4, <1>6

(* A piece more keeps the order on file if its event is the latest.         *)
LEMMA GrownOrder ==
    ASSUME NEW top, NEW p, Grown(top, p), PiecesInOrder,
           \A f \in Filed : f.by = p.ev.by => f.id < p.ev.id
    PROVE  PiecesInOrder' /\ Filed' = Filed \cup {p.ev}
<1>1. /\ Pieces' = Pieces \cup {top}
      /\ \A q \in Pieces : ~ Sooner(top, q) /\ PieceAt(q)'.ev = PieceAt(q).ev
      /\ PieceAt(top)' = p /\ ~ Sooner(top, top)
  BY DEF Grown, PieceAt
<1>2. Filed' = Filed \cup {p.ev}
  <2>1. Filed' = {PieceAt(q)'.ev : q \in Pieces'}
    BY DEF Filed
  <2> QED BY <1>1, <2>1 DEF Filed
<1>3. ASSUME NEW q \in Pieces', NEW r \in Pieces', Sooner(q, r),
             PieceAt(q)'.ev.by = PieceAt(r)'.ev.by
      PROVE  PieceAt(q)'.ev.id < PieceAt(r)'.ev.id
  <2>1. q \in Pieces
    BY <1>1, <1>3
  <2>2. CASE r = top
    BY <1>1, <1>3, <2>1, <2>2 DEF Filed
  <2>3. CASE r \in Pieces
    BY <1>1, <1>3, <2>1, <2>3 DEF PiecesInOrder
  <2> QED BY <1>1, <2>2, <2>3
<1>4. PiecesInOrder'
  BY <1>3 DEF PiecesInOrder, Sooner
<1> QED BY <1>2, <1>4

(* The worker has written.                                                  *)
Wrote(w) ==
    /\ alive /\ w \in worker /\ w.to = "file" /\ w.ev \in LogEvents
    /\ worker' = {[ev |-> w.ev, to |-> "hook"]}
    /\ \/ ~ logEnv.file /\ FileUntouched /\ faults' = faults
       \/ logEnv.file /\ FileUntouched /\ faults' = faults + 1
       \/ logEnv.file /\ \E fresh, p : FileWrite(w.ev, fresh, p)
    /\ UNCHANGED <<logEnv, logged, halfway, recent, channel, hook, post, received, cache,
                   waiter, waits, alive>>

(* The worker has tried to write its event, which goes to the hook next.    *)
LEMMA WriteEffect ==
    ASSUME LogTypeOK, WorkerWrites
    PROVE  \E w : Wrote(w)
<1>1. PICK w \in worker : /\ w.to = "file" /\ worker' = {[w EXCEPT !.to = "hook"]}
                          /\ IF logEnv.file THEN WriteOk(w.ev) \/ WriteFails(w.ev)
                             ELSE UNCHANGED fileVars
  BY DEF WorkerWrites
<1>2. w \in [ev : LogEvents, to : {"file", "hook"}]
  BY DEF LogTypeOK
<1>3. [w EXCEPT !.to = "hook"] = [ev |-> w.ev, to |-> "hook"] /\ w.ev \in LogEvents
  BY <1>2
<1>4. /\ UNCHANGED <<logEnv, logged, halfway, recent, channel, hook, post, received, cache,
                     waiter, waits, alive>>
      /\ alive
  BY DEF WorkerWrites, hookVars, pageVars
<1>5. CASE logEnv.file
  <2>1. WriteOk(w.ev) \/ WriteFails(w.ev)
    BY <1>1, <1>5
  <2>2. \/ FileUntouched /\ faults' = faults + 1
        \/ \E fresh, p : FileWrite(w.ev, fresh, p)
    BY <1>3, <2>1, WriteCases
  <2> QED BY <1>1, <1>3, <1>4, <1>5, <2>2 DEF Wrote
<1>6. CASE ~ logEnv.file
  <2>1. FileUntouched /\ faults' = faults
    BY <1>1, <1>6 DEF fileVars, FileUntouched
  <2> QED BY <1>1, <1>3, <1>4, <1>6, <2>1 DEF Wrote
<1> QED BY <1>5, <1>6

(* The worker writes the event after all that are on file.                  *)
LEMMA WriteOrder ==
    ASSUME TypedInOrder, open # {} => files # <<>>, NEW w, Wrote(w)
    PROVE  TypedInOrder'
<1>0. LogTypeOK /\ SinglesOK /\ RankedNow /\ InOrder
  BY DEF TypedInOrder
<1>1. /\ w \in worker /\ w.to = "file" /\ worker' = {[ev |-> w.ev, to |-> "hook"]}
      /\ w.ev \in LogEvents
      /\ UNCHANGED <<logEnv, logged, halfway, recent, channel, hook, post, received, cache,
                     waiter, waits, alive>>
  BY DEF Wrote
<1>2. w.ev \in ToFile /\ WithWorker = {w.ev} /\ WithWorker' = {w.ev} /\ ToFile' = {}
  <2>1. w.ev \in ToFile
    BY <1>1 DEF ToFile
  <2>2. worker = {w}
    BY <1>0, <1>1 DEF SinglesOK
  <2>3. WithWorker = {w.ev}
    BY <2>2 DEF WithWorker
  <2>4. WithWorker' = {w.ev}
    BY <1>1 DEF WithWorker
  <2>5. \A v \in worker' : ~ (v.to = "file")
    BY <1>1
  <2>6. ToFile' = {v.ev : v \in {u \in worker' : u.to = "file"}}
    BY DEF ToFile
  <2> QED BY <2>1, <2>3, <2>4, <2>5, <2>6
<1>3. /\ Filed' \subseteq Filed \cup ToFile /\ PiecesInOrder'
      /\ files' \in Seq(Seq(LogPieces)) /\ open' \subseteq Nat /\ faults' \in Nat
      /\ \A a, b \in open' : a = b
  <2>1. /\ PiecesInOrder /\ files \in Seq(Seq(LogPieces)) /\ open \subseteq Nat
        /\ faults \in Nat /\ \A a, b \in open : a = b
    BY <1>0 DEF InOrder, LogTypeOK, LogPieces, SinglesOK
  <2>2. CASE FileUntouched /\ (faults' = faults \/ faults' = faults + 1)
    <3>1. UNCHANGED files /\ files' = files /\ open' = open /\ faults' \in Nat
      BY <2>1, <2>2 DEF FileUntouched
    <3>2. Filed' = Filed /\ PiecesInOrder'
      BY <2>1, <3>1, FilesStay
    <3> QED BY <2>1, <3>1, <3>2
  <2>3. ASSUME NEW fresh, NEW p, FileWrite(w.ev, fresh, p)
        PROVE  /\ Filed' \subseteq Filed \cup ToFile /\ PiecesInOrder'
               /\ files' \in Seq(Seq(LogPieces)) /\ open' \subseteq Nat /\ faults' \in Nat
               /\ \A a, b \in open' : a = b
    <3>1. /\ \E top : Grown(top, p)
          /\ files' \in Seq(Seq(LogPieces)) /\ open' \subseteq Nat
          /\ \A a, b \in open' : a = b
      BY <1>0, <1>1, <2>1, <2>3, FileWritten
    <3>2. PICK top : Grown(top, p)
      BY <3>1
    <3>3. p.ev = w.ev /\ faults' \in Nat
      BY <2>1, <2>3 DEF FileWrite
    <3>4. \A f \in Filed : f.by = p.ev.by => f.id < p.ev.id
      BY <1>0, <1>2, <3>3 DEF RankedNow, Ranked, Ahead
    <3>5. PiecesInOrder' /\ Filed' = Filed \cup {p.ev}
      BY <2>1, <3>2, <3>4, GrownOrder
    <3> QED BY <1>2, <3>1, <3>3, <3>5
  <2> QED BY <2>2, <2>3 DEF Wrote
<1>4. /\ Halfway' = Halfway /\ In(channel)' = In(channel) /\ In(recent)' = In(recent)
      /\ In(received)' = In(received) /\ Posted' = Posted /\ In(hook)' = In(hook)
  BY <1>1 DEF Posted, In, Halfway
<1>5. RankedNow'
  <2>1. Ranked(logged, Filed', WithWorker, {}, In(channel), Halfway, In(received), Posted,
               In(hook), In(recent))
    BY <1>0, <1>3, RankedWrite DEF RankedNow
  <2> QED BY <1>1, <1>2, <1>4, <2>1 DEF RankedNow
<1>6. InOrder'
  BY <1>0, <1>1, <1>3 DEF InOrder, ReceivedInOrder, Ascending
<1>7. LogTypeOK'
  <2>1. worker' \subseteq [ev : LogEvents, to : {"file", "hook"}]
    BY <1>1
  <2>2. files' \in Seq(Seq([ev : LogEvents, whole : BOOLEAN, safe : BOOLEAN]))
    BY <1>3 DEF LogPieces
  <2> QED BY <1>0, <1>1, <1>3, <2>1, <2>2 DEF LogTypeOK
<1>8. SinglesOK'
  BY <1>0, <1>1, <1>3 DEF SinglesOK
<1> QED BY <1>5, <1>6, <1>7, <1>8 DEF TypedInOrder

(* The worker hands its event to the webhook's queue, if there is room.     *)
LEMMA WorkerPostsOrder ==
    ASSUME TypedInOrder, WorkerPosts
    PROVE  TypedInOrder'
<1>0. LogTypeOK /\ SinglesOK /\ RankedNow /\ InOrder
  BY DEF TypedInOrder
<1>1. PICK w \in worker : hook' = IF Len(hook) < logEnv.hook THEN Append(hook, w.ev) ELSE hook
  BY DEF WorkerPosts
<1>2. /\ worker' = {}
      /\ UNCHANGED <<logEnv, logged, halfway, recent, channel, files, open, faults, post,
                     received, cache, waiter, waits, alive>>
      /\ UNCHANGED files
  BY DEF WorkerPosts, fileVars, pageVars
<1>3. w.ev \in LogEvents /\ w.ev \in WithWorker
  BY <1>0 DEF LogTypeOK, WithWorker
<1>4. /\ hook' \in Seq(LogEvents) /\ In(hook)' \subseteq In(hook) \cup WithWorker
      /\ Ascending(hook)'
  <2>1. hook \in Seq(LogEvents) /\ Ascending(hook)
    BY <1>0 DEF LogTypeOK, InOrder
  <2>2. CASE hook' = hook
    BY <2>1, <2>2 DEF In, Ascending
  <2>3. CASE hook' = Append(hook, w.ev)
    <3>1. \A d \in In(hook) : d.by = w.ev.by => d.id < w.ev.id
      BY <1>0, <1>3 DEF RankedNow, Ranked, Ahead
    <3>2. /\ Append(hook, w.ev) \in Seq(LogEvents)
          /\ In(Append(hook, w.ev)) = In(hook) \cup {w.ev}
          /\ Ascending(Append(hook, w.ev))
      BY <1>3, <2>1, <3>1, OneMore
    <3>3. In(hook)' = In(hook') /\ (Ascending(hook)' <=> Ascending(hook'))
      BY DEF In, Ascending
    <3> QED BY <1>3, <2>3, <3>2, <3>3
  <2> QED BY <1>1, <2>2, <2>3
<1>5. /\ Filed' = Filed /\ Halfway' = Halfway /\ In(channel)' = In(channel)
      /\ In(recent)' = In(recent) /\ In(received)' = In(received) /\ Posted' = Posted
  BY <1>2, FilesStay DEF Posted, In, Halfway
<1>6. WithWorker' = {} /\ ToFile' = {}
  BY <1>2 DEF WithWorker, ToFile
<1>7. RankedNow'
  <2>1. Ranked(logged, Filed, {}, {}, In(channel), Halfway, In(received), Posted, In(hook)',
               In(recent))
    BY <1>0, <1>4, RankedPost DEF RankedNow
  <2> QED BY <1>2, <1>5, <1>6, <2>1 DEF RankedNow
<1>8. InOrder'
  BY <1>0, <1>2, <1>4, FilesStay DEF InOrder, ReceivedInOrder, Ascending
<1>9. LogTypeOK'
  BY <1>0, <1>2, <1>4 DEF LogTypeOK
<1>10. SinglesOK'
  BY <1>0, <1>2 DEF SinglesOK
<1> QED BY <1>7, <1>8, <1>9, <1>10 DEF TypedInOrder

(* The sender thread takes the first of its queue.                          *)
LEMMA HookNextOrder ==
    ASSUME LogAssumption, TypedInOrder, HookNext
    PROVE  /\ TypedInOrder'
           /\ \E q \in In(hook) : post' = {[ev |-> q, attempt |-> 0]}
<1>0. LogTypeOK /\ SinglesOK /\ RankedNow /\ InOrder
  BY DEF TypedInOrder
<1> PICK q : q = Head(hook)
  OBVIOUS
<1>1. /\ post = {} /\ hook # <<>> /\ hook' = Tail(hook)
      /\ post' = {[ev |-> q, attempt |-> 0]}
      /\ UNCHANGED <<logEnv, logged, halfway, recent, channel, worker, files, open, faults,
                     received, cache, waiter, waits, alive>>
      /\ UNCHANGED files
  BY DEF HookNext, fileVars, pageVars
<1>2. /\ q \in LogEvents /\ q \in In(hook) /\ hook' \in Seq(LogEvents)
      /\ In(hook)' \subseteq In(hook) /\ Ascending(hook)'
      /\ \A f \in In(hook)' : q.by = f.by => q.id < f.id
  <2>1. hook \in Seq(LogEvents) /\ hook # <<>> /\ Ascending(hook)
    BY <1>0, <1>1 DEF LogTypeOK, InOrder
  <2>2. /\ Head(hook) \in LogEvents /\ Head(hook) \in In(hook) /\ Tail(hook) \in Seq(LogEvents)
        /\ In(Tail(hook)) \subseteq In(hook) /\ Ascending(Tail(hook))
        /\ \A f \in In(Tail(hook)) : Head(hook).by = f.by => Head(hook).id < f.id
    BY ONLY <2>1, TheRest
  <2>3. In(hook)' = In(hook') /\ (Ascending(hook)' <=> Ascending(hook'))
    BY DEF In, Ascending
  <2> QED BY <1>1, <2>2, <2>3
<1>3. /\ Filed' = Filed /\ Halfway' = Halfway /\ In(channel)' = In(channel)
      /\ In(recent)' = In(recent) /\ In(received)' = In(received)
      /\ WithWorker' = WithWorker /\ ToFile' = ToFile
  BY <1>1, FilesStay DEF In, Halfway, WithWorker, ToFile
<1>4. Posted = {} /\ Posted' = {q}
  <2>1. Posted' = {v.ev : v \in post'}
    BY DEF Posted
  <2>2. {v.ev : v \in {[ev |-> q, attempt |-> 0]}} = {q}
    OBVIOUS
  <2> QED BY <1>1, <2>1, <2>2 DEF Posted
<1>5. RankedNow'
  <2>1. Ranked(logged, Filed, WithWorker, ToFile, In(channel), Halfway, In(received), {},
               In(hook), In(recent))
    BY <1>0, <1>4 DEF RankedNow
  <2>2. Ranked(logged, Filed, WithWorker, ToFile, In(channel), Halfway, In(received), {q},
               In(hook)', In(recent))
    BY <1>2, <2>1, RankedNext
  <2> QED BY <1>1, <1>3, <1>4, <2>2 DEF RankedNow
<1>6. InOrder'
  BY <1>0, <1>1, <1>2, FilesStay DEF InOrder, ReceivedInOrder, Ascending
<1>7. LogTypeOK'
  <2>1. 0 \in 0 .. MaxRetries
    BY LogAssumption DEF LogAssumption
  <2>2. post' \subseteq [ev : LogEvents, attempt : 0 .. MaxRetries]
    BY <1>1, <1>2, <2>1
  <2> QED BY <1>0, <1>1, <1>2, <2>2 DEF LogTypeOK
<1>8. SinglesOK'
  BY <1>0, <1>1 DEF SinglesOK
<1> QED BY <1>1, <1>2, <1>5, <1>6, <1>7, <1>8 DEF TypedInOrder

(* p was posted: got, and to be tried again, or not.                        *)
PostTried(p) ==
    /\ p \in post /\ post = {p} /\ p.ev \in LogEvents /\ p.attempt \in 0 .. MaxRetries
    /\ received' = received \/ received' = Append(received, p.ev)
    /\ \/ post' = {}
       \/ /\ post' = {[ev |-> p.ev, attempt |-> p.attempt + 1]}
          /\ p.attempt + 1 \in 0 .. MaxRetries
    /\ UNCHANGED <<logEnv, logged, halfway, recent, channel, worker, files, open, faults,
                   hook, cache, waiter, waits, alive>>
    /\ UNCHANGED files

(* The sender got through or not, and goes on trying or not.                *)
LEMMA PostEffect ==
    ASSUME LogAssumption, LogTypeOK, SinglesOK, HookPosts
    PROVE  \E p : PostTried(p)
<1>1. PICK p \in post :
         /\ received' = received \/ received' = Append(received, p.ev)
         /\ \/ post' = {}
            \/ RetriesLeft(p) /\ post' = {[p EXCEPT !.attempt = p.attempt + 1]}
  <2>1. PICK p \in post, got \in BOOLEAN, answer \in {"ok", "retryable", "fatal"} :
         /\ received' = IF got THEN Append(received, p.ev) ELSE received
         /\ post' = IF answer = "retryable" /\ RetriesLeft(p)
                    THEN {[p EXCEPT !.attempt = p.attempt + 1]} ELSE {}
    BY DEF HookPosts
  <2>2. received' = received \/ received' = Append(received, p.ev)
    BY <2>1
  <2>3. post' = {} \/ (RetriesLeft(p) /\ post' = {[p EXCEPT !.attempt = p.attempt + 1]})
    BY <2>1
  <2> QED BY <2>2, <2>3
<1>2. p \in [ev : LogEvents, attempt : 0 .. MaxRetries] /\ post = {p}
  BY DEF LogTypeOK, SinglesOK
<1>3. /\ [p EXCEPT !.attempt = p.attempt + 1] = [ev |-> p.ev, attempt |-> p.attempt + 1]
      /\ p.ev \in LogEvents /\ p.attempt \in 0 .. MaxRetries
  BY <1>2
<1>4. MaxRetries \in Nat
  BY LogAssumption DEF LogAssumption
<1>5. RetriesLeft(p) => p.attempt + 1 \in 0 .. MaxRetries
  BY <1>3, <1>4 DEF RetriesLeft
<1>6. /\ UNCHANGED <<logEnv, logged, halfway, recent, channel, worker, files, open, faults,
                     hook, cache, waiter, waits, alive>>
      /\ UNCHANGED files
  BY DEF HookPosts, fileVars, pageVars
<1>7. \/ post' = {}
      \/ /\ post' = {[ev |-> p.ev, attempt |-> p.attempt + 1]}
         /\ p.attempt + 1 \in 0 .. MaxRetries
  BY <1>1, <1>3, <1>5
<1>8. PostTried(p)
  BY <1>1, <1>2, <1>3, <1>6, <1>7 DEF PostTried
<1> QED BY <1>8

(* The receiver gets a line, or not.                                        *)
LEMMA PostOrder ==
    ASSUME TypedInOrder, NEW p, PostTried(p)
    PROVE  TypedInOrder'
<1>0. LogTypeOK /\ SinglesOK /\ RankedNow /\ InOrder
  BY DEF TypedInOrder
<1>1. /\ post = {p} /\ p.ev \in LogEvents
      /\ received' = received \/ received' = Append(received, p.ev)
      /\ \/ post' = {}
         \/ /\ post' = {[ev |-> p.ev, attempt |-> p.attempt + 1]}
            /\ p.attempt + 1 \in 0 .. MaxRetries
      /\ UNCHANGED <<logEnv, logged, halfway, recent, channel, worker, files, open, faults,
                     hook, cache, waiter, waits, alive>>
      /\ UNCHANGED files
  BY DEF PostTried
<1>2. Posted = {p.ev} /\ Posted' \subseteq {p.ev}
  <2>1. Posted' = {v.ev : v \in post'}
    BY DEF Posted
  <2>2. \A v \in post' : v.ev = p.ev
    BY <1>1
  <2> QED BY <1>1, <2>1, <2>2 DEF Posted
<1>3. /\ received' \in Seq(LogEvents) /\ In(received)' \subseteq In(received) \cup Posted
      /\ ReceivedInOrder'
  <2>1. received \in Seq(LogEvents) /\ ReceivedInOrder
    BY <1>0 DEF LogTypeOK, InOrder
  <2>2. CASE received' = received
    BY <2>1, <2>2 DEF In, ReceivedInOrder
  <2>3. CASE received' = Append(received, p.ev)
    <3> PICK s, n : s = received' /\ n = Len(received)
      OBVIOUS
    <3>1. /\ n \in Nat /\ DOMAIN received = 1 .. n /\ DOMAIN s = 1 .. n + 1
          /\ s \in Seq(LogEvents) /\ s[n + 1] = p.ev /\ \A k \in 1 .. n : s[k] = received[k]
      BY <1>1, <2>1, <2>3
    <3>2. In(s) = In(received) \cup {p.ev}
      BY <3>1 DEF In
    <3>3. ASSUME NEW i \in 1 .. n + 1, NEW j \in 1 .. n + 1, i < j, s[i].by = s[j].by
          PROVE  s[i].id <= s[j].id
      <4>1. i \in 1 .. n
        BY <3>1, <3>3
      <4>2. CASE j = n + 1
        <5>1. s[i] \in In(received) /\ s[j] = p.ev /\ p.ev \in Posted
          BY <1>2, <3>1, <4>1, <4>2 DEF In
        <5> QED BY <1>0, <3>3, <5>1 DEF RankedNow, Ranked
      <4>3. CASE j # n + 1
        <5>1. j \in 1 .. n
          BY <3>1, <4>3
        <5> QED BY <2>1, <3>1, <3>3, <4>1, <5>1 DEF ReceivedInOrder
      <4> QED BY <4>2, <4>3
    <3>4. In(received)' = In(s)
      BY DEF In
    <3>5. DOMAIN (received') = 1 .. n + 1
      BY <3>1
    <3>6. ReceivedInOrder'
      BY <3>1, <3>3 DEF ReceivedInOrder
    <3> QED BY <1>2, <3>1, <3>2, <3>4, <3>6
  <2> QED BY <1>1, <2>2, <2>3
<1>4. /\ Filed' = Filed /\ Halfway' = Halfway /\ In(channel)' = In(channel)
      /\ In(recent)' = In(recent) /\ In(hook)' = In(hook)
      /\ WithWorker' = WithWorker /\ ToFile' = ToFile
  BY <1>1, FilesStay DEF In, Halfway, WithWorker, ToFile
<1>5. RankedNow'
  <2>1. \A e, f \in Posted : e = f
    BY <1>2
  <2>2. Ranked(logged, Filed, WithWorker, ToFile, In(channel), Halfway, In(received)', Posted',
               In(hook), In(recent))
    BY <1>0, <1>2, <1>3, <2>1, RankedReceive DEF RankedNow
  <2> QED BY <1>1, <1>4, <2>2 DEF RankedNow
<1>6. InOrder'
  BY <1>0, <1>1, <1>3, FilesStay DEF InOrder, Ascending
<1>7. LogTypeOK'
  <2>1. post' \subseteq [ev : LogEvents, attempt : 0 .. MaxRetries]
    BY <1>1
  <2> QED BY <1>0, <1>1, <1>3, <2>1 DEF LogTypeOK
<1>8. SinglesOK'
  BY <1>0, <1>1 DEF SinglesOK
<1> QED BY <1>5, <1>6, <1>7, <1>8 DEF TypedInOrder

(* The process dies: the files are what they were, or cut behind what is    *)
(* safe.                                                                    *)
Cut ==
    /\ files' \in Seq(Seq(LogPieces)) /\ Len(files') = Len(files)
    /\ Pieces' \subseteq Pieces
    /\ \A p \in Pieces' : files'[p[1]][p[2]] = PieceAt(p)
    /\ \A p \in Pieces : PieceAt(p).safe => p \in Pieces'
    /\ \A n \in 1 .. Len(files) :
         /\ Len(files'[n]) \in Nat /\ Len(files'[n]) <= Len(files[n])
         /\ Bytes(files'[n])[Len(files'[n])] <= Bytes(files[n])[Len(files[n])]
         /\ \A k \in 1 .. Len(files'[n]) : files'[n][k] = files[n][k]

(* A crash empties the memory and cuts the files.                           *)
LEMMA CrashEffect ==
    ASSUME LogTypeOK, LogCrash
    PROVE  /\ Cut /\ alive' = FALSE /\ halfway' = [c \in Callers |-> {}]
           /\ recent' = <<>> /\ channel' = <<>> /\ worker' = {} /\ hook' = <<>> /\ post' = {}
           /\ UNCHANGED <<logEnv, logged, open, written, faults, received, cache, waiter, waits>>
<1>1. files \in Seq(Seq(LogPieces)) /\ logged \in Nat
  BY DEF LogTypeOK, LogPieces
<1>2. CASE UNCHANGED files
  <2>1. PiecesShape
    BY <1>1, PiecesAre
  <2>2. Pieces' = Pieces /\ files' = files
    BY <1>2, FilesStay
  <2>3. \A n \in 1 .. Len(files) : /\ Len(files[n]) \in Nat /\ Len(files[n]) <= Len(files[n])
                                   /\ files[n] \in Seq(LogPieces)
    BY <2>1 DEF PiecesShape
  <2>4. \A n \in 1 .. Len(files) :
          Bytes(files[n])[Len(files[n])] <= Bytes(files[n])[Len(files[n])]
    <3> SUFFICES ASSUME NEW n \in 1 .. Len(files)
                 PROVE  Bytes(files[n])[Len(files[n])] <= Bytes(files[n])[Len(files[n])]
      OBVIOUS
    <3>1. Len(files[n]) \in 0 .. Len(files[n]) /\ files[n] \in Seq(LogPieces)
      BY <2>3
    <3> QED BY <3>1, BytesGrow
  <2> QED BY <1>1, <2>2, <2>3, <2>4 DEF Cut, PieceAt, LogCrash, pageVars
<1>3. CASE ~ UNCHANGED files
  <2>1. PICK keep \in [DOMAIN files -> 0 .. logged] :
          /\ \A n \in DOMAIN files : Survives(files[n], keep[n])
          /\ files' = [n \in DOMAIN files |-> SubSeq(files[n], 1, keep[n])]
    BY <1>3 DEF LogCrash
  <2>2. keep \in [DOMAIN files -> Nat]
    BY <1>1, <2>1
  <2>3. Cut
    BY <1>1, <2>1, <2>2, CutFiles DEF Cut
  <2> QED BY <2>3 DEF LogCrash, pageVars
<1> QED BY <1>2, <1>3

(* What a crash leaves is in order.                                         *)
LEMMA CrashOrder ==
    ASSUME TypedInOrder, LogCrash
    PROVE  TypedInOrder'
<1>0. LogTypeOK /\ SinglesOK /\ RankedNow /\ InOrder
  BY DEF TypedInOrder
<1>1. /\ Cut /\ alive' = FALSE /\ halfway' = [c \in Callers |-> {}]
      /\ recent' = <<>> /\ channel' = <<>> /\ worker' = {} /\ hook' = <<>> /\ post' = {}
      /\ UNCHANGED <<logEnv, logged, open, written, faults, received, cache, waiter, waits>>
  BY <1>0, CrashEffect
<1>2. /\ Pieces' \subseteq Pieces /\ \A p \in Pieces' : PieceAt(p)' = PieceAt(p)
      /\ files' \in Seq(Seq(LogPieces))
  BY <1>1 DEF Cut, PieceAt
<1>3. Filed' \subseteq Filed
  <2>1. Filed' = {PieceAt(p)'.ev : p \in Pieces'}
    BY DEF Filed
  <2> QED BY <1>2, <2>1 DEF Filed
<1>4. PiecesInOrder'
  <2>1. PiecesInOrder
    BY <1>0 DEF InOrder
  <2> QED BY <1>2, <2>1 DEF PiecesInOrder, Sooner
<1>5. /\ In(recent)' = {} /\ In(channel)' = {} /\ In(hook)' = {}
      /\ Ascending(recent)' /\ Ascending(channel)' /\ Ascending(hook)'
  <2>1. /\ DOMAIN (recent') = {} /\ DOMAIN (channel') = {} /\ DOMAIN (hook') = {}
    BY <1>1
  <2>2. /\ (DOMAIN recent)' = {} /\ (DOMAIN channel)' = {} /\ (DOMAIN hook)' = {}
    BY <2>1
  <2> QED BY <2>2 DEF In, Ascending
<1>6. /\ WithWorker' = {} /\ ToFile' = {} /\ Posted' = {} /\ In(received)' = In(received)
  BY <1>1 DEF WithWorker, ToFile, Posted, In
<1>7. Halfway' = {}
  <2>1. \A c \in Callers : halfway'[c] = {}
    BY <1>1
  <2>2. Halfway' = UNION {halfway'[c] : c \in Callers}
    BY DEF Halfway
  <2> QED BY <2>1, <2>2
<1>8. RankedNow'
  <2>1. Ranked(logged, Filed', {}, {}, {}, {}, In(received), {}, {}, {})
    BY <1>0, <1>3, RankedLess DEF RankedNow
  <2> QED BY <1>1, <1>5, <1>6, <1>7, <2>1 DEF RankedNow
<1>9. InOrder'
  BY <1>0, <1>1, <1>4, <1>5 DEF InOrder, ReceivedInOrder
<1>10. LogTypeOK'
  <2>1. /\ halfway' \in [Callers -> SUBSET CallEvents]
        /\ \A c \in Callers : \A e \in halfway'[c] : e.by = c
    BY <1>1
  <2>2. /\ recent' \in Seq(LogEvents) /\ hook' \in Seq(LogEvents)
        /\ channel' \in Seq(CallEvents \cup Messages)
    BY <1>1
  <2>3. files' \in Seq(Seq([ev : LogEvents, whole : BOOLEAN, safe : BOOLEAN]))
    BY <1>2 DEF LogPieces
  <2> QED BY <1>0, <1>1, <2>1, <2>2, <2>3 DEF LogTypeOK
<1>11. SinglesOK'
  BY <1>0, <1>1 DEF SinglesOK
<1> QED BY <1>8, <1>9, <1>10, <1>11 DEF TypedInOrder

-----------------------------------------------------------------------------
(* Lines posted again.                                                      *)

(* The part of RetriesOK that is not about order.                           *)
RepeatsOK ==
    /\ \A p \in post : \A i \in DOMAIN received : received[i] = p.ev =>
           Len(received) - i < p.attempt /\ received[Len(received)] = p.ev
    /\ \A i, j \in DOMAIN received : i < j /\ received[i] = received[j] =>
           j - i <= MaxRetries /\ received[j - 1] = received[i]

(* RetriesOK is RepeatsOK and the order of what was received.               *)
LEMMA RetriesSplit ==
    ASSUME TRUE
    PROVE  RetriesOK <=> RepeatsOK /\ ReceivedInOrder
BY DEF RetriesOK, RepeatsOK, ReceivedInOrder, HookKeepsOrder

(* Nothing received and nothing new to post: the repeats are what they were.*)
LEMMA RepeatsStay ==
    ASSUME RepeatsOK, UNCHANGED received, post' \subseteq post
    PROVE  RepeatsOK'
BY DEF RepeatsOK

(* The next event to be posted was not received before.                     *)
LEMMA NextRepeats ==
    ASSUME LogAssumption, TypedInOrder, RepeatsOK, HookNext
    PROVE  RepeatsOK'
<1>1. PICK q \in In(hook) : post' = {[ev |-> q, attempt |-> 0]}
  BY HookNextOrder
<1>2. UNCHANGED received
  BY DEF HookNext
<1>3. LogTypeOK /\ RankedNow
  BY DEF TypedInOrder
<1>4. \A i \in DOMAIN received : received[i] # q
  <2>1. \A e \in In(received) : e.by = q.by => e.id < q.id
    BY <1>1, <1>3 DEF RankedNow, Ranked, Ahead
  <2>2. q.id \in Nat
    BY <1>1, <1>3 DEF RankedNow, Ranked
  <2> QED BY <2>1, <2>2 DEF In
<1> QED BY <1>1, <1>2, <1>4 DEF RepeatsOK

(* A post repeats the event before it or none.                              *)
LEMMA PostRepeats ==
    ASSUME LogAssumption, TypedInOrder, RepeatsOK, NEW p, PostTried(p)
    PROVE  RepeatsOK'
<1>1. /\ post = {p} /\ p.ev \in LogEvents /\ p.attempt \in 0 .. MaxRetries
      /\ received' = received \/ received' = Append(received, p.ev)
      /\ \/ post' = {}
         \/ post' = {[ev |-> p.ev, attempt |-> p.attempt + 1]}
  BY DEF PostTried
<1>2. received \in Seq(LogEvents) /\ MaxRetries \in Nat
  BY LogAssumption DEF TypedInOrder, LogTypeOK, LogAssumption
<1> PICK a, n : a = p.attempt /\ n = Len(received)
  OBVIOUS
<1>3. n \in Nat /\ DOMAIN received = 1 .. n /\ a \in Nat /\ a <= MaxRetries
  BY <1>1, <1>2
<1>4. \A i \in 1 .. n : received[i] = p.ev => n - i < a /\ received[n] = p.ev
  BY <1>1, <1>3 DEF RepeatsOK
<1>5. \A v \in post' : v.ev = p.ev /\ v.attempt = a + 1
  BY <1>1
<1>6. CASE received' = received
  <2>1. \A i \in 1 .. n : received[i] = p.ev => n - i < a + 1 /\ received[n] = p.ev
    BY <1>3, <1>4
  <2> QED BY <1>3, <1>5, <1>6, <2>1 DEF RepeatsOK
<1>7. CASE received' = Append(received, p.ev)
  <2> PICK s : s = received'
    OBVIOUS
  <2>1. /\ DOMAIN s = 1 .. n + 1 /\ Len(s) = n + 1 /\ s[n + 1] = p.ev
        /\ \A k \in 1 .. n : s[k] = received[k]
    BY <1>2, <1>3, <1>7
  <2>2. \A i \in 1 .. n + 1 : s[i] = p.ev => (n + 1) - i < a + 1
    <3> SUFFICES ASSUME NEW i \in 1 .. n + 1, s[i] = p.ev
                 PROVE  (n + 1) - i < a + 1
      OBVIOUS
    <3>1. CASE i = n + 1
      BY <1>3, <3>1
    <3>2. CASE i # n + 1
      <4>1. i \in 1 .. n
        BY <1>3, <3>2
      <4>2. n - i < a
        BY <1>4, <2>1, <4>1
      <4> QED BY <1>3, <4>1, <4>2
    <3> QED BY <3>1, <3>2
  <2>3. ASSUME NEW i \in 1 .. n + 1, NEW j \in 1 .. n + 1, i < j, s[i] = s[j]
        PROVE  j - i <= MaxRetries /\ s[j - 1] = s[i]
    <3>1. i \in 1 .. n /\ j - 1 \in 1 .. n
      BY <1>3, <2>3
    <3>2. CASE j = n + 1
      <4>1. received[i] = p.ev /\ j - 1 = n
        BY <1>3, <2>1, <2>3, <3>1, <3>2
      <4>2. n - i < a /\ received[n] = p.ev
        BY <1>4, <3>1, <4>1
      <4>3. j - i <= MaxRetries
        BY <1>3, <3>1, <3>2, <4>2
      <4> QED BY <2>1, <3>1, <4>1, <4>2, <4>3
    <3>3. CASE j # n + 1
      <4>1. j \in 1 .. n /\ received[i] = received[j]
        BY <1>3, <2>1, <2>3, <3>1, <3>3
      <4>2. j - i <= MaxRetries /\ received[j - 1] = received[i]
        BY <1>3, <2>3, <3>1, <4>1 DEF RepeatsOK
      <4> QED BY <2>1, <3>1, <4>2
    <3> QED BY <3>2, <3>3
  <2>4. Len(s) - 0 = n + 1 /\ s[Len(s)] = p.ev
    BY <1>3, <2>1
  <2>5. \A v \in post' : \A i \in DOMAIN s : s[i] = v.ev =>
            Len(s) - i < v.attempt /\ s[Len(s)] = v.ev
    BY <1>5, <2>1, <2>2
  <2>6. \A i, j \in DOMAIN s : i < j /\ s[i] = s[j] =>
            j - i <= MaxRetries /\ s[j - 1] = s[i]
    BY <2>1, <2>3
  <2> QED BY <2>5, <2>6 DEF RepeatsOK
<1> QED BY <1>1, <1>6, <1>7

-----------------------------------------------------------------------------
(* What is on file.                                                         *)

(* The parts of WritesOK.                                                   *)
OnFile ==
    alive \/ logEnv.sync => \A id \in written : \E p \in Pieces :
        /\ PieceAt(p).whole /\ PieceAt(p).ev.id = id
        /\ logEnv.sync => PieceAt(p).safe
LastIsOpen == open # {} => files # <<>>
AllWhole == \A p \in Pieces : PieceAt(p).whole
OpenCounted == \A b \in open : b = Bytes(files[Len(files)])[Len(files[Len(files)])]
NoneTooLong ==
    \A n \in DOMAIN files : Len(files[n]) > 1 /\ logEnv.max > 0 =>
        Bytes(files[n])[Len(files[n])] <= logEnv.max

(* WritesOK, part by part.                                                  *)
LEMMA WritesSplit ==
    ASSUME TRUE
    PROVE  WritesOK <=> /\ OnFile /\ LastIsOpen
                        /\ faults = 0 => AllWhole /\ (alive => OpenCounted) /\ NoneTooLong
BY DEF WritesOK, OnFile, LastIsOpen, AllWhole, OpenCounted, NoneTooLong

(* The parts that speak of the files are kept while the files are.          *)
LEMMA OnFileStays ==
    ASSUME UNCHANGED <<logEnv, open, written, alive>>, UNCHANGED files
    PROVE  /\ OnFile => OnFile'
           /\ LastIsOpen => LastIsOpen'
           /\ AllWhole => AllWhole'
           /\ OpenCounted => OpenCounted'
           /\ NoneTooLong => NoneTooLong'
<1>1. Pieces' = Pieces /\ \A p : PieceAt(p)' = PieceAt(p)
  BY FilesStay
<1>2. OnFile => OnFile'
  BY <1>1 DEF OnFile
<1>3. LastIsOpen => LastIsOpen'
  BY DEF LastIsOpen
<1>4. AllWhole => AllWhole'
  BY <1>1 DEF AllWhole
<1>5. OpenCounted => OpenCounted'
  BY DEF OpenCounted, Bytes, EventSize
<1>6. NoneTooLong => NoneTooLong'
  BY DEF NoneTooLong, Bytes, EventSize
<1> QED BY <1>2, <1>3, <1>4, <1>5, <1>6

(* WritesOK is kept while the files are.                                    *)
LEMMA WritesStay ==
    ASSUME WritesOK, UNCHANGED <<logEnv, open, written, alive, faults>>, UNCHANGED files
    PROVE  WritesOK'
<1>1. (WritesOK <=> /\ OnFile /\ LastIsOpen
                    /\ faults = 0 => AllWhole /\ (alive => OpenCounted) /\ NoneTooLong)'
  BY WritesSplit, PTL
<1> QED BY <1>1, WritesSplit, OnFileStays

(* One piece more is whole, safe, counted and under the limit as promised.  *)
LEMMA FileWriteKeeps ==
    ASSUME LogAssumption, LogTypeOK, SinglesOK, WritesOK, alive, NEW e \in LogEvents,
           NEW fresh, NEW p, FileWrite(e, fresh, p), UNCHANGED <<logEnv, alive>>
    PROVE  WritesOK'
<1>0. /\ OnFile /\ LastIsOpen
      /\ faults = 0 => AllWhole /\ OpenCounted /\ NoneTooLong
  BY WritesSplit
<1>1. /\ p \in LogPieces /\ p.ev = e /\ fresh \in BOOLEAN
      /\ files' = AppendPiece(IF fresh THEN Append(files, <<>>) ELSE files, p)
      /\ ~ fresh => open # {}
      /\ ~ fresh => (logEnv.max > 0 => \A b \in open : ~ (b + EventSize(e) > logEnv.max))
      /\ \/ /\ p.whole /\ (logEnv.sync => p.safe) /\ written' = written \cup {e.id}
            /\ faults' = faults
            /\ open' = {EventSize(e) + (IF fresh THEN 0 ELSE CHOOSE b \in open : TRUE)}
         \/ faults' = faults + 1 /\ written' = written
  BY DEF FileWrite
<1>2. files \in Seq(Seq(LogPieces)) /\ faults \in Nat /\ open \subseteq Nat /\ logEnv.max \in Nat
  BY DEF LogTypeOK, LogPieces
<1>3. ~ fresh => files # <<>>
  BY <1>0, <1>1 DEF LastIsOpen
<1> PICK b0 : b0 = Bytes(files[Len(files)])[Len(files[Len(files)])]
  OBVIOUS
<1> PICK b1 : b1 = Bytes(files'[Len(files')])[Len(files'[Len(files')])]
  OBVIOUS
<1>4. /\ \E top : Grown(top, p)
      /\ files' # <<>> /\ Len(files') \in 1 .. Len(files')
      /\ b1 = EventSize(e) + (IF fresh THEN 0 ELSE b0)
      /\ fresh => Len(files'[Len(files')]) = 1
      /\ \A n \in 1 .. Len(files') - 1 : n \in 1 .. Len(files) /\ files'[n] = files[n]
  BY <1>1, <1>2, <1>3, WriteGrows
<1>5. PICK top : Grown(top, p)
  BY <1>4
<1>6. /\ Pieces' = Pieces \cup {top} /\ PieceAt(top)' = p
      /\ \A q \in Pieces : /\ PieceAt(q)'.ev = PieceAt(q).ev
                           /\ PieceAt(q)'.whole = PieceAt(q).whole
                           /\ PieceAt(q).safe => PieceAt(q)'.safe
      /\ files' \in Seq(Seq(LogPieces))
  BY <1>5 DEF Grown, PieceAt
<1>7. OnFile'
  <2> SUFFICES ASSUME NEW id \in written'
               PROVE  \E q \in Pieces' : /\ PieceAt(q)'.whole /\ PieceAt(q)'.ev.id = id
                                         /\ logEnv.sync => PieceAt(q)'.safe
    BY DEF OnFile
  <2>1. CASE id \in written
    <3>1. PICK q \in Pieces : /\ PieceAt(q).whole /\ PieceAt(q).ev.id = id
                              /\ logEnv.sync => PieceAt(q).safe
      BY <1>0, <2>1 DEF OnFile
    <3> QED BY <1>6, <3>1
  <2>2. CASE id \notin written
    <3>1. p.whole /\ (logEnv.sync => p.safe) /\ id = e.id
      BY <1>1, <2>2
    <3> QED BY <1>1, <1>6, <3>1
  <2> QED BY <2>1, <2>2
<1>8. LastIsOpen'
  BY <1>4 DEF LastIsOpen
<1>9. ASSUME faults' = 0
      PROVE  AllWhole' /\ OpenCounted' /\ NoneTooLong'
  <2>1. /\ faults = 0 /\ p.whole
        /\ open' = {EventSize(e) + (IF fresh THEN 0 ELSE CHOOSE b \in open : TRUE)}
    <3>1. ~ (faults' = faults + 1)
      BY <1>2, <1>9
    <3> QED BY ONLY <1>1, <1>9, <3>1, Zenon
  <2>2. AllWhole /\ OpenCounted /\ NoneTooLong
    BY <1>0, <2>1
  <2>3. AllWhole'
    BY <1>6, <2>1, <2>2 DEF AllWhole
  <2>4. ~ fresh => (CHOOSE b \in open : TRUE) = b0 /\ b0 \in open
    BY <1>1, <2>2 DEF OpenCounted
  <2>5. open' = {b1}
    BY <1>1, <1>4, <2>1, <2>4
  <2>6. OpenCounted'
    <3>1. OpenCounted' <=> \A b \in open' :
              b = Bytes(files'[Len(files')])[Len(files'[Len(files')])]
      BY DEF OpenCounted, Bytes, EventSize
    <3> QED BY <2>5, <3>1
  <2>7. ASSUME NEW n \in 1 .. Len(files'), Len(files'[n]) > 1, logEnv.max > 0
        PROVE  Bytes(files'[n])[Len(files'[n])] <= logEnv.max
    <3>1. CASE n = Len(files')
      <4>1. ~ fresh
        <5>1. fresh => Len(files'[n]) = 1
          BY <1>4, <3>1, Zenon
        <5> PICK k : k = Len(files'[n])
          OBVIOUS
        <5>2. k > 1 /\ k \in Nat
          <6>1. files'[n] \in Seq(LogPieces)
            BY <1>6, <2>7
          <6>2. Len(files'[n]) \in Nat
            BY ONLY <6>1
          <6> QED BY <2>7, <6>2
        <5>3. k # 1
          BY ONLY <5>2
        <5> QED BY <5>1, <5>3
      <4>2. b1 = EventSize(e) + b0 /\ b0 \in open
        BY <1>4, <2>4, <4>1
      <4>3. ~ (b0 + EventSize(e) > logEnv.max)
        BY <1>1, <2>7, <4>1, <4>2
      <4>4. EventSize(e) \in Nat /\ b0 \in Nat
        BY <1>2, <4>2, SizesCount
      <4>5. b1 <= logEnv.max
        BY <1>2, <4>2, <4>3, <4>4
      <4> QED BY <3>1, <4>5
    <3>2. CASE n # Len(files')
      <4>1. n \in 1 .. Len(files') - 1
        BY <1>4, <3>2
      <4>2. n \in DOMAIN files /\ files'[n] = files[n]
        BY <1>2, <1>4, <4>1
      <4> QED BY <2>2, <2>7, <4>2 DEF NoneTooLong
    <3> QED BY <3>1, <3>2
  <2>8. NoneTooLong'
    <3>1. DOMAIN (files') = 1 .. Len(files')
      BY <1>6
    <3>2. NoneTooLong' <=> \A n \in DOMAIN (files') : Len(files'[n]) > 1 /\ logEnv'.max > 0 =>
                               Bytes(files'[n])[Len(files'[n])] <= logEnv'.max
      BY DEF NoneTooLong, Bytes, EventSize
    <3> QED BY <2>7, <3>1, <3>2
  <2> QED BY <2>3, <2>6, <2>8
<1>10. (WritesOK <=> /\ OnFile /\ LastIsOpen
                     /\ faults = 0 => AllWhole /\ (alive => OpenCounted) /\ NoneTooLong)'
  BY WritesSplit, PTL
<1> QED BY <1>7, <1>8, <1>9, <1>10

(* A write of the worker, failed or not, keeps WritesOK.                    *)
LEMMA WriteWrites ==
    ASSUME LogAssumption, LogTypeOK, SinglesOK, WritesOK, NEW w, Wrote(w)
    PROVE  WritesOK'
<1>1. /\ alive /\ w.ev \in LogEvents /\ UNCHANGED <<logEnv, alive>>
      /\ \/ FileUntouched /\ faults' = faults
         \/ FileUntouched /\ faults' = faults + 1
         \/ \E fresh, p : FileWrite(w.ev, fresh, p)
  BY DEF Wrote
<1>2. CASE FileUntouched /\ faults' = faults
  BY <1>1, <1>2, WritesStay DEF FileUntouched
<1>3. CASE FileUntouched /\ faults' = faults + 1
  <2>1. UNCHANGED <<logEnv, open, written, alive>> /\ UNCHANGED files
    BY <1>1, <1>3 DEF FileUntouched
  <2>2. OnFile' /\ LastIsOpen'
    BY <2>1, OnFileStays, WritesSplit
  <2>3. faults' # 0
    BY <1>3 DEF LogTypeOK
  <2>4. (WritesOK <=> /\ OnFile /\ LastIsOpen
                      /\ faults = 0 => AllWhole /\ (alive => OpenCounted) /\ NoneTooLong)'
    BY WritesSplit, PTL
  <2> QED BY <2>2, <2>3, <2>4
<1>4. ASSUME NEW fresh, NEW p, FileWrite(w.ev, fresh, p) PROVE WritesOK'
  BY <1>1, <1>4, FileWriteKeeps
<1> QED BY <1>1, <1>2, <1>3, <1>4

(* What a crash leaves holds whatever was synced.                           *)
LEMMA CrashWrites ==
    ASSUME LogTypeOK, WritesOK, LogCrash
    PROVE  WritesOK' /\ ((~ logEnv.file => files = <<>>) => (~ logEnv.file => files = <<>>)')
<1>1. Cut /\ alive' = FALSE /\ UNCHANGED <<logEnv, open, written, faults>>
  BY CrashEffect
<1>2. files \in Seq(Seq(LogPieces)) /\ logEnv.max \in Nat
  BY DEF LogTypeOK, LogPieces
<1>3. /\ files' \in Seq(Seq(LogPieces)) /\ Len(files') = Len(files) /\ Pieces' \subseteq Pieces
      /\ \A p \in Pieces' : PieceAt(p)' = PieceAt(p)
      /\ \A p \in Pieces : PieceAt(p).safe => p \in Pieces'
  BY <1>1 DEF Cut, PieceAt
<1>4. OnFile'
  <2> SUFFICES ASSUME logEnv.sync, NEW id \in written
               PROVE  \E q \in Pieces' : /\ PieceAt(q)'.whole /\ PieceAt(q)'.ev.id = id
                                         /\ PieceAt(q)'.safe
    BY <1>1 DEF OnFile
  <2>1. PICK q \in Pieces : PieceAt(q).whole /\ PieceAt(q).ev.id = id /\ PieceAt(q).safe
    BY WritesSplit DEF OnFile
  <2> QED BY <1>3, <2>1
<1>5. files = <<>> <=> files' = <<>>
  BY <1>2, <1>3
<1>6. LastIsOpen'
  BY <1>1, <1>5, WritesSplit DEF LastIsOpen
<1>7. ASSUME faults = 0
      PROVE  AllWhole' /\ NoneTooLong'
  <2>1. AllWhole /\ NoneTooLong
    BY <1>7, WritesSplit
  <2>2. AllWhole'
    BY <1>3, <2>1 DEF AllWhole
  <2>3. ASSUME NEW n \in 1 .. Len(files), Len(files'[n]) > 1, logEnv.max > 0
        PROVE  Bytes(files'[n])[Len(files'[n])] <= logEnv.max
    <3> PICK f, g : f = files[n] /\ g = files'[n]
      OBVIOUS
    <3>1. /\ Len(g) \in Nat /\ Len(g) <= Len(f)
          /\ Bytes(g)[Len(g)] <= Bytes(f)[Len(f)]
          /\ f \in Seq(LogPieces) /\ g \in Seq(LogPieces) /\ n \in DOMAIN files
      BY <1>1, <1>2, <1>3 DEF Cut
    <3>2. Len(f) > 1 /\ Len(f) \in 0 .. Len(f) /\ Len(g) \in 0 .. Len(g)
      BY <2>3, <3>1
    <3>3. Bytes(f)[Len(f)] <= logEnv.max
      BY <2>1, <2>3, <3>1, <3>2 DEF NoneTooLong
    <3>4. Bytes(f)[Len(f)] \in Nat /\ Bytes(g)[Len(g)] \in Nat
      BY ONLY <3>1, <3>2, BytesGrow
    <3>5. Bytes(g)[Len(g)] <= logEnv.max
      BY ONLY <1>2, <3>1, <3>3, <3>4
    <3> QED BY <3>5
  <2>4. DOMAIN (files') = 1 .. Len(files)
    BY <1>3
  <2>5. NoneTooLong' <=> \A n \in DOMAIN (files') : Len(files'[n]) > 1 /\ logEnv'.max > 0 =>
                             Bytes(files'[n])[Len(files'[n])] <= logEnv'.max
    BY DEF NoneTooLong, Bytes, EventSize
  <2>6. NoneTooLong'
    BY <1>1, <2>3, <2>4, <2>5
  <2> QED BY <2>2, <2>6
<1>8. (WritesOK <=> /\ OnFile /\ LastIsOpen
                    /\ faults = 0 => AllWhole /\ (alive => OpenCounted) /\ NoneTooLong)'
  BY WritesSplit, PTL
<1>9. WritesOK'
  BY <1>1, <1>4, <1>6, <1>7, <1>8
<1> QED BY <1>1, <1>5, <1>9

-----------------------------------------------------------------------------
(* The chain of updates.                                                    *)

(* Continues, for a channel and what is reached before it.                  *)
Cont(ch, r, x, k) ==
    \/ x = {}
    \/ \E j \in 1 .. (k - 1) :
          /\ ch[j].kind = "update" /\ x = {ch[j].cur}
          /\ \A i \in (j + 1) .. (k - 1) : ch[i].kind # "update"
    \/ x = r /\ \A i \in 1 .. (k - 1) : ch[i].kind # "update"

(* Every update in a channel ch continues what is ahead of it.              *)
QueueCont(ch, r) == \A k \in DOMAIN ch : ch[k].kind = "update" => Cont(ch, r, ch[k].prev, k)

Replayable == \A p \in Updates : Applies(p)
HandFits == \A e \in InHand : e.kind = "patch" => e.from = Reached /\ e.from # {}

(* The parts of ChainOK.                                                    *)
Chained ==
    /\ Replayable /\ HandFits /\ QueueCont(channel, ReachedNext)
    /\ Cont(channel, ReachedNext, cache, Len(channel) + 1)

(* ChainOK is Chained wherever anything is promised.                        *)
LEMMA ChainSplit ==
    ASSUME TRUE
    PROVE  ChainOK <=> (faults = 0 /\ ~ waits /\ alive /\ logEnv.file => Chained)
<1>1. \A x, k : Continues(x, k) <=> Cont(channel, ReachedNext, x, k)
  BY DEF Continues, Cont
<1> QED BY <1>1 DEF ChainOK, Chained, Replayable, HandFits, QueueCont

(* What continues a channel ch of n messages continues ch2, which has m     *)
(* behind them.                                                             *)
LongerBy(ch, n, m, ch2, r) ==
    /\ \A k \in 1 .. n + 1 : \A x : Cont(ch, r, x, k) => Cont(ch2, r, x, k)
    /\ m.kind # "update" => \A x : Cont(ch, r, x, n + 1) => Cont(ch2, r, x, Len(ch2) + 1)
    /\ m.kind = "update" => Cont(ch2, r, {m.cur}, Len(ch2) + 1)

(* Behind a channel one message more.                                       *)
LEMMA ContLonger ==
    ASSUME NEW S, NEW ch \in Seq(S), NEW m \in S, NEW r, NEW ch2, ch2 = Append(ch, m)
    PROVE  LongerBy(ch, Len(ch), m, ch2, r)
<1> PICK n : n = Len(ch)
  OBVIOUS
<1>1. /\ n \in Nat /\ Len(ch2) = n + 1 /\ ch2[n + 1] = m
      /\ \A k \in 1 .. n : ch2[k] = ch[k]
  OBVIOUS
<1>2. ASSUME NEW k \in 1 .. n + 1, NEW x, Cont(ch, r, x, k)
      PROVE  Cont(ch2, r, x, k)
  <2>1. \A i \in 1 .. (k - 1) : ch2[i] = ch[i]
    BY <1>1, <1>2
  <2>2. \A j \in 1 .. (k - 1) : \A i \in (j + 1) .. (k - 1) : i \in 1 .. (k - 1)
    BY <1>1, <1>2
  <2> QED BY <1>2, <2>1, <2>2 DEF Cont
<1>3. ASSUME m.kind # "update", NEW x, Cont(ch, r, x, n + 1)
      PROVE  Cont(ch2, r, x, n + 2)
  <2>1. (n + 1) - 1 = n /\ (n + 2) - 1 = n + 1
    BY <1>1
  <2>2. CASE x = {}
    BY <2>2 DEF Cont
  <2>3. CASE x = r /\ \A i \in 1 .. n : ch[i].kind # "update"
    <3>1. \A i \in 1 .. n + 1 : i \in 1 .. n \/ i = n + 1
      BY <1>1
    <3>2. \A i \in 1 .. n + 1 : ch2[i].kind # "update"
      BY <1>1, <1>3, <2>3, <3>1
    <3> QED BY <2>1, <2>3, <3>2 DEF Cont
  <2>4. ASSUME NEW j \in 1 .. n, ch[j].kind = "update", x = {ch[j].cur},
               \A i \in (j + 1) .. n : ch[i].kind # "update"
        PROVE  Cont(ch2, r, x, n + 2)
    <3>1. j \in 1 .. n + 1
      BY <1>1
    <3>2. \A i \in (j + 1) .. (n + 1) : i = n + 1 \/ (i \in (j + 1) .. n /\ i \in 1 .. n)
      BY <1>1
    <3>3. \A i \in (j + 1) .. (n + 1) : ch2[i].kind # "update"
      BY <1>1, <1>3, <2>4, <3>2
    <3>4. ch2[j] = ch[j]
      BY <1>1
    <3> QED BY <2>1, <2>4, <3>1, <3>3, <3>4 DEF Cont
  <2> QED BY <1>3, <2>1, <2>2, <2>3, <2>4 DEF Cont
<1>4. ASSUME m.kind = "update"
      PROVE  Cont(ch2, r, {m.cur}, n + 2)
  <2>1. (n + 2) - 1 = n + 1 /\ n + 1 \in 1 .. n + 1 /\ ((n + 1) + 1) .. (n + 1) = {}
    BY <1>1
  <2> QED BY <1>1, <1>4, <2>1 DEF Cont
<1>5. Len(ch2) + 1 = n + 2
  BY <1>1
<1> QED BY <1>2, <1>3, <1>4, <1>5 DEF LongerBy

(* Behind the first message of a channel, taken.                            *)
LEMMA ContShorter ==
    ASSUME NEW S, NEW ch \in Seq(S), ch # <<>>, NEW r, NEW ch2, ch2 = Tail(ch), NEW r2,
           \/ ch[1].kind # "update" /\ r2 = r
           \/ ch[1].kind = "update" /\ r2 = {ch[1].cur}
    PROVE  \A k \in 1 .. Len(ch) : \A x : Cont(ch, r, x, k + 1) => Cont(ch2, r2, x, k)
<1> PICK n : n = Len(ch)
  OBVIOUS
<1>1. n \in Nat \ {0} /\ \A k \in 1 .. n - 1 : ch2[k] = ch[k + 1]
  OBVIOUS
<1> SUFFICES ASSUME NEW k \in 1 .. n, NEW x, Cont(ch, r, x, k + 1)
             PROVE  Cont(ch2, r2, x, k)
  OBVIOUS
<1>2. (k + 1) - 1 = k /\ k \in Nat /\ k - 1 \in Nat
  BY <1>1
<1>3. \A i \in 1 .. (k - 1) : ch2[i] = ch[i + 1] /\ i + 1 \in 1 .. k
  BY <1>1
<1>4. CASE x = {}
  BY <1>4 DEF Cont
<1>5. CASE x = r /\ \A i \in 1 .. k : ch[i].kind # "update"
  <2>1. r2 = r
    BY <1>2, <1>5
  <2> QED BY <1>3, <1>5, <2>1 DEF Cont
<1>6. ASSUME NEW j \in 1 .. k, ch[j].kind = "update", x = {ch[j].cur},
             \A i \in (j + 1) .. k : ch[i].kind # "update"
      PROVE  Cont(ch2, r2, x, k)
  <2>1. CASE j = 1
    <3>1. x = r2
      BY <1>6, <2>1
    <3>2. \A i \in 1 .. (k - 1) : i + 1 \in (j + 1) .. k
      BY <1>2, <2>1
    <3> QED BY <1>3, <1>6, <3>1, <3>2 DEF Cont
  <2>2. CASE j # 1
    <3>1. j - 1 \in 1 .. (k - 1) /\ (j - 1) + 1 = j
      BY <1>2, <2>2
    <3>2. ch2[j - 1] = ch[j]
      BY <1>3, <3>1
    <3>3. \A i \in ((j - 1) + 1) .. (k - 1) : i \in 1 .. (k - 1) /\ i + 1 \in (j + 1) .. k
      BY <1>2, <3>1
    <3>4. \A i \in ((j - 1) + 1) .. (k - 1) : ch2[i].kind # "update"
      BY <1>3, <1>6, <3>3
    <3> QED BY <1>6, <3>1, <3>2, <3>4 DEF Cont
  <2> QED BY <2>1, <2>2
<1> QED BY <1>2, <1>4, <1>5, <1>6 DEF Cont

(* Steps that leave the files, what the worker has in hand and the channel. *)
LEMMA ChainStays ==
    ASSUME Chained, UNCHANGED files, InHand' = InHand, channel' = channel,
           cache' = cache \/ cache' = {}
    PROVE  Chained'
<1>1. /\ Updates' = Updates /\ Reached' = Reached
      /\ \A p : Applies(p)' <=> Applies(p)
  BY FilesStay
<1>2. ReachedNext' = ReachedNext
  BY <1>1 DEF ReachedNext
<1>3. Replayable' /\ HandFits'
  BY <1>1 DEF Chained, Replayable, HandFits
<1>4. QueueCont(channel', ReachedNext')
  BY <1>2 DEF Chained
<1>5. Cont(channel', ReachedNext', cache', Len(channel') + 1)
  BY <1>2 DEF Chained, Cont
<1>6. /\ QueueCont(channel, ReachedNext)' <=> QueueCont(channel', ReachedNext')
      /\ Cont(channel, ReachedNext, cache, Len(channel) + 1)' <=>
             Cont(channel', ReachedNext', cache', Len(channel') + 1)
  BY DEF QueueCont, Cont
<1> QED BY <1>3, <1>4, <1>5, <1>6 DEF Chained

(* The channel gets a call, or an update that continues the chain.          *)
LEMMA ChainGrows ==
    ASSUME Chained, UNCHANGED files, UNCHANGED worker, NEW S, channel \in Seq(S), NEW m \in S,
           channel' = Append(channel, m),
           \/ m.kind # "update" /\ cache' = cache
           \/ m.kind = "update" /\ (m.prev = {} \/ m.prev = cache) /\ cache' = {m.cur}
    PROVE  Chained'
<1>1. /\ Updates' = Updates /\ Reached' = Reached
      /\ \A p : Applies(p)' <=> Applies(p)
  BY FilesStay
<1>2. InHand' = InHand
  BY DEF InHand
<1>3. ReachedNext' = ReachedNext
  BY <1>1, <1>2 DEF ReachedNext
<1>4. Replayable' /\ HandFits'
  BY <1>1, <1>2 DEF Chained, Replayable, HandFits
<1> PICK ch, ch2, r, n : ch = channel /\ ch2 = channel' /\ r = ReachedNext /\ n = Len(channel)
  OBVIOUS
<1>5. /\ n \in Nat /\ DOMAIN ch = 1 .. n /\ DOMAIN ch2 = 1 .. n + 1 /\ ch2[n + 1] = m
      /\ Len(ch2) = n + 1
      /\ \A k \in 1 .. n : ch2[k] = ch[k]
  OBVIOUS
<1>6. /\ \A k \in 1 .. n + 1 : \A x : Cont(ch, r, x, k) => Cont(ch2, r, x, k)
      /\ m.kind # "update" =>
            \A x : Cont(ch, r, x, n + 1) => Cont(ch2, r, x, Len(ch2) + 1)
      /\ m.kind = "update" => Cont(ch2, r, {m.cur}, Len(ch2) + 1)
  <2>1. ch \in Seq(S) /\ ch2 = Append(ch, m) /\ n = Len(ch)
    OBVIOUS
  <2>2. LongerBy(ch, Len(ch), m, ch2, r)
    BY ONLY m \in S, <2>1, ContLonger
  <2>3. LongerBy(ch, n, m, ch2, r)
    BY ONLY <2>1, <2>2
  <2> QED BY ONLY <2>3 DEF LongerBy
<1>7. QueueCont(ch, r) /\ Cont(ch, r, cache, n + 1)
  BY DEF Chained
<1>8. Cont(ch2, r, cache', Len(ch2) + 1)
  BY <1>6, <1>7
<1>9. QueueCont(ch2, r)
  <2> SUFFICES ASSUME NEW k \in 1 .. n + 1, ch2[k].kind = "update"
               PROVE  Cont(ch2, r, ch2[k].prev, k)
    BY <1>5 DEF QueueCont
  <2>1. CASE k = n + 1
    <3>1. m.kind = "update" /\ (m.prev = {} \/ m.prev = cache)
      BY <1>5, <2>1
    <3>2. Cont(ch, r, m.prev, n + 1)
      BY <1>7, <3>1 DEF Cont
    <3> QED BY <1>5, <1>6, <2>1, <3>2
  <2>2. CASE k # n + 1
    <3>1. k \in 1 .. n
      BY <1>5, <2>2
    <3> QED BY <1>5, <1>6, <1>7, <3>1 DEF QueueCont
  <2> QED BY <2>1, <2>2
<1>10. /\ QueueCont(channel, ReachedNext)' <=> QueueCont(channel', ReachedNext')
       /\ Cont(channel, ReachedNext, cache, Len(channel) + 1)' <=>
              Cont(channel', ReachedNext', cache', Len(channel') + 1)
  BY DEF QueueCont, Cont
<1> QED BY <1>3, <1>4, <1>8, <1>9, <1>10 DEF Chained

(* The worker takes the next message.                                       *)
LEMMA ChainTakes ==
    ASSUME Chained, LogTypeOK, NEW m, NEW E, Taken(m, E)
    PROVE  Chained'
<1>1. /\ worker = {} /\ channel # <<>> /\ m = Head(channel) /\ channel' = Tail(channel)
      /\ (\A e, f \in E : e = f)
      /\ worker' = {[ev |-> e, to |-> "file"] : e \in E}
      /\ cache' = cache /\ UNCHANGED files
  BY DEF Taken
<1>2. \/ m.kind = "call" /\ E = {m}
      \/ m.kind = "update" /\ m.prev = {m.cur} /\ E = {}
      \/ /\ m.kind = "update" /\ E # {}
         /\ \A e \in E : /\ e.from = m.prev /\ e.to = m.cur /\ e.kind # "call"
                         /\ e.kind = "patch" => m.prev # {}
  BY DEF Taken
<1> PICK S : S = CallEvents \cup Messages
  OBVIOUS
<1> PICK ch, ch2, r, n : ch = channel /\ ch2 = channel' /\ r = Reached /\ n = Len(channel)
  OBVIOUS
<1>3. /\ ch \in Seq(S) /\ ch # <<>> /\ ch2 = Tail(ch) /\ m = ch[1]
      /\ n \in Nat \ {0} /\ DOMAIN ch = 1 .. n /\ DOMAIN ch2 = 1 .. n - 1 /\ Len(ch2) = n - 1
      /\ \A k \in 1 .. n - 1 : ch2[k] = ch[k + 1]
  BY <1>1 DEF LogTypeOK
<1>4. Updates' = Updates /\ Reached' = r /\ (\A p : Applies(p)' <=> Applies(p))
  BY <1>1, FilesStay
<1>5. InHand = {} /\ ReachedNext = r
  BY <1>1 DEF InHand, ReachedNext
<1>6. InHand' = {e \in E : e.kind # "call"}
  <2>1. InHand' = {w.ev : w \in {v \in worker' : v.to = "file" /\ v.ev.kind # "call"}}
    BY DEF InHand
  <2>2. \A x : x \in {w.ev : w \in {v \in {[ev |-> e, to |-> "file"] : e \in E} :
                                    v.to = "file" /\ v.ev.kind # "call"}}
               => x \in E /\ x.kind # "call"
    OBVIOUS
  <2>3. ASSUME NEW x \in E, x.kind # "call"
        PROVE  x \in {w.ev : w \in {v \in {[ev |-> e, to |-> "file"] : e \in E} :
                                    v.to = "file" /\ v.ev.kind # "call"}}
    <3> PICK w : w = [ev |-> x, to |-> "file"]
      OBVIOUS
    <3>1. w \in {[ev |-> e, to |-> "file"] : e \in E} /\ w.to = "file" /\ w.ev = x
      OBVIOUS
    <3> QED BY <2>3, <3>1
  <2> QED BY <1>1, <2>1, <2>2, <2>3
<1>7. /\ Replayable /\ QueueCont(ch, r) /\ Cont(ch, r, cache, n + 1)
  BY <1>5 DEF Chained
<1>8. m.kind = "update" => m.prev = {} \/ m.prev = r
  <2>1. m.kind = "update" => Cont(ch, r, m.prev, 1)
    BY <1>3, <1>7 DEF QueueCont
  <2>2. 1 .. (1 - 1) = {}
    OBVIOUS
  <2> QED BY <2>1, <2>2 DEF Cont
<1> PICK r2 : r2 = IF InHand' = {} THEN r ELSE {e.to : e \in InHand'}
  OBVIOUS
<1>9. ReachedNext' = r2
  BY <1>4 DEF ReachedNext
<1>10. \/ ch[1].kind # "update" /\ r2 = r
       \/ ch[1].kind = "update" /\ r2 = {ch[1].cur}
  <2>1. CASE m.kind = "call" /\ E = {m}
    <3>1. InHand' = {}
      BY <1>6, <2>1
    <3> QED BY <1>3, <2>1, <3>1
  <2>2. CASE m.kind = "update" /\ m.prev = {m.cur} /\ E = {}
    <3>1. InHand' = {} /\ m.prev = r
      BY <1>6, <1>8, <2>2
    <3> QED BY <1>3, <2>2, <3>1
  <2>3. CASE /\ m.kind = "update" /\ E # {}
             /\ \A e \in E : e.from = m.prev /\ e.to = m.cur /\ e.kind # "call"
    <3>1. InHand' = E
      BY <1>6, <2>3
    <3>2. {e.to : e \in E} = {m.cur}
      BY <2>3
    <3> QED BY <1>3, <2>3, <3>1, <3>2
  <2> QED BY <1>2, <2>1, <2>2, <2>3
<1>11. \A k \in 1 .. n : \A x : Cont(ch, r, x, k + 1) => Cont(ch2, r2, x, k)
  BY <1>3, <1>10, ContShorter
<1>12. QueueCont(ch2, r2)
  <2> SUFFICES ASSUME NEW k \in 1 .. n - 1, ch2[k].kind = "update"
               PROVE  Cont(ch2, r2, ch2[k].prev, k)
    BY <1>3 DEF QueueCont
  <2>1. k \in 1 .. n /\ k + 1 \in 1 .. n /\ ch2[k] = ch[k + 1]
    BY <1>3
  <2>2. Cont(ch, r, ch2[k].prev, k + 1)
    BY <1>3, <1>7, <2>1 DEF QueueCont
  <2> QED BY <1>11, <2>1, <2>2
<1>13. Cont(ch2, r2, cache', Len(ch2) + 1)
  <2>1. n \in 1 .. n /\ Len(ch2) + 1 = n
    BY <1>3
  <2>2. Cont(ch, r, cache', n + 1)
    BY <1>1, <1>7
  <2> QED BY <1>11, <2>1, <2>2
<1>14. Replayable'
  BY <1>4, <1>7 DEF Replayable
<1>15. HandFits'
  <2>1. ASSUME NEW e \in InHand', e.kind = "patch"
        PROVE  e.from = r /\ e.from # {}
    <3>1. e \in E /\ e.kind # "call"
      BY <1>6
    <3>2. m.kind = "update" /\ e.from = m.prev /\ m.prev # {}
      BY <1>2, <2>1, <3>1
    <3> QED BY <1>8, <3>2
  <2> QED BY <1>4, <2>1 DEF HandFits
<1>16. /\ QueueCont(channel, ReachedNext)' <=> QueueCont(channel', ReachedNext')
       /\ Cont(channel, ReachedNext, cache, Len(channel) + 1)' <=>
              Cont(channel', ReachedNext', cache', Len(channel') + 1)
  BY DEF QueueCont, Cont
<1> QED BY <1>9, <1>12, <1>13, <1>14, <1>15, <1>16 DEF Chained

(* The worker writes what it has in hand.                                   *)
LEMMA ChainWrites ==
    ASSUME Chained, LogTypeOK, SinglesOK, NEW w, w \in worker, w.to = "file",
           worker' = {[ev |-> w.ev, to |-> "hook"]}, UNCHANGED <<channel, cache>>,
           NEW top, NEW p, p.ev = w.ev, Grown(top, p)
    PROVE  Chained'
<1>1. /\ Pieces' = Pieces \cup {top} /\ top \notin Pieces /\ PieceAt(top)'.ev = w.ev
      /\ \A q \in Pieces : Sooner(q, top) /\ ~ Sooner(top, q) /\ PieceAt(q)'.ev = PieceAt(q).ev
      /\ ~ Sooner(top, top)
  BY DEF Grown, PieceAt
<1>2. worker = {w}
  BY DEF SinglesOK
<1>3. InHand = IF w.ev.kind = "call" THEN {} ELSE {w.ev}
  BY <1>2 DEF InHand
<1>4. InHand' = {}
  <2>1. InHand' = {v.ev : v \in {u \in worker' : u.to = "file" /\ u.ev.kind # "call"}}
    BY DEF InHand
  <2>2. \A u \in worker' : u.to # "file"
    OBVIOUS
  <2> QED BY <2>1, <2>2
<1>5. Updates' = {q \in Pieces' : PieceAt(q)'.ev.kind # "call"} /\ Updates \subseteq Pieces
  BY DEF Updates
<1>6. Reached' = {PieceAt(q)'.ev.to : q \in {u \in Updates' : \A v \in Updates' : v = u \/ Sooner(v, u)}}
  BY DEF Reached, Sooner
<1>7. \A q : Applies(q)' <=>
          (PieceAt(q)'.ev.kind = "patch" =>
              \E u \in Updates' : /\ Sooner(u, q)
                                  /\ \A v \in Updates' : Sooner(v, q) => v = u \/ Sooner(v, u)
                                  /\ PieceAt(q)'.ev.from = {PieceAt(u)'.ev.to})
  BY DEF Applies, LastBefore, Sooner
<1>8. \A q \in Updates : Applies(q)
  BY DEF Chained, Replayable
<1>9. CASE w.ev.kind = "call"
  <2>1. Updates' = Updates
    BY <1>1, <1>5, <1>9 DEF Updates
  <2>2. \A q \in Updates : PieceAt(q)'.ev = PieceAt(q).ev
    BY <1>1, <1>5
  <2>3. Reached' = Reached
    BY <1>6, <2>1, <2>2 DEF Reached
  <2>4. Replayable'
    BY <1>7, <1>8, <2>1, <2>2 DEF Replayable, Applies, LastBefore
  <2>5. ReachedNext' = ReachedNext
    BY <1>3, <1>4, <1>9, <2>3 DEF ReachedNext
  <2>6. HandFits'
    BY <1>4 DEF HandFits
  <2> QED BY <2>4, <2>5, <2>6 DEF Chained, QueueCont, Cont
<1>10. CASE w.ev.kind # "call"
  <2>1. Updates' = Updates \cup {top}
    BY <1>1, <1>5, <1>10 DEF Updates
  <2>2. \A q \in Updates : /\ PieceAt(q)'.ev = PieceAt(q).ev
                           /\ Sooner(q, top) /\ ~ Sooner(top, q) /\ q # top
    BY <1>1, <1>5
  <2>3. Reached' = {w.ev.to}
    <3>1. {u \in Updates' : \A v \in Updates' : v = u \/ Sooner(v, u)} = {top}
      BY <2>1, <2>2
    <3> QED BY <1>1, <1>6, <3>1
  <2>4. ReachedNext' = ReachedNext
    <3>1. ReachedNext = {w.ev.to}
      BY <1>3, <1>10 DEF ReachedNext
    <3>2. ReachedNext' = Reached'
      BY <1>4 DEF ReachedNext
    <3> QED BY <2>3, <3>1, <3>2
  <2>5. ASSUME NEW q \in Updates PROVE Applies(q)'
    <3>1. CASE PieceAt(q).ev.kind # "patch"
      BY <1>7, <2>2, <3>1
    <3>2. CASE PieceAt(q).ev.kind = "patch"
      <4>1. PICK u \in Updates : /\ Sooner(u, q)
                                 /\ \A v \in Updates : Sooner(v, q) => v = u \/ Sooner(v, u)
                                 /\ PieceAt(q).ev.from = {PieceAt(u).ev.to}
        BY <1>8, <3>2 DEF Applies, LastBefore
      <4>2. \A v \in Updates' : Sooner(v, q) => v = u \/ Sooner(v, u)
        BY <2>1, <2>2, <4>1
      <4>3. u \in Updates' /\ PieceAt(q)'.ev.from = {PieceAt(u)'.ev.to}
        BY <2>1, <2>2, <4>1
      <4> QED BY <1>7, <4>1, <4>2, <4>3
    <3> QED BY <3>1, <3>2
  <2>6. Applies(top)'
    <3>1. CASE w.ev.kind # "patch"
      BY <1>1, <1>7, <3>1
    <3>2. CASE w.ev.kind = "patch"
      <4>1. w.ev.from = Reached /\ w.ev.from # {}
        BY <1>3, <1>10, <3>2 DEF Chained, HandFits
      <4>2. PICK u \in Updates : \A v \in Updates : v = u \/ Sooner(v, u)
        BY <4>1 DEF Reached
      <4>3. \A v \in Updates : (\A x \in Updates : x = v \/ Sooner(x, v)) => v = u
        <5>1. files \in Seq(Seq(LogPieces))
          BY DEF LogTypeOK, LogPieces
        <5>2. \A x \in Pieces : x[1] \in Nat /\ x[2] \in Nat
          BY <5>1, PiecesAre DEF PiecesShape
        <5>3. \A x, y \in Pieces : ~ (Sooner(x, y) /\ Sooner(y, x))
          BY <5>2 DEF Sooner
        <5> QED BY <1>5, <4>2, <5>3
      <4>4. Reached = {PieceAt(u).ev.to}
        BY <4>2, <4>3 DEF Reached
      <4>5. \A v \in Updates' : Sooner(v, top) => v = u \/ Sooner(v, u)
        BY <1>1, <2>1, <4>2
      <4>6. u \in Updates' /\ Sooner(u, top) /\ PieceAt(top)'.ev.from = {PieceAt(u)'.ev.to}
        BY <1>1, <2>1, <2>2, <4>1, <4>4
      <4> QED BY <1>7, <4>5, <4>6
    <3> QED BY <3>1, <3>2
  <2>7. Replayable'
    BY <2>1, <2>5, <2>6 DEF Replayable
  <2>8. HandFits'
    BY <1>4 DEF HandFits
  <2> QED BY <2>4, <2>7, <2>8 DEF Chained, QueueCont, Cont
<1> QED BY <1>9, <1>10

-----------------------------------------------------------------------------
(* The invariant.                                                           *)

(* Without a directory nothing is written.                                  *)
NoDirectory == ~ logEnv.file => files = <<>>

(* The invariant, in these parts.                                           *)
LogParts == TypedInOrder /\ RepeatsOK /\ WritesOK /\ ChainOK /\ NoDirectory

(* The invariant, in the parts the operations keep.                         *)
LEMMA LogInvParts ==
    ASSUME TRUE
    PROVE  LogInv <=> LogParts
<1>1. ASSUME LogInv PROVE LogParts
  BY <1>1, RankedThen, RetriesSplit
     DEF LogInv, LogParts, TypedInOrder, NoDirectory, InOrder
<1>2. ASSUME LogParts PROVE LogInv
  <2>1. RankedNow /\ InOrder /\ ReceivedInOrder
    BY <1>2 DEF LogParts, TypedInOrder, InOrder
  <2> QED BY <1>2, <2>1, Reranked, RetriesSplit DEF LogInv, LogParts, TypedInOrder, NoDirectory
<1> QED BY <1>1, <1>2

(* The chain, after a step that breaks it only where nothing is promised.   *)
LEMMA ChainKept ==
    ASSUME ChainOK,
           (faults' = 0 /\ ~ waits' /\ alive' /\ logEnv'.file) =>
               (faults = 0 /\ ~ waits /\ alive /\ logEnv.file),
           (faults' = 0 /\ ~ waits' /\ alive' /\ logEnv'.file /\ Chained) => Chained'
    PROVE  ChainOK'
<1>1. (ChainOK <=> (faults = 0 /\ ~ waits /\ alive /\ logEnv.file => Chained))'
  BY ChainSplit, PTL
<1> QED BY <1>1, ChainSplit

(* Steps that leave files, channel and what is to be written.               *)
LEMMA AsideKeeps ==
    ASSUME LogParts, UNCHANGED <<logEnv, open, written, faults, waits, alive>>,
           UNCHANGED files, channel' = channel, InHand' = InHand,
           cache' = cache \/ cache' = {}
    PROVE  WritesOK' /\ ChainOK' /\ NoDirectory'
<1>1. WritesOK'
  BY WritesStay DEF LogParts
<1>2. ChainOK'
  BY ChainStays, ChainKept DEF LogParts
<1> QED BY <1>1, <1>2 DEF LogParts, NoDirectory

(* A caller pushes its event into the recent ones.                          *)
LEMMA PushKeeps ==
    ASSUME LogAssumption, LogParts, NEW c \in Callers, LogPush(c)
    PROVE  LogParts'
<1>1. /\ UNCHANGED <<logEnv, open, written, faults, waits, alive>>
      /\ UNCHANGED files /\ channel' = channel /\ worker' = worker /\ cache' = cache
      /\ received' = received /\ post' = post
  BY DEF LogPush, fileVars, hookVars, pageVars
<1>2. TypedInOrder'
  BY PushOrder DEF LogParts
<1>3. RepeatsOK'
  BY <1>1, RepeatsStay DEF LogParts
<1>4. InHand' = InHand
  BY <1>1 DEF InHand
<1> QED BY <1>1, <1>2, <1>3, <1>4, AsideKeeps DEF LogParts

(* A caller sends its event to the worker.                                  *)
LEMMA SendKeeps ==
    ASSUME LogAssumption, LogParts, NEW c \in Callers, LogSend(c)
    PROVE  LogParts'
<1>1. /\ UNCHANGED <<logEnv, open, written, faults, waits, alive>>
      /\ UNCHANGED files /\ UNCHANGED worker /\ cache' = cache
      /\ received' = received /\ post' = post
  BY DEF LogSend, fileVars, hookVars, pageVars
<1>2. TypedInOrder'
  BY SendOrder DEF LogParts
<1>3. RepeatsOK'
  BY <1>1, RepeatsStay DEF LogParts
<1>4. WritesOK'
  BY <1>1, WritesStay DEF LogParts
<1>5. PICK e \in halfway[c] : channel' = Append(channel, e)
  BY DEF LogSend
<1> PICK S : S = CallEvents \cup Messages
  OBVIOUS
<1>6. channel \in Seq(S) /\ e \in S /\ e.kind # "update"
  <2>1. channel \in Seq(S) /\ halfway \in [Callers -> SUBSET CallEvents]
    BY DEF LogParts, TypedInOrder, LogTypeOK
  <2>2. e \in CallEvents
    BY <1>5, <2>1
  <2>3. e.kind # "update"
    BY <2>2 DEF CallEvents
  <2> QED BY <2>1, <2>2, <2>3
<1>7. Chained => Chained'
  BY <1>1, <1>5, <1>6, ChainGrows
<1>8. ChainOK'
  BY <1>1, <1>7, ChainKept DEF LogParts
<1> QED BY <1>1, <1>2, <1>3, <1>4, <1>8 DEF LogParts, NoDirectory

(* A state update goes to the worker.                                       *)
LEMMA UpdateKeeps ==
    ASSUME LogAssumption, LogParts, NEW previous \in SUBSET Contents, NEW content \in Contents,
           StateUpdate(previous, content), cache' \subseteq Contents, waiter' \subseteq Contents,
           \/ waits' = waits /\ (previous = cache \/ previous = {}) /\ cache' = {content}
           \/ waits' = TRUE
    PROVE  LogParts'
<1>0. LogTypeOK
  BY DEF LogParts, TypedInOrder
<1>1. PICK m : UpdateSent(m, previous, content)
  BY <1>0, UpdateIsSent DEF LogTypeOK
<1>2. /\ m \in Messages /\ m.prev = previous /\ m.cur = content
      /\ channel' = Append(channel, m)
      /\ UNCHANGED <<logEnv, open, faults, alive>>
      /\ UNCHANGED files /\ UNCHANGED worker /\ received' = received /\ post' = post
  BY <1>1 DEF UpdateSent
<1>3. written' = written
  BY DEF StateUpdate, fileVars
<1>4. TypedInOrder'
  <2>1. waits' \in BOOLEAN
    BY <1>0 DEF LogTypeOK
  <2> QED BY <1>1, <2>1, UpdateOrder DEF LogParts
<1>5. RepeatsOK'
  BY <1>2, RepeatsStay DEF LogParts
<1>6. WritesOK'
  BY <1>2, <1>3, WritesStay DEF LogParts
<1>7. ChainOK'
  <2>1. CASE waits' = waits /\ (previous = cache \/ previous = {}) /\ cache' = {content}
    <3> PICK S : S = CallEvents \cup Messages
      OBVIOUS
    <3>1. channel \in Seq(S) /\ m \in S /\ m.kind = "update"
      BY <1>0, <1>2 DEF LogTypeOK, Messages
    <3>2. (m.prev = {} \/ m.prev = cache) /\ cache' = {m.cur}
      BY <1>2, <2>1
    <3>3. Chained => Chained'
      BY <1>2, <3>1, <3>2, ChainGrows
    <3> QED BY <1>2, <2>1, <3>3, ChainKept DEF LogParts
  <2>2. CASE waits' = TRUE
    BY <2>2, ChainKept DEF LogParts
  <2> QED BY <2>1, <2>2
<1> QED BY <1>2, <1>4, <1>5, <1>6, <1>7 DEF LogParts, NoDirectory

(* The recent events, the wait or the cache are cleared.                    *)
LEMMA QuietKeeps ==
    ASSUME LogParts, ClearRecent \/ WaitEnds \/ CacheCleared
    PROVE  LogParts'
<1>1. /\ UNCHANGED <<logEnv, open, written, faults, waits, alive>>
      /\ UNCHANGED files /\ channel' = channel /\ worker' = worker
      /\ cache' = cache \/ cache' = {}
      /\ received' = received /\ post' = post
  BY DEF ClearRecent, WaitEnds, CacheCleared, fileVars, hookVars, pageVars
<1>2. TypedInOrder'
  BY QuietOrder DEF LogParts
<1>3. RepeatsOK'
  BY <1>1, RepeatsStay DEF LogParts
<1>4. InHand' = InHand
  BY <1>1 DEF InHand
<1> QED BY <1>1, <1>2, <1>3, <1>4, AsideKeeps DEF LogParts

(* The worker takes a message.                                              *)
LEMMA TakeKeeps ==
    ASSUME LogAssumption, LogParts, WorkerTakes
    PROVE  LogParts'
<1>0. LogTypeOK
  BY DEF LogParts, TypedInOrder
<1>1. PICK m, E : Taken(m, E)
  BY <1>0, TakeEffect
<1>2. /\ UNCHANGED <<logEnv, open, written, faults, waits, alive>>
      /\ UNCHANGED files /\ received' = received /\ post' = post
  BY <1>1 DEF Taken
<1>3. TypedInOrder'
  BY TakeOrder DEF LogParts
<1>4. RepeatsOK' /\ WritesOK'
  BY <1>2, RepeatsStay, WritesStay DEF LogParts
<1>5. Chained => Chained'
  BY <1>0, <1>1, ChainTakes
<1>6. ChainOK'
  BY <1>2, <1>5, ChainKept DEF LogParts
<1> QED BY <1>2, <1>3, <1>4, <1>6 DEF LogParts, NoDirectory

(* The worker writes its event to the file.                                 *)
LEMMA WriteKeeps ==
    ASSUME LogAssumption, LogParts, WorkerWrites
    PROVE  LogParts'
<1>0. LogTypeOK /\ SinglesOK /\ (open # {} => files # <<>>)
  BY WritesSplit DEF LogParts, TypedInOrder, LastIsOpen
<1>1. PICK w : Wrote(w)
  BY <1>0, WriteEffect
<1>2. /\ w \in worker /\ w.to = "file" /\ w.ev \in LogEvents
      /\ worker' = {[ev |-> w.ev, to |-> "hook"]}
      /\ \/ ~ logEnv.file /\ FileUntouched /\ faults' = faults
         \/ logEnv.file /\ FileUntouched /\ faults' = faults + 1
         \/ logEnv.file /\ \E fresh, p : FileWrite(w.ev, fresh, p)
      /\ UNCHANGED <<logEnv, channel, post, received, cache, waits, alive>>
  BY <1>1 DEF Wrote
<1>3. TypedInOrder'
  BY <1>0, <1>1, WriteOrder DEF LogParts
<1>4. WritesOK'
  BY <1>0, <1>1, WriteWrites DEF LogParts
<1>5. RepeatsOK'
  BY <1>2, RepeatsStay DEF LogParts
<1>6. faults \in Nat
  BY <1>0 DEF LogTypeOK
<1>7. ChainOK'
  <2>1. CASE ~ logEnv.file
    BY <1>2, <2>1, ChainKept DEF LogParts
  <2>2. CASE faults' = faults + 1
    <3>1. faults' # 0
      BY <1>6, <2>2
    <3> QED BY <3>1, ChainKept DEF LogParts
  <2>3. ASSUME NEW fresh, NEW p, FileWrite(w.ev, fresh, p), faults' # faults + 1
        PROVE  ChainOK'
    <3>1. p.ev = w.ev /\ faults' = faults
      BY <2>3 DEF FileWrite
    <3>2. PICK top : Grown(top, p)
      BY <1>0, <1>2, <2>3, FileWritten
    <3>3. Chained => Chained'
      BY <1>0, <1>2, <3>1, <3>2, ChainWrites
    <3> QED BY <1>2, <3>1, <3>3, ChainKept DEF LogParts
  <2> QED BY <1>2, <2>1, <2>2, <2>3
<1>8. NoDirectory'
  <2>1. logEnv' = logEnv /\ (~ logEnv.file => files' = files)
    BY <1>2 DEF FileUntouched
  <2> QED BY <2>1 DEF LogParts, NoDirectory
<1> QED BY <1>3, <1>4, <1>5, <1>7, <1>8 DEF LogParts

(* The worker hands its event to the webhook.                               *)
LEMMA HandKeeps ==
    ASSUME LogParts, WorkerPosts
    PROVE  LogParts'
<1>1. /\ UNCHANGED <<logEnv, open, written, faults, waits, alive>>
      /\ UNCHANGED files /\ channel' = channel /\ worker' = {} /\ cache' = cache
      /\ received' = received /\ post' = post
      /\ \E w \in worker : w.to = "hook"
  BY DEF WorkerPosts, fileVars, pageVars
<1>2. TypedInOrder'
  BY WorkerPostsOrder DEF LogParts
<1>3. RepeatsOK'
  BY <1>1, RepeatsStay DEF LogParts
<1>4. InHand' = {} /\ InHand = {}
  <2>1. \A v \in worker : v.to = "hook"
    BY <1>1 DEF LogParts, TypedInOrder, SinglesOK
  <2> QED BY <1>1, <2>1 DEF InHand
<1> QED BY <1>1, <1>2, <1>3, <1>4, AsideKeeps DEF LogParts

(* The sender takes an event or posts one.                                  *)
LEMMA SenderKeeps ==
    ASSUME LogAssumption, LogParts, HookNext \/ HookPosts
    PROVE  LogParts'
<1>1. /\ UNCHANGED <<logEnv, open, written, faults, waits, alive>>
      /\ UNCHANGED files /\ channel' = channel /\ worker' = worker /\ cache' = cache
  BY DEF HookNext, HookPosts, fileVars, pageVars
<1>2. TypedInOrder' /\ RepeatsOK'
  <2>1. CASE HookNext
    BY <2>1, HookNextOrder, NextRepeats DEF LogParts
  <2>2. CASE HookPosts
    <3>1. PICK p : PostTried(p)
      BY <2>2, PostEffect DEF LogParts, TypedInOrder
    <3> QED BY <3>1, PostOrder, PostRepeats DEF LogParts
  <2> QED BY <2>1, <2>2
<1>3. InHand' = InHand
  BY <1>1 DEF InHand
<1> QED BY <1>1, <1>2, <1>3, AsideKeeps DEF LogParts

(* The process dies or power fails.                                         *)
LEMMA CrashKeeps ==
    ASSUME LogParts, LogCrash
    PROVE  LogParts'
<1>0. LogTypeOK
  BY DEF LogParts, TypedInOrder
<1>1. alive' = FALSE /\ received' = received /\ post' = {}
  BY <1>0, CrashEffect
<1>2. TypedInOrder'
  BY CrashOrder DEF LogParts
<1>3. WritesOK' /\ NoDirectory'
  BY <1>0, CrashWrites DEF LogParts, NoDirectory
<1>4. RepeatsOK'
  BY <1>1, RepeatsStay DEF LogParts
<1>5. ChainOK'
  BY <1>1, ChainKept DEF LogParts
<1> QED BY <1>2, <1>3, <1>4, <1>5 DEF LogParts

(* Every step of the log keeps the invariant.                               *)
LEMMA LogStep ==
    ASSUME LogAssumption, LogInv, [LogNext]_logVars
    PROVE  LogInv'
<1>1. LogParts
  BY LogInvParts
<1>2. cache \subseteq Contents /\ waiter \subseteq Contents
  BY <1>1 DEF LogParts, TypedInOrder, LogTypeOK
<1>3. LogParts'
  <2>1. ASSUME NEW c \in Callers, LogPush(c) PROVE LogParts'
    BY <1>1, <2>1, PushKeeps
  <2>2. ASSUME NEW c \in Callers, LogSend(c) PROVE LogParts'
    BY <1>1, <2>2, SendKeeps
  <2>3. ASSUME NEW content \in Contents, CaptureState(content) PROVE LogParts'
    <3>1. PICK previous \in {cache, {}} : StateUpdate(previous, content)
      BY <2>3 DEF CaptureState
    <3>2. cache' = {content} /\ waiter' = waiter /\ waits' = waits
      BY <2>3 DEF CaptureState
    <3>3. previous \in SUBSET Contents
      BY <1>2
    <3> QED BY <1>1, <1>2, <3>1, <3>2, <3>3, UpdateKeeps
  <2>4. ASSUME NEW content \in Contents, WaitCaptures(content) PROVE LogParts'
    <3>1. /\ StateUpdate(waiter, content) /\ waiter' = {content} /\ waits' = TRUE
          /\ cache' = cache
      BY <2>4 DEF WaitCaptures
    <3> QED BY <1>1, <1>2, <3>1, UpdateKeeps
  <2>5. CASE ClearRecent \/ WaitEnds \/ CacheCleared
    BY <1>1, <2>5, QuietKeeps
  <2>6. CASE Worker
    BY <1>1, <2>6, TakeKeeps, WriteKeeps, HandKeeps DEF Worker
  <2>7. CASE HookNext \/ HookPosts
    BY <1>1, <2>7, SenderKeeps
  <2>8. CASE LogCrash
    BY <1>1, <2>8, CrashKeeps
  <2>9. CASE UNCHANGED logVars
    <3>1. /\ UNCHANGED <<logEnv, open, written, faults, waits, alive>>
          /\ UNCHANGED files /\ channel' = channel /\ worker' = worker /\ cache' = cache
          /\ received' = received /\ post' = post
          /\ UNCHANGED <<logged, halfway, recent, hook, waiter>>
      BY <2>9 DEF logVars
    <3>2. InHand' = InHand
      BY <3>1 DEF InHand
    <3>3. RepeatsOK'
      BY <1>1, <3>1, RepeatsStay DEF LogParts
    <3>4. LogTypeOK' /\ SinglesOK'
      BY <1>1, <3>1 DEF LogParts, TypedInOrder, LogTypeOK, SinglesOK
    <3>5. RankedNow'
      <4>1. /\ Filed' = Filed /\ WithWorker' = WithWorker /\ ToFile' = ToFile
            /\ Halfway' = Halfway /\ Posted' = Posted
            /\ In(channel)' = In(channel) /\ In(received)' = In(received)
            /\ In(hook)' = In(hook) /\ In(recent)' = In(recent)
        BY <3>1, FilesStay DEF WithWorker, ToFile, Posted, In, Halfway
      <4>2. RankedNow
        BY <1>1 DEF LogParts, TypedInOrder
      <4> QED BY <3>1, <4>1, <4>2 DEF RankedNow
    <3>6. InOrder'
      BY <1>1, <3>1, FilesStay DEF LogParts, TypedInOrder, InOrder, ReceivedInOrder, Ascending
    <3> QED BY <1>1, <3>1, <3>2, <3>3, <3>4, <3>5, <3>6, AsideKeeps DEF LogParts, TypedInOrder
  <2> QED BY <2>1, <2>2, <2>3, <2>4, <2>5, <2>6, <2>7, <2>8, <2>9 DEF LogNext
<1>4. (LogInv <=> LogParts)'
  BY LogInvParts, PTL
<1> QED BY <1>3, <1>4

(* At the start.                                                            *)
LEMMA LogStart ==
    ASSUME LogAssumption, LogInit
    PROVE  LogInv
<1>1. /\ logged = 0 /\ halfway = [c \in Callers |-> {}] /\ recent = <<>> /\ channel = <<>>
      /\ worker = {} /\ files = <<>> /\ open = {} /\ written = {} /\ faults = 0
      /\ hook = <<>> /\ post = {} /\ received = <<>> /\ cache = {} /\ waiter = {}
      /\ waits = FALSE /\ alive = TRUE
  BY DEF LogInit
<1>2. logEnv \in [file : BOOLEAN, max : Nat, sync : BOOLEAN, hook : Nat, events : Nat, faults : Nat]
  <2>1. PICK env \in AuditEnvs : logEnv = FromEnv(env)
    BY DEF LogInit
  <2>2. env.maxBytes \subseteq Nat /\ env.hook \in Nat /\ env.events \in Nat /\ env.faults \in Nat
    BY <2>1 DEF LogAssumption
  <2> PICK max : max = IF env.maxBytes = {} THEN 100 ELSE CHOOSE n \in env.maxBytes : TRUE
    OBVIOUS
  <2>3. max \in Nat
    BY <2>2
  <2>4. logEnv = [file |-> env.dir = "usable", max |-> max, sync |-> env.durability = "sync",
                  hook |-> env.hook, events |-> env.events, faults |-> env.faults]
    BY <2>1 DEF FromEnv
  <2> QED BY <2>2, <2>3, <2>4
<1>3. LogTypeOK /\ SinglesOK
  <2>1. \A S : <<>> \in Seq(S)
    OBVIOUS
  <2>2. halfway \in [Callers -> SUBSET CallEvents] /\ \A c \in Callers : \A e \in halfway[c] : e.by = c
    BY <1>1
  <2>3. /\ recent \in Seq(LogEvents) /\ channel \in Seq(CallEvents \cup Messages)
        /\ hook \in Seq(LogEvents) /\ received \in Seq(LogEvents)
        /\ files \in Seq(Seq([ev : LogEvents, whole : BOOLEAN, safe : BOOLEAN]))
    BY ONLY <1>1, <2>1
  <2>4. logged \in Nat /\ faults \in Nat
    BY <1>1
  <2> QED BY ONLY <1>1, <1>2, <2>2, <2>3, <2>4 DEF LogTypeOK, SinglesOK
<1>4. DOMAIN files = {} /\ Pieces = {} /\ Updates = {}
  BY <1>1 DEF Pieces, Updates
<1>5. /\ Filed = {} /\ WithWorker = {} /\ Posted = {} /\ Halfway = {} /\ InHand = {}
      /\ In(recent) = {} /\ In(channel) = {} /\ In(hook) = {} /\ In(received) = {}
  BY <1>1, <1>4 DEF Filed, WithWorker, Posted, Halfway, InHand, In
<1>6. OrderKept
  <2>1. Ascending(recent) /\ Ascending(channel) /\ Ascending(hook)
    BY <1>1 DEF Ascending
  <2>2. {w.ev : w \in {v \in worker : v.to = "file"}} = {}
    BY <1>1
  <2> QED BY <1>1, <1>4, <1>5, <2>1, <2>2 DEF OrderKept, Ahead
<1>7. IdsOK
  BY <1>5 DEF IdsOK
<1>8. RetriesOK
  BY <1>1 DEF RetriesOK, HookKeepsOrder
<1>9. WritesOK
  BY <1>1, <1>4 DEF WritesOK
<1>10. ChainOK
  BY <1>1, <1>4, <1>5 DEF ChainOK, Continues
<1> QED BY <1>1, <1>3, <1>6, <1>7, <1>8, <1>9, <1>10 DEF LogInv

(* Two pieces for one id would be one thread's, and one would come sooner.  *)
LEMMA OnePiece ==
    ASSUME LogInv, NEW p \in Pieces, NEW q \in Pieces, PieceAt(p).ev.id = PieceAt(q).ev.id
    PROVE  p = q
<1>1. files \in Seq(Seq(LogPieces))
  BY DEF LogInv, LogTypeOK, LogPieces
<1>2. PiecesShape
  BY <1>1, PiecesAre
<1>3. PICK n \in 1 .. Len(files) : \E k \in 1 .. Len(files[n]) : p = <<n, k>>
  BY <1>2 DEF PiecesShape
<1>4. PICK k \in 1 .. Len(files[n]) : p = <<n, k>>
  BY <1>3
<1>5. PICK m \in 1 .. Len(files) : \E j \in 1 .. Len(files[m]) : q = <<m, j>>
  BY <1>2 DEF PiecesShape
<1>6. PICK j \in 1 .. Len(files[m]) : q = <<m, j>>
  BY <1>5
<1>7. PieceAt(p).ev \in Filed /\ PieceAt(q).ev \in Filed
  BY DEF Filed
<1>8. PieceAt(p).ev.by = PieceAt(q).ev.by
  BY <1>7 DEF LogInv, IdsOK
<1>9. ~ Sooner(p, q) /\ ~ Sooner(q, p)
  <2>1. PieceAt(p).ev.id \in Nat
    BY <1>7, PlacesTyped DEF LogInv, LogEvents, CallEvents, UpdateEvents
  <2>2. ~ PieceAt(p).ev.id < PieceAt(q).ev.id /\ ~ PieceAt(q).ev.id < PieceAt(p).ev.id
    BY <2>1
  <2> QED BY <1>8, <2>2 DEF LogInv, OrderKept
<1>10. Len(files) \in Nat /\ Len(files[n]) \in Nat /\ Len(files[m]) \in Nat
  BY <1>2 DEF PiecesShape
<1>11. ~ (n < m \/ (n = m /\ k < j)) /\ ~ (m < n \/ (m = n /\ j < k))
  BY <1>4, <1>6, <1>9 DEF Sooner
<1>12. n \in Int /\ m \in Int /\ k \in Int /\ j \in Int
  BY <1>10
<1>13. n = m /\ k = j
  BY ONLY <1>11, <1>12
<1> QED BY <1>4, <1>6, <1>13

(* What the log tells of a whole file line by line.                         *)
LEMMA FilesTell ==
    ASSUME LogInv
    PROVE  FilesTellTheLog
<1>1. ASSUME alive, NEW id \in written
      PROVE  Cardinality({p \in Pieces : PieceAt(p).whole /\ PieceAt(p).ev.id = id}) = 1
  <2>1. PICK p \in Pieces : PieceAt(p).whole /\ PieceAt(p).ev.id = id
    BY <1>1 DEF LogInv, WritesOK
  <2>2. {q \in Pieces : PieceAt(q).whole /\ PieceAt(q).ev.id = id} = {p}
    <3>1. ASSUME NEW q \in Pieces, PieceAt(q).whole, PieceAt(q).ev.id = id PROVE q = p
      BY <2>1, <3>1, OnePiece
    <3> QED BY <2>1, <3>1
  <2> QED BY <2>2, FS_Singleton
<1>2. faults = 0 => /\ \A p \in Pieces : PieceAt(p).whole
                    /\ \A n \in DOMAIN files :
                         Len(files[n]) > 1 /\ logEnv.max > 0 =>
                             Bytes(files[n])[Len(files[n])] <= logEnv.max
  BY DEF LogInv, WritesOK
<1>3. \A p, q \in Pieces :
          Sooner(p, q) /\ PieceAt(p).ev.by = PieceAt(q).ev.by =>
              PieceAt(p).ev.id < PieceAt(q).ev.id
  BY DEF LogInv, OrderKept
<1> QED BY <1>1, <1>2, <1>3 DEF FilesTellTheLog

(* What was synced is readable after a crash.                               *)
LEMMA SyncedSurvives ==
    ASSUME LogInv
    PROVE  SyncSurvives
<1> SUFFICES ASSUME logEnv.sync, NEW id \in written
             PROVE  \E p \in Pieces : /\ PieceAt(p).whole /\ PieceAt(p).ev.id = id
                                      /\ faults = 0 => p[2] \in ReadableIn(files[p[1]])
  BY DEF SyncSurvives
<1>1. PICK p \in Pieces : PieceAt(p).whole /\ PieceAt(p).ev.id = id
  BY DEF LogInv, WritesOK
<1>2. PiecesShape
  <2>1. files \in Seq(Seq(LogPieces))
    BY DEF LogInv, LogTypeOK, LogPieces
  <2> QED BY <2>1, PiecesAre
<1>3. ASSUME faults = 0 PROVE p[2] \in ReadableIn(files[p[1]])
  <2>1. PICK n \in 1 .. Len(files) : \E k \in 1 .. Len(files[n]) : p = <<n, k>>
    BY <1>2 DEF PiecesShape
  <2>2. PICK k \in 1 .. Len(files[n]) : p = <<n, k>>
    BY <2>1
  <2>3. /\ DOMAIN files[n] = 1 .. Len(files[n]) /\ Len(files[n]) \in Nat
        /\ \A i \in 1 .. Len(files[n]) : <<n, i>> \in Pieces
    BY <1>2 DEF PiecesShape
  <2>4. \A i \in 1 .. Len(files[n]) : files[n][i].whole
    <3>1. \A q \in Pieces : PieceAt(q).whole
      BY <1>3 DEF LogInv, WritesOK
    <3>2. \A i : PieceAt(<<n, i>>) = files[n][i]
      BY DEF PieceAt
    <3> QED BY <2>3, <3>1, <3>2
  <2>5. k = 1 \/ k - 1 \in 1 .. Len(files[n])
    BY <2>3
  <2>6. k \in ReadableIn(files[n])
    BY <2>3, <2>4, <2>5 DEF ReadableIn
  <2> QED BY <2>2, <2>6
<1> QED BY <1>1, <1>3

(* Nothing raw is in the recent events, nor in a sink.                      *)
LEMMA NothingRaw ==
    ASSUME LogInv
    PROVE  RecentIsFaithful
<1>1. Filed \cup In(received) \cup In(hook) \cup In(recent) \subseteq LogEvents
  BY PlacesTyped DEF LogInv
<1>2. \A e \in LogEvents : ~ e.raw
  BY DEF LogEvents, CallEvents, UpdateEvents
<1>3. Filed = {PieceAt(p).ev : p \in Pieces}
  BY DEF Filed
<1>4. Ascending(recent)
  BY DEF LogInv, OrderKept
<1> QED BY <1>1, <1>2, <1>3, <1>4 DEF RecentIsFaithful, Ascending

(* The invariant says what the log promises.                                *)
LEMMA LogInvTells ==
    ASSUME LogInv
    PROVE  LogIsFaithful
<1>1. HookKeepsOrder
  BY DEF LogInv, RetriesOK
<1>2. CapturesReplay
  <2>1. CASE logEnv.file
    BY <2>1 DEF LogInv, ChainOK, CapturesReplay
  <2>2. CASE ~ logEnv.file
    <3>1. Updates = {}
      BY <2>2 DEF LogInv, Updates, Pieces
    <3> QED BY <3>1 DEF CapturesReplay
  <2> QED BY <2>1, <2>2
<1> QED BY <1>1, <1>2, FilesTell, SyncedSurvives, NothingRaw DEF LogIsFaithful

(* The audit log tells what happened: in its files, through a crash or a    *)
(* power failure, in its recent events, to the webhook and when it is       *)
(* replayed, whatever fails and whoever logs.                               *)
THEOREM LogTellsTheTruth == LogSpec => []LogIsFaithful
<1>1. LogInit => LogInv
  BY LogStart, LogAssumption
<1>2. LogInv /\ [LogNext]_logVars => LogInv'
  BY LogStep, LogAssumption
<1>3. LogInv => LogIsFaithful
  BY LogInvTells
<1> QED BY <1>1, <1>2, <1>3, PTL DEF LogSpec

-----------------------------------------------------------------------------
(* The session vault.                                                       *)

(* A call leaves the queue of a lock; whoever else was first stays first.  *)
LEMMA LeavingKeepsHead ==
    ASSUME NEW q \in Seq(VaultClients), NEW c
    PROVE  /\ Leaving(q, c) \in Seq(VaultClients)
           /\ (q # << >> /\ Head(q) # c) =>
                Leaving(q, c) # << >> /\ Head(Leaving(q, c)) = Head(q)
<1> DEFINE at == {i \in 1 .. Len(q): q[i] = c}
           first == CHOOSE i \in at: TRUE
           rest == [i \in 1 .. Len(q) - 1 |-> IF i < first THEN q[i] ELSE q[i + 1]]
<1>1. CASE at = {}
  <2>1. Leaving(q, c) = q
    BY <1>1 DEF Leaving
  <2> QED
    BY <2>1
<1>2. CASE at # {}
  <2>1. Leaving(q, c) = rest
    BY <1>2 DEF Leaving
  <2>2. first \in 1 .. Len(q) /\ q[first] = c
    BY <1>2
  <2> HIDE DEF first, at
  <2>3. Len(q) \in Nat /\ Len(q) >= 1 /\ first \in 1 .. Len(q)
    BY <2>2
  <2>4. \A i \in 1 .. Len(q) - 1 : rest[i] \in VaultClients
    BY <2>3
  <2>5. rest \in Seq(VaultClients) /\ Len(rest) = Len(q) - 1
    BY <2>3, <2>4
  <2>6. ASSUME Head(q) # c
        PROVE  rest # << >> /\ Head(rest) = Head(q)
    <3>1. Head(q) = q[1]
      BY <2>3
    <3>2. first > 1
      BY <2>2, <2>3, <2>6, <3>1
    <3>3. Len(rest) >= 1
      BY <2>3, <2>5, <3>2
    <3>4. rest[1] = q[1]
      BY <2>3, <3>2
    <3> HIDE DEF rest
    <3> QED
      BY <2>5, <3>1, <3>3, <3>4
  <2> QED
    BY <2>1, <2>5, <2>6
<1> QED
  BY <1>1, <1>2

(* Every other call keeps its place at the head of a lock.                 *)
OthersHold(c) ==
    /\ locks' \in [{"kms", "storage"} -> Seq(VaultClients)]
    /\ \A d \in VaultClients \ {c} : \A lock \in {"kms", "storage"} :
         Holds(d, lock) => Holds(d, lock)'

(* A client that leaves the queues takes no lock from another.              *)
LEMMA WithoutHolds ==
    ASSUME VaultTypeOK, NEW c \in VaultClients, locks' = Without(c)
    PROVE  OthersHold(c)
<1>1. locks \in [{"kms", "storage"} -> Seq(VaultClients)]
  BY DEF VaultTypeOK
<1>2. \A lock \in {"kms", "storage"} : locks'[lock] = Leaving(locks[lock], c)
  BY <1>1 DEF Without
<1>3. locks' \in [{"kms", "storage"} -> Seq(VaultClients)]
  <2>1. \A lock \in {"kms", "storage"} : Leaving(locks[lock], c) \in Seq(VaultClients)
    BY <1>1, LeavingKeepsHead
  <2> QED
    BY <1>1, <2>1 DEF Without
<1>4. ASSUME NEW d \in VaultClients \ {c}, NEW lock \in {"kms", "storage"},
             Holds(d, lock)
      PROVE  Holds(d, lock)'
  <2>1. locks[lock] \in Seq(VaultClients) /\ locks[lock] # << >>
        /\ Head(locks[lock]) = d
    BY <1>1, <1>4 DEF Holds
  <2>2. Leaving(locks[lock], c) # << >> /\ Head(Leaving(locks[lock], c)) = d
    BY <2>1, LeavingKeepsHead
  <2> QED
    BY <1>2, <2>2 DEF Holds
<1> QED
  BY <1>3, <1>4 DEF OthersHold

(* A client that queues takes no lock from anybody.                         *)
LEMMA QueuedHolds ==
    ASSUME VaultTypeOK, NEW c \in VaultClients, NEW l \in {"kms", "storage"},
           locks' = Queued(c, l)
    PROVE  /\ OthersHold(c)
           /\ \A lock \in {"kms", "storage"} : Holds(c, lock) => Holds(c, lock)'
<1>1. locks \in [{"kms", "storage"} -> Seq(VaultClients)]
  BY DEF VaultTypeOK
<1>2. \A lock \in {"kms", "storage"} :
        locks'[lock] = IF lock = l THEN Append(locks[lock], c) ELSE locks[lock]
  BY <1>1 DEF Queued
<1>3. locks' \in [{"kms", "storage"} -> Seq(VaultClients)]
  BY <1>1 DEF Queued
<1>4. ASSUME NEW d \in VaultClients, NEW lock \in {"kms", "storage"}, Holds(d, lock)
      PROVE  Holds(d, lock)'
  <2>1. locks[lock] \in Seq(VaultClients) /\ locks[lock] # << >>
        /\ Head(locks[lock]) = d
    BY <1>1, <1>4 DEF Holds
  <2>2. Append(locks[lock], c) # << >> /\ Head(Append(locks[lock], c)) = d
    BY <2>1
  <2> QED
    BY <1>2, <2>1, <2>2 DEF Holds
<1> QED
  BY <1>3, <1>4 DEF OthersHold

(* Only the first of a queue holds the lock.                               *)
LEMMA OneHolder ==
    ASSUME NEW c, NEW d, NEW lock, Holds(c, lock), Holds(d, lock)
    PROVE  c = d
BY DEF Holds

(* What a call is doing says what it keeps.                                *)
LEMMA FutureKinds ==
    ASSUME NEW f \in Futures
    PROVE  /\ f.at = "idle" => f = NoFuture
           /\ f.at = "insert" => f \in StoreInserts
           /\ f.at = "decrypt" => f \in LoadDecrypts
           /\ f.at = "cookies" => f \in LoadCookies
           /\ f.at = "encrypting" => f \in RotateRuns
           /\ (f.op = "store" /\ f.at = "locks") => f \in StoreCalls
           /\ (f.op = "load" /\ f.at \in {"locks", "both"}) => f \in LoadCalls
           /\ (f.op = "rotate" /\ f.at \in {"locks", "both"}) => f \in RotateCalls
<1>1. CASE f = NoFuture
  BY <1>1 DEF NoFuture
<1>2. CASE f \in StoreCalls \cup StoreInserts
  BY <1>2 DEF StoreCalls, StoreInserts
<1>3. CASE f \in LoadCalls \cup LoadDecrypts \cup LoadCookies
  BY <1>3 DEF LoadCalls, LoadDecrypts, LoadCookies
<1>4. CASE f \in RotateCalls \cup RotateRuns
  BY <1>4 DEF RotateCalls, RotateRuns
<1> QED
  BY <1>1, <1>2, <1>3, <1>4 DEF Futures

-----------------------------------------------------------------------------
(* A step that moves one call and leaves keys and sessions alone keeps the *)
(* invariant if that call is in order afterwards.                          *)
LEMMA OneCallMoves ==
    ASSUME VaultInv, NEW c \in VaultClients, NEW f \in Futures,
           futures' = [futures EXCEPT ![c] = f],
           OthersHold(c),
           UNCHANGED <<keys, currentKey, storage, saved>>,
           jar' \in [VaultClients -> SUBSET Cookies],
           vaultCalls' \in Nat, vaultFaults' \in Nat,
           f.at \in UnderKms => Holds(c, "kms")',
           f.at = "encrypting" <=> futures[c].at = "encrypting",
           CallOK(f)
    PROVE  VaultInv'
<1>0. VaultTypeOK /\ futures \in [VaultClients -> Futures]
  BY DEF VaultInv, VaultTypeOK
<1>1. /\ futures' \in [VaultClients -> Futures]
      /\ futures'[c] = f
      /\ \A d \in VaultClients \ {c} : futures'[d] = futures[d]
  BY <1>0
<1>2. VaultTypeOK'
  BY <1>0, <1>1 DEF VaultTypeOK, OthersHold
<1>3. KmsExcludes'
  <2>1. SUFFICES ASSUME NEW d \in VaultClients, futures'[d].at \in UnderKms
                 PROVE  Holds(d, "kms")'
    BY DEF KmsExcludes
  <2>2. CASE d = c
    BY <1>1, <2>1, <2>2
  <2>3. CASE d # c
    <3>1. Holds(d, "kms")
      BY <1>1, <2>1, <2>3 DEF VaultInv, KmsExcludes
    <3> QED
      BY <2>3, <3>1 DEF OthersHold
  <2> QED
    BY <2>2, <2>3
<1>4. SessionsStayReadable'
  BY DEF VaultInv, SessionsStayReadable, Opens
<1>5. KeysBetweenRotations'
  <2>1. (\A d \in VaultClients : futures'[d].at # "encrypting")
          => (\A d \in VaultClients : futures[d].at # "encrypting")
    BY <1>1
  <2> QED
    BY <2>1 DEF VaultInv, KeysBetweenRotations, KeysAre
<1>6. CallsOK'
  <2>1. SUFFICES ASSUME NEW d \in VaultClients PROVE CallOK(futures[d])'
    BY DEF CallsOK
  <2>2. PICK x : x = futures'[d]
    OBVIOUS
  <2>3. CallOK(x)
    BY <1>1, <2>2 DEF VaultInv, CallsOK
  <2>4. CallOK(x)'
    BY <2>3 DEF CallOK, RotationUnderWay, KeysAre, Ciphertext, Opens
  <2> QED
    BY <2>2, <2>4 DEF CallOK, RotationUnderWay, KeysAre, Ciphertext, Opens
<1> QED
  BY <1>2, <1>3, <1>4, <1>5, <1>6 DEF VaultInv

(* A call of save_to_vault, load_from_vault or rotate_key queues up.       *)
LEMMA CallsKept ==
    ASSUME VaultInv, NEW c \in VaultClients,
           NEW f \in StoreCalls \cup LoadCalls \cup RotateCalls,
           f.at = "locks", Calls(c, f)
    PROVE  VaultInv'
<1>0. VaultTypeOK
  BY DEF VaultInv
<1>1. f \in Futures
  BY DEF Futures
<1>2. OthersHold(c)
  BY <1>0, QueuedHolds DEF Calls, FirstLock
<1>3. futures[c].at # "encrypting"
  BY DEF Calls, NoFuture
<1>4. CallOK(f) /\ f.at \notin UnderKms /\ f.at # "encrypting"
  BY DEF CallOK, UnderKms
<1>5. vaultCalls' \in Nat /\ vaultFaults' \in Nat
      /\ jar' \in [VaultClients -> SUBSET Cookies]
  BY <1>0 DEF Calls, VaultTypeOK
<1> QED
  BY <1>1, <1>2, <1>3, <1>4, <1>5, OneCallMoves DEF Calls

(* A call that has staged no key ends, whatever for.                       *)
LEMMA EndKept ==
    ASSUME VaultInv, NEW c \in VaultClients, Ends(c),
           futures[c].at # "encrypting",
           UNCHANGED <<keys, currentKey, storage, saved, jar>>,
           vaultCalls' \in Nat, vaultFaults' \in Nat
    PROVE  VaultInv'
<1>0. VaultTypeOK
  BY DEF VaultInv
<1>1. NoFuture \in Futures /\ NoFuture.at = "idle"
  BY DEF Futures, NoFuture
<1>2. OthersHold(c)
  BY <1>0, WithoutHolds DEF Ends
<1> QED
  BY <1>0, <1>1, <1>2, OneCallMoves DEF Ends, CallOK, UnderKms, VaultTypeOK

(* No rotation is under way while another call holds the KMS lock.         *)
LEMMA NoneRotates ==
    ASSUME VaultInv, NEW c \in VaultClients, Holds(c, "kms"),
           futures[c].at # "encrypting"
    PROVE  /\ \A d \in VaultClients : futures[d].at # "encrypting"
           /\ KeysAre(currentKey, {})
<1>1. \A d \in VaultClients : futures[d].at # "encrypting"
  BY OneHolder DEF VaultInv, KmsExcludes, UnderKms
<1> QED
  BY <1>1 DEF VaultInv, KeysBetweenRotations

(* store_session encrypts with the key in use and keeps the KMS lock.      *)
LEMMA EncryptsKept ==
    ASSUME VaultInv, NEW c \in VaultClients, Encrypts(c)
    PROVE  VaultInv'
<1>0. VaultTypeOK /\ futures[c] \in Futures
  BY DEF VaultInv, VaultTypeOK
<1>1. futures[c] \in StoreCalls
  BY <1>0, FutureKinds DEF Encrypts
<1> DEFINE ct == Ciphertext(futures[c].data, currentKey)
           f == [op |-> "store", at |-> "insert", sid |-> futures[c].sid, ct |-> ct]
<1>2. currentKey \in DOMAIN keys
  BY NoneRotates DEF Encrypts, KeysAre
<1>3. keys[currentKey] \in KeyBytes
  BY <1>0, <1>2 DEF VaultTypeOK
<1>4. ct \in Ciphertexts /\ ct.key = currentKey /\ Opens(ct)
  BY <1>0, <1>1, <1>2, <1>3 DEF Ciphertext, Ciphertexts, StoreCalls, Opens, VaultTypeOK
<1> HIDE DEF ct
<1>5. f \in Futures
  BY <1>1, <1>4 DEF Futures, StoreInserts, StoreCalls
<1>6. futures' = [futures EXCEPT ![c] = f]
  BY DEF Encrypts, ct
<1>7. OthersHold(c) /\ Holds(c, "kms")'
  BY <1>0, QueuedHolds DEF Encrypts
<1>8. CallOK(f)
  BY <1>4 DEF CallOK
<1>9. futures[c].at # "encrypting" /\ f.at = "insert"
  BY DEF Encrypts
<1> HIDE DEF f
<1> QED
  BY <1>0, <1>5, <1>6, <1>7, <1>8, <1>9, OneCallMoves DEF Encrypts, VaultTypeOK

(* load_session and rotate_key_secret ask for the storage lock as well.    *)
LEMMA NestsKept ==
    ASSUME VaultInv, NEW c \in VaultClients, Nests(c)
    PROVE  VaultInv'
<1>0. VaultTypeOK /\ futures[c] \in Futures
  BY DEF VaultInv, VaultTypeOK
<1> DEFINE f == [futures[c] EXCEPT !.at = "both"]
<1>1. f \in LoadCalls \cup RotateCalls /\ f.at = "both"
  <2>1. futures[c] \in LoadCalls \cup RotateCalls
    BY <1>0, FutureKinds DEF Nests
  <2> QED
    BY <2>1 DEF LoadCalls, RotateCalls
<1>2. futures' = [futures EXCEPT ![c] = f]
  BY DEF Nests
<1>3. PICK lock \in {"kms", "storage"} : locks' = Queued(c, lock)
  BY <1>0 DEF Nests, VaultTypeOK
<1>4. Holds(c, "kms")
  BY DEF Nests, FirstLock
<1>5. OthersHold(c) /\ Holds(c, "kms")'
  BY <1>0, <1>3, <1>4, QueuedHolds
<1>6. futures[c].at # "encrypting"
  BY DEF Nests
<1> HIDE DEF f
<1>7. f \in Futures /\ CallOK(f)
  BY <1>1 DEF Futures, CallOK
<1> QED
  BY <1>0, <1>1, <1>2, <1>5, <1>6, <1>7, OneCallMoves DEF Nests, VaultTypeOK

(* load_session clones the ciphertext and gives the storage lock back.     *)
LEMMA ReadsKept ==
    ASSUME VaultInv, NEW c \in VaultClients, Reads(c)
    PROVE  VaultInv'
<1>0. /\ VaultTypeOK /\ futures[c] \in Futures
      /\ locks \in [{"kms", "storage"} -> Seq(VaultClients)]
  BY DEF VaultInv, VaultTypeOK
<1>1. futures[c] \in LoadCalls /\ futures[c].at = "both" /\ Holds(c, "kms")
  BY <1>0, FutureKinds DEF Reads, HoldsBoth
<1>2. vaultCalls' \in Nat /\ vaultFaults' \in Nat
      /\ jar' \in [VaultClients -> SUBSET Cookies]
      /\ UNCHANGED <<keys, currentKey, storage, saved, jar>>
  BY <1>0 DEF Reads, VaultTypeOK
<1>3. CASE futures[c].sid \notin DOMAIN storage
  BY <1>1, <1>2, <1>3, EndKept DEF Reads
<1>4. CASE futures[c].sid \in DOMAIN storage
  <2> DEFINE f == [op |-> "load", at |-> "decrypt", sid |-> futures[c].sid,
                   ct |-> storage[futures[c].sid]]
  <2>1. futures' = [futures EXCEPT ![c] = f]
    BY <1>4 DEF Reads
  <2>2. storage[futures[c].sid] \in Ciphertexts
    BY <1>0, <1>4 DEF VaultTypeOK
  <2>3. f \in Futures
    BY <1>1, <2>2 DEF Futures, LoadDecrypts, LoadCalls
  <2>4. \A lock \in {"kms", "storage"} :
          locks'[lock] = IF lock = "kms" THEN locks[lock]
                         ELSE Leaving(locks[lock], c)
    BY <1>0, <1>4 DEF Reads, KeptByLoad, Without
  <2>5. Leaving(locks["storage"], c) \in Seq(VaultClients)
    BY <1>0, LeavingKeepsHead
  <2>6. locks' \in [{"kms", "storage"} -> Seq(VaultClients)]
    BY <1>0, <1>4, <2>5 DEF Reads, KeptByLoad, Without
  <2>7. ASSUME NEW d \in VaultClients \ {c}, Holds(d, "storage")
        PROVE  Holds(d, "storage")'
    <3>1. locks["storage"] # << >> /\ Head(locks["storage"]) = d
      BY <2>7 DEF Holds
    <3>2. Leaving(locks["storage"], c) # << >>
          /\ Head(Leaving(locks["storage"], c)) = d
      BY <1>0, <3>1, LeavingKeepsHead
    <3> QED
      BY <2>4, <3>2 DEF Holds
  <2>8. \A d \in VaultClients : Holds(d, "kms") => Holds(d, "kms")'
    BY <2>4 DEF Holds
  <2>9. OthersHold(c) /\ Holds(c, "kms")'
    BY <1>1, <2>6, <2>7, <2>8 DEF OthersHold
  <2>10. CallOK(f) /\ f.at = "decrypt"
    BY <1>4 DEF CallOK
  <2> HIDE DEF f
  <2> QED
    BY <1>1, <1>2, <2>1, <2>3, <2>9, <2>10, OneCallMoves
<1> QED
  BY <1>3, <1>4

(* The decryption ends the work under the KMS lock.                        *)
LEMMA DecryptsKept ==
    ASSUME VaultInv, NEW c \in VaultClients, Decrypts(c)
    PROVE  VaultInv'
<1>0. VaultTypeOK /\ futures[c] \in Futures
  BY DEF VaultInv, VaultTypeOK
<1>1. futures[c] \in LoadDecrypts /\ futures[c].at = "decrypt"
  BY <1>0, FutureKinds DEF Decrypts
<1>2. vaultCalls' \in Nat /\ vaultFaults' \in Nat
      /\ jar' \in [VaultClients -> SUBSET Cookies]
      /\ UNCHANGED <<keys, currentKey, storage, saved, jar>>
  BY <1>0 DEF Decrypts, VaultTypeOK
<1>3. CASE ~ Opens(futures[c].ct)
  BY <1>1, <1>2, <1>3, EndKept DEF Decrypts
<1>4. CASE Opens(futures[c].ct)
  <2> DEFINE f == [op |-> "load", at |-> "cookies", todo |-> futures[c].ct.data]
  <2>1. futures' = [futures EXCEPT ![c] = f] /\ locks' = Without(c)
    BY <1>4 DEF Decrypts
  <2>2. f \in Futures
    BY <1>1 DEF Futures, LoadCookies, LoadDecrypts, Ciphertexts
  <2>3. CallOK(f) /\ f.at = "cookies"
    BY DEF CallOK
  <2>4. OthersHold(c)
    BY <1>0, <2>1, WithoutHolds
  <2> HIDE DEF f
  <2> QED
    BY <1>1, <1>2, <2>1, <2>2, <2>3, <2>4, OneCallMoves DEF UnderKms
<1> QED
  BY <1>3, <1>4

(* load_from_vault sets the cookies without a lock.                        *)
LEMMA SetsCookieKept ==
    ASSUME VaultInv, NEW c \in VaultClients, NEW cookie \in Cookies,
           SetsCookie(c, cookie)
    PROVE  VaultInv'
<1>0. VaultTypeOK /\ futures[c] \in Futures
  BY DEF VaultInv, VaultTypeOK
<1>1. futures[c] \in LoadCookies /\ futures[c].at = "cookies"
  BY <1>0, FutureKinds DEF SetsCookie
<1> DEFINE f == [futures[c] EXCEPT !.todo = @ \ {cookie}]
<1>2. futures' = [futures EXCEPT ![c] = f]
  BY DEF SetsCookie
<1>3. f \in LoadCookies /\ f.at = "cookies"
  BY <1>1 DEF LoadCookies
<1>4. jar' \in [VaultClients -> SUBSET Cookies]
  BY <1>0 DEF SetsCookie, VaultTypeOK
<1> HIDE DEF f
<1>5. f \in Futures /\ CallOK(f)
  BY <1>3 DEF Futures, CallOK
<1>6. OthersHold(c)
  BY <1>0 DEF SetsCookie, OthersHold, VaultTypeOK, Holds
<1>7. /\ vaultCalls' \in Nat /\ vaultFaults' \in Nat
      /\ UNCHANGED <<keys, currentKey, storage, saved>>
  BY <1>0 DEF SetsCookie, VaultTypeOK
<1> QED
  BY <1>1, <1>2, <1>3, <1>4, <1>5, <1>6, <1>7, OneCallMoves DEF UnderKms

(* rotate_key_secret fills its replacement map, one await at a time.       *)
LEMMA ReEncryptsKept ==
    ASSUME VaultInv, NEW c \in VaultClients, NEW sid \in SessionIds,
           ReEncrypts(c, sid)
    PROVE  VaultInv'
<1>0. VaultTypeOK /\ futures[c] \in Futures
  BY DEF VaultInv, VaultTypeOK
<1>1. futures[c] \in RotateRuns /\ futures[c].at = "encrypting"
  BY <1>0, FutureKinds DEF ReEncrypts
<1>2. /\ RotationUnderWay(futures[c])
      /\ Holds(c, "kms")
  BY <1>1 DEF VaultInv, CallsOK, CallOK, KmsExcludes, UnderKms
<1>3. /\ sid \in DOMAIN storage
      /\ currentKey = futures[c].id
      /\ futures[c].id \in DOMAIN keys
  BY <1>2 DEF ReEncrypts, RotationUnderWay, KeysAre
<1> DEFINE ct == Ciphertext(storage[sid].data, currentKey)
           done == With(futures[c].done, sid, ct)
           f == [futures[c] EXCEPT !.done = done]
<1>4. futures' = [futures EXCEPT ![c] = f]
  BY DEF ReEncrypts
<1>5. ct \in Ciphertexts
  <2>1. storage[sid] \in Ciphertexts /\ keys[currentKey] \in KeyBytes
        /\ currentKey \in KeyIds
    BY <1>0, <1>3 DEF VaultTypeOK
  <2> QED
    BY <2>1 DEF Ciphertext, Ciphertexts
<1>6. done \in UNION {[S -> Ciphertexts] : S \in SUBSET SessionIds}
  <2>1. PICK S \in SUBSET SessionIds : futures[c].done \in [S -> Ciphertexts]
    BY <1>1 DEF RotateRuns
  <2>2. done \in [S \cup {sid} -> Ciphertexts]
    BY <1>5, <2>1 DEF With
  <2> HIDE DEF done
  <2> QED
    BY <2>2
<1>7. f \in RotateRuns /\ f.at = "encrypting"
  <2> HIDE DEF done
  <2> QED
    BY <1>1, <1>6 DEF RotateRuns
<1>8. RotationUnderWay(f)
  <2>1. /\ DOMAIN done = DOMAIN futures[c].done \cup {sid}
        /\ \A s \in DOMAIN done :
             done[s] = IF s = sid THEN ct ELSE futures[c].done[s]
    BY DEF With
  <2>2. /\ f.previous = futures[c].previous /\ f.id = futures[c].id
        /\ f.retired = futures[c].retired /\ f.done = done
    BY <1>1 DEF RotateRuns
  <2>3. ct = Ciphertext(storage[sid].data, futures[c].id)
    BY <1>3
  <2>4. DOMAIN done \subseteq DOMAIN storage
    BY <1>2, <1>3, <2>1 DEF RotationUnderWay
  <2>5. \A s \in DOMAIN done : done[s] = Ciphertext(storage[s].data, futures[c].id)
    <3> HIDE DEF ct, done
    <3> QED
      BY <1>2, <2>1, <2>3 DEF RotationUnderWay
  <2> HIDE DEF done, f
  <2> QED
    BY <1>2, <2>2, <2>4, <2>5 DEF RotationUnderWay, KeysAre
<1> HIDE DEF f
<1>9. f \in Futures /\ CallOK(f)
  BY <1>7, <1>8 DEF Futures, CallOK
<1>10. OthersHold(c) /\ Holds(c, "kms")'
  BY <1>0, <1>2 DEF ReEncrypts, OthersHold, VaultTypeOK, Holds
<1>11. /\ vaultCalls' \in Nat /\ vaultFaults' \in Nat
       /\ jar' \in [VaultClients -> SUBSET Cookies]
       /\ UNCHANGED <<keys, currentKey, storage, saved>>
  BY <1>0 DEF ReEncrypts, VaultTypeOK
<1> QED
  BY <1>1, <1>4, <1>7, <1>9, <1>10, <1>11, OneCallMoves

-----------------------------------------------------------------------------
(* Steps that change keys or sessions are taken under the KMS lock: no     *)
(* other call has a result that could become stale.                        *)
LEMMA OnlyHolder ==
    ASSUME VaultInv, NEW c \in VaultClients, futures[c].at \in UnderKms
    PROVE  \A d \in VaultClients \ {c} : futures[d].at \notin UnderKms
BY OneHolder DEF VaultInv, KmsExcludes

(* When the call under the KMS lock ends, no call is under it.              *)
LEMMA HolderEnds ==
    ASSUME VaultInv, NEW c \in VaultClients, futures[c].at \in UnderKms, Ends(c)
    PROVE  /\ futures' \in [VaultClients -> Futures]
           /\ locks' \in [{"kms", "storage"} -> Seq(VaultClients)]
           /\ \A d \in VaultClients : futures'[d].at \notin UnderKms
           /\ KmsExcludes' /\ CallsOK'
<1>0. VaultTypeOK /\ futures \in [VaultClients -> Futures]
  BY DEF VaultInv, VaultTypeOK
<1>1. NoFuture \in Futures /\ NoFuture.at = "idle"
  BY DEF Futures, NoFuture
<1>2. /\ futures' \in [VaultClients -> Futures]
      /\ \A d \in VaultClients : futures'[d] = IF d = c THEN NoFuture ELSE futures[d]
  BY <1>0, <1>1 DEF Ends
<1>3. locks' \in [{"kms", "storage"} -> Seq(VaultClients)]
  BY <1>0, WithoutHolds DEF Ends, OthersHold
<1>4. \A d \in VaultClients : futures'[d].at \notin UnderKms
  BY <1>1, <1>2, OnlyHolder DEF UnderKms
<1>5. KmsExcludes' /\ CallsOK'
  BY <1>4 DEF KmsExcludes, CallsOK, CallOK, UnderKms
<1> QED
  BY <1>2, <1>3, <1>4, <1>5

(* store_session inserts while it still holds the KMS lock it encrypted    *)
(* under.                                                                  *)
LEMMA InsertsKept ==
    ASSUME VaultInv, NEW c \in VaultClients, Inserts(c)
    PROVE  VaultInv'
<1>0. VaultTypeOK /\ futures[c] \in Futures
  BY DEF VaultInv, VaultTypeOK
<1>1. futures[c] \in StoreInserts /\ futures[c].at = "insert"
  BY <1>0, FutureKinds DEF Inserts
<1> DEFINE sid == futures[c].sid
           ct == futures[c].ct
<1>2. /\ sid \in SessionIds /\ ct \in Ciphertexts /\ ct.data \in SUBSET Cookies
      /\ ct.key = currentKey /\ Opens(ct)
  BY <1>1 DEF StoreInserts, Ciphertexts, VaultInv, CallsOK, CallOK
<1>3. /\ storage' = With(storage, sid, ct)
      /\ saved' = With(saved, sid, ct.data)
      /\ UNCHANGED <<keys, currentKey, jar, vaultCalls, vaultFaults>>
      /\ Ends(c)
  BY DEF Inserts
<1> HIDE DEF sid, ct
<1>4. futures[c].at \in UnderKms /\ Holds(c, "kms")
  BY <1>1 DEF UnderKms, VaultInv, KmsExcludes
<1>5. SessionsStayReadable
  BY DEF VaultInv
<1>6. /\ DOMAIN storage' = DOMAIN storage \cup {sid}
      /\ DOMAIN saved' = DOMAIN saved \cup {sid}
      /\ \A s \in DOMAIN storage' :
           /\ storage'[s] = IF s = sid THEN ct ELSE storage[s]
           /\ saved'[s] = IF s = sid THEN ct.data ELSE saved[s]
  BY <1>3, <1>5 DEF SessionsStayReadable, With
<1>7. VaultTypeOK'
  <2>1. PICK S \in SUBSET SessionIds : storage \in [S -> Ciphertexts]
    BY <1>0 DEF VaultTypeOK
  <2>2. storage' \in [S \cup {sid} -> Ciphertexts]
    BY <1>2, <1>3, <2>1 DEF With
  <2>4. storage' \in UNION {[T -> Ciphertexts] : T \in SUBSET SessionIds}
    BY <1>2, <2>2
  <2>3. saved' \in [DOMAIN storage' -> SUBSET Cookies]
    <3>1. saved \in [DOMAIN storage -> SUBSET Cookies]
      BY <1>0 DEF VaultTypeOK
    <3>2. saved' \in [DOMAIN storage \cup {sid} -> SUBSET Cookies]
      BY <1>2, <1>3, <3>1 DEF With
    <3> QED
      BY <1>6, <3>2
  <2> QED
    BY <1>0, <1>3, <1>4, <2>3, <2>4, HolderEnds DEF VaultTypeOK
<1>8. SessionsStayReadable'
  BY <1>2, <1>3, <1>5, <1>6 DEF SessionsStayReadable, Opens
<1>9. KeysBetweenRotations'
  <2>1. KeysAre(currentKey, {})
    BY <1>1, <1>4, NoneRotates
  <2> QED
    BY <1>2, <1>3, <1>6, <2>1 DEF KeysBetweenRotations, KeysAre
<1> QED
  BY <1>3, <1>4, <1>7, <1>8, <1>9, HolderEnds DEF VaultInv

(* A dropped or failing rotation: KeyRotationGuard puts the old key back.  *)
LEMMA RollbackKept ==
    ASSUME VaultInv, NEW c \in VaultClients, Dropped(c),
           futures[c].at = "encrypting"
    PROVE  VaultInv'
<1>0. VaultTypeOK /\ futures[c] \in Futures
  BY DEF VaultInv, VaultTypeOK
<1>1. RotationUnderWay(futures[c]) /\ futures[c] \in RotateRuns
  BY <1>0, FutureKinds DEF VaultInv, CallsOK, CallOK
<1> DEFINE old == futures[c].previous
           new == futures[c].id
<1>2. /\ KeysAre(old, {new}) /\ new \notin SpareKeys /\ new # old
      /\ old \in KeyIds /\ new \in KeyIds
  BY <1>1 DEF RotationUnderWay, RotateRuns
<1>3. /\ currentKey' = old
      /\ keys' = [k \in DOMAIN keys \ {new} |-> keys[k]]
      /\ UNCHANGED <<storage, jar, saved, vaultCalls>>
      /\ Ends(c) /\ vaultFaults' = vaultFaults + 1
  BY <1>2 DEF Dropped, RollsBack, VaultFault, KeysAre
<1> HIDE DEF old, new
<1>4. futures[c].at \in UnderKms
  BY DEF UnderKms
<1>5. VaultTypeOK'
  <2>1. PICK S \in SUBSET KeyIds : keys \in [S -> KeyBytes]
    BY <1>0 DEF VaultTypeOK
  <2>2. keys' \in [S \ {new} -> KeyBytes]
    BY <1>3, <2>1
  <2>3. keys' \in UNION {[T -> KeyBytes] : T \in SUBSET KeyIds}
    BY <2>2
  <2>4. /\ currentKey' \in KeyIds /\ vaultCalls' \in Nat /\ vaultFaults' \in Nat
        /\ storage' \in UNION {[T -> Ciphertexts] : T \in SUBSET SessionIds}
        /\ jar' \in [VaultClients -> SUBSET Cookies]
        /\ saved' \in [DOMAIN storage' -> SUBSET Cookies]
    BY <1>0, <1>2, <1>3 DEF VaultTypeOK
  <2>5. /\ futures' \in [VaultClients -> Futures]
        /\ locks' \in [{"kms", "storage"} -> Seq(VaultClients)]
    BY <1>3, <1>4, HolderEnds
  <2> QED
    BY <2>3, <2>4, <2>5 DEF VaultTypeOK
<1>6. SessionsStayReadable'
  BY <1>2, <1>3 DEF VaultInv, SessionsStayReadable, KeysAre, Opens
<1>7. KeysBetweenRotations'
  BY <1>2, <1>3 DEF KeysBetweenRotations, KeysAre
<1> QED
  BY <1>3, <1>4, <1>5, <1>6, <1>7, HolderEnds DEF VaultInv

(* Commit and the swap of the storage: every session is under the new key  *)
(* before the old one goes.                                                *)
LEMMA CommitsKept ==
    ASSUME VaultInv, NEW c \in VaultClients, Commits(c)
    PROVE  VaultInv'
<1>0. VaultTypeOK /\ futures[c] \in Futures
  BY DEF VaultInv, VaultTypeOK
<1>1. /\ futures[c].at = "encrypting" /\ futures[c] \in RotateRuns
      /\ RotationUnderWay(futures[c])
  BY <1>0, FutureKinds DEF Commits, VaultInv, CallsOK, CallOK
<1> DEFINE old == futures[c].previous
           new == futures[c].id
           done == futures[c].done
<1>2. /\ KeysAre(old, {new}) /\ new \notin SpareKeys /\ new # old
      /\ currentKey = new /\ Retired(futures[c]) = {old}
      /\ DOMAIN done = DOMAIN storage
      /\ \A sid \in DOMAIN done : done[sid] = Ciphertext(storage[sid].data, new)
      /\ done \in UNION {[S -> Ciphertexts] : S \in SUBSET SessionIds}
  BY <1>1 DEF RotationUnderWay, RotateRuns, Retired, Commits, Replacement
<1>3. /\ keys' = [k \in DOMAIN keys \ {old} |-> keys[k]]
      /\ storage' = done
      /\ UNCHANGED <<currentKey, jar, saved, vaultCalls, vaultFaults>>
      /\ Ends(c)
  BY <1>2 DEF Commits
<1> HIDE DEF old, new, done
<1>4. futures[c].at \in UnderKms
  BY <1>1 DEF UnderKms
<1>5. VaultTypeOK'
  <2>1. PICK S \in SUBSET KeyIds : keys \in [S -> KeyBytes]
    BY <1>0 DEF VaultTypeOK
  <2>2. keys' \in [S \ {old} -> KeyBytes]
    BY <1>3, <2>1
  <2>3. saved' \in [DOMAIN storage' -> SUBSET Cookies]
    BY <1>0, <1>2, <1>3 DEF VaultTypeOK
  <2> QED
    BY <1>0, <1>2, <1>3, <1>4, <2>2, <2>3, HolderEnds DEF VaultTypeOK
<1>6. \A sid \in DOMAIN storage' :
        /\ storage'[sid].data = storage[sid].data
        /\ storage'[sid].key = new
        /\ storage'[sid].bytes = keys[new]
  BY <1>2, <1>3 DEF Ciphertext
<1>7. new \in DOMAIN keys' /\ keys'[new] = keys[new]
      /\ DOMAIN keys' = SpareKeys \cup {new}
  BY <1>2, <1>3 DEF KeysAre
<1>8. SessionsStayReadable'
  BY <1>2, <1>3, <1>6, <1>7 DEF VaultInv, SessionsStayReadable, Opens
<1>9. KeysBetweenRotations'
  BY <1>2, <1>3, <1>6, <1>7 DEF KeysBetweenRotations, KeysAre
<1> QED
  BY <1>3, <1>4, <1>5, <1>8, <1>9, HolderEnds DEF VaultInv

(* The new key is staged beside the old one, which opens everything still. *)
LEMMA StagesKept ==
    ASSUME VaultInv, NEW c \in VaultClients, Stages(c)
    PROVE  VaultInv'
<1>0. VaultTypeOK /\ futures[c] \in Futures /\ futures \in [VaultClients -> Futures]
  BY DEF VaultInv, VaultTypeOK
<1>1. /\ futures[c] \in RotateCalls /\ futures[c].at = "both"
      /\ Holds(c, "kms") /\ futures[c].at \in UnderKms
  BY <1>0, FutureKinds DEF Stages, HoldsBoth, UnderKms
<1>2. KeysAre(currentKey, {})
  BY <1>1, NoneRotates
<1>3. UNCHANGED <<storage, jar, saved, vaultCalls, vaultFaults>>
  BY DEF Stages
<1>4. CASE Ends(c) /\ UNCHANGED <<keys, currentKey>>
  BY <1>0, <1>1, <1>3, <1>4, EndKept DEF VaultTypeOK
<1>5. CASE ~ (Ends(c) /\ UNCHANGED <<keys, currentKey>>)
  <2>0. PICK f : f = [op |-> "rotate", at |-> "encrypting", id |-> futures[c].id,
                      previous |-> currentKey, done |-> << >>,
                      retired |-> {currentKey}
                                  \cup {storage[s].key : s \in DOMAIN storage}]
    OBVIOUS
  <2>1. PICK id, bytes : /\ id = futures[c].id /\ bytes = futures[c].bytes
                         /\ id \notin DOMAIN keys /\ keys' = With(keys, id, bytes)
                         /\ currentKey' = id /\ locks' = locks
                         /\ futures' = [futures EXCEPT ![c] = f]
    BY <1>5, <2>0 DEF Stages
  <2>2. id \in KeyIds /\ bytes \in KeyBytes
    BY <1>1, <2>1 DEF RotateCalls
  <2>3. {currentKey} \cup {storage[s].key : s \in DOMAIN storage} = {currentKey}
    BY <1>2 DEF KeysAre
  <2>4. << >> \in [{} -> Ciphertexts] /\ DOMAIN << >> = {}
    OBVIOUS
  <2>5. f \in RotateRuns
    <3>1. currentKey \in KeyIds
      BY <1>0 DEF VaultTypeOK
    <3>2. << >> \in UNION {[S -> Ciphertexts] : S \in SUBSET SessionIds}
      BY <2>4
    <3> QED
      BY <2>0, <2>1, <2>2, <2>3, <3>1, <3>2 DEF RotateRuns
  <2>6. /\ DOMAIN keys' = DOMAIN keys \cup {id}
        /\ \A k \in DOMAIN keys : keys'[k] = keys[k]
    BY <2>1 DEF With
  <2>7. /\ f.at = "encrypting" /\ f.id = id /\ f.previous = currentKey
        /\ f.done = << >> /\ f.retired = {currentKey}
    BY <2>0, <2>1, <2>3
  <2>8. /\ futures' \in [VaultClients -> Futures]
        /\ futures'[c] = f
        /\ \A d \in VaultClients \ {c} : futures'[d] = futures[d]
    BY <1>0, <2>1, <2>5 DEF Futures
  <2>9. VaultTypeOK'
    <3>1. PICK S \in SUBSET KeyIds : keys \in [S -> KeyBytes]
      BY <1>0 DEF VaultTypeOK
    <3>2. keys' \in [S \cup {id} -> KeyBytes]
      BY <2>1, <2>2, <3>1 DEF With
    <3>3. keys' \in UNION {[T -> KeyBytes] : T \in SUBSET KeyIds}
      BY <2>2, <3>2
    <3> QED
      BY <1>0, <1>3, <2>1, <2>2, <2>8, <3>3 DEF VaultTypeOK
  <2>10. \A d \in VaultClients \ {c} : futures'[d].at \notin UnderKms
    BY <1>1, <2>8, OnlyHolder
  <2>11. KmsExcludes'
    BY <1>1, <2>1, <2>10 DEF KmsExcludes, Holds
  <2>12. SessionsStayReadable'
    BY <1>2, <1>3, <2>6 DEF VaultInv, SessionsStayReadable, Opens
  <2>13. KeysBetweenRotations'
    BY <2>7, <2>8 DEF KeysBetweenRotations
  <2>14. RotationUnderWay(f)'
    <3>1. /\ DOMAIN keys' = SpareKeys \cup {f.previous} \cup {f.id}
          /\ f.previous \notin SpareKeys /\ f.id \notin SpareKeys
          /\ f.id # f.previous
          /\ \A sid \in DOMAIN storage' : storage'[sid].key = f.previous
      BY <1>2, <1>3, <2>1, <2>6, <2>7 DEF KeysAre
    <3>2. DOMAIN f.done = {}
      BY <2>4, <2>7
    <3> QED
      BY <2>1, <2>7, <3>1, <3>2 DEF RotationUnderWay, KeysAre
  <2>15. CallsOK'
    <3>1. CallOK(f)'
      BY <2>7, <2>14 DEF CallOK
    <3>2. CallOK(futures[c])'
      BY <2>8, <3>1 DEF CallOK, RotationUnderWay, KeysAre, Ciphertext, Opens
    <3>3. \A d \in VaultClients \ {c} : CallOK(futures[d])'
      BY <2>10 DEF CallOK, UnderKms
    <3> QED
      BY <3>2, <3>3 DEF CallsOK
  <2> QED
    BY <2>9, <2>11, <2>12, <2>13, <2>15 DEF VaultInv
<1> QED
  BY <1>4, <1>5

-----------------------------------------------------------------------------
(* A vault starts empty, with its first key and the spare ones.            *)
LEMMA VaultInvInit == VaultInit => VaultInv
<1> SUFFICES ASSUME VaultInit PROVE VaultInv
  OBVIOUS
<1>1. PICK id \in KeyIds \ SpareKeys, first \in KeyBytes, spare \in KeyBytes :
        /\ currentKey = id
        /\ keys = [k \in SpareKeys \cup {id} |-> IF k = id THEN first ELSE spare]
  BY DEF VaultInit
<1>2. DOMAIN storage = {} /\ DOMAIN saved = {} /\ storage = << >> /\ saved = << >>
  BY DEF VaultInit
<1>3. NoFuture \in Futures /\ NoFuture.at = "idle"
  BY DEF Futures, NoFuture
<1>4. futures \in [VaultClients -> Futures]
      /\ \A c \in VaultClients : futures[c] = NoFuture
  BY <1>3 DEF VaultInit
<1>5. VaultTypeOK
  <2>1. keys \in [SpareKeys \cup {id} -> KeyBytes]
    BY <1>1
  <2>2. keys \in UNION {[S -> KeyBytes] : S \in SUBSET KeyIds}
    BY <2>1, VaultAssumption
  <2>3. storage \in [{} -> Ciphertexts] /\ saved \in [DOMAIN storage -> SUBSET Cookies]
    BY <1>2
  <2>4. storage \in UNION {[S -> Ciphertexts] : S \in SUBSET SessionIds}
    BY <2>3
  <2>5. << >> \in Seq(VaultClients)
    OBVIOUS
  <2>6. locks \in [{"kms", "storage"} -> Seq(VaultClients)]
    BY <2>5 DEF VaultInit
  <2>7. jar \in [VaultClients -> SUBSET Cookies] /\ vaultCalls \in Nat /\ vaultFaults \in Nat
    BY DEF VaultInit
  <2>8. currentKey \in KeyIds
    BY <1>1
  <2> QED
    BY <1>4, <2>2, <2>3, <2>4, <2>6, <2>7, <2>8 DEF VaultTypeOK
<1>6. KmsExcludes /\ CallsOK
  BY <1>3, <1>4 DEF KmsExcludes, CallsOK, CallOK, UnderKms
<1>7. SessionsStayReadable
  BY <1>2 DEF SessionsStayReadable
<1>8. KeysBetweenRotations
  BY <1>1, <1>2 DEF KeysBetweenRotations, KeysAre
<1> QED
  BY <1>5, <1>6, <1>7, <1>8 DEF VaultInv

(* A future is dropped, or fails at an await.                              *)
LEMMA DroppedKept ==
    ASSUME VaultInv, NEW c \in VaultClients, Dropped(c)
    PROVE  VaultInv'
<1>1. CASE futures[c].at = "encrypting"
  BY <1>1, RollbackKept
<1>2. CASE futures[c].at # "encrypting"
  <2>1. vaultCalls' \in Nat /\ vaultFaults' \in Nat
    BY DEF Dropped, VaultFault, VaultInv, VaultTypeOK
  <2> QED
    BY <1>2, <2>1, EndKept DEF Dropped, RollsBack
<1> QED
  BY <1>1, <1>2

(* load_from_vault has set every cookie.                                   *)
LEMMA RestoredKept ==
    ASSUME VaultInv, NEW c \in VaultClients, Restored(c)
    PROVE  VaultInv'
<1>1. vaultCalls' \in Nat /\ vaultFaults' \in Nat
  BY DEF Restored, VaultInv, VaultTypeOK
<1> QED
  BY <1>1, EndKept DEF Restored

(* What save_to_vault, load_from_vault and rotate_key ask for.             *)
LEMMA CallKinds ==
    ASSUME VaultInv, NEW c \in VaultClients
    PROVE  /\ \A sid \in SessionIds :
                /\ [op |-> "store", at |-> "locks", sid |-> sid, data |-> jar[c]]
                     \in StoreCalls
                /\ [op |-> "load", at |-> "locks", sid |-> sid] \in LoadCalls
           /\ \A id \in KeyIds, bytes \in KeyBytes :
                [op |-> "rotate", at |-> "locks", id |-> id, bytes |-> bytes]
                  \in RotateCalls
<1>1. jar[c] \in SUBSET Cookies
  BY DEF VaultInv, VaultTypeOK
<1> QED
  BY <1>1 DEF StoreCalls, LoadCalls, RotateCalls

(* Every step keeps the invariant.                                          *)
LEMMA VaultInvStep == VaultInv /\ [VaultNext]_vaultVars => VaultInv'
<1> SUFFICES ASSUME VaultInv, [VaultNext]_vaultVars PROVE VaultInv'
  OBVIOUS
<1>1. CASE UNCHANGED vaultVars
  <2>1. VaultTypeOK'
    BY <1>1 DEF vaultVars, VaultInv, VaultTypeOK
  <2>2. KmsExcludes' /\ SessionsStayReadable'
    BY <1>1 DEF vaultVars, VaultInv, KmsExcludes, SessionsStayReadable, Holds, Opens
  <2>3. KeysBetweenRotations'
    BY <1>1 DEF vaultVars, VaultInv, KeysBetweenRotations, KeysAre, RotationUnderWay, Holds
  <2>4. CallsOK'
    <3>1. \A c \in VaultClients : CallOK(futures[c])' <=> CallOK(futures[c])
      <4>1. \A f : RotationUnderWay(f)' <=> RotationUnderWay(f)
        BY <1>1 DEF vaultVars, RotationUnderWay, KeysAre, Ciphertext
      <4>2. \A ct : Opens(ct)' <=> Opens(ct)
        BY <1>1 DEF vaultVars, Opens, Holds
      <4>3. futures' = futures /\ currentKey' = currentKey /\ storage' = storage
        BY <1>1 DEF vaultVars
      <4> QED BY <4>1, <4>2, <4>3 DEF CallOK
    <3> QED BY <3>1 DEF VaultInv, CallsOK
  <2> QED BY <2>1, <2>2, <2>3, <2>4 DEF VaultInv
<1>2. ASSUME NEW c \in VaultClients, NEW sid \in SessionIds,
             SaveToVault(c, sid) \/ LoadFromVault(c, sid)
      PROVE  VaultInv'
  BY <1>2, CallKinds, CallsKept DEF SaveToVault, LoadFromVault
<1>3. ASSUME NEW c \in VaultClients, NEW id \in KeyIds, NEW bytes \in KeyBytes,
             RotateKey(c, id, bytes)
      PROVE  VaultInv'
  BY <1>3, CallKinds, CallsKept DEF RotateKey
<1>4. ASSUME NEW c \in VaultClients, VaultStep(c)
      PROVE  VaultInv'
  BY <1>4, EncryptsKept, InsertsKept, NestsKept, ReadsKept, DecryptsKept,
     RestoredKept, StagesKept, CommitsKept, SetsCookieKept, ReEncryptsKept
     DEF VaultStep
<1> QED
  BY <1>1, <1>2, <1>3, <1>4, DroppedKept DEF VaultNext

(* The inductive invariant of the vault holds in every behaviour, however  *)
(* saves, loads and rotations interleave, fail or are dropped.             *)
THEOREM VaultInvariant == VaultSpec => []VaultInv
BY VaultInvInit, VaultInvStep, PTL DEF VaultSpec

(* session_vault.rs loses no session and no key: what is stored opens to   *)
(* what was last saved, a load that has read a ciphertext will decrypt the *)
(* current session, and a rotation is committed whole or leaves no trace.  *)
THEOREM SessionsKept == VaultSpec => []VaultKeepsSessions
<1>1. VaultInv => VaultKeepsSessions
  <2> SUFFICES ASSUME VaultInv PROVE VaultKeepsSessions
    OBVIOUS
  <2>1. SessionsStayReadable
    BY DEF VaultInv
  <2>2. LoadsAreCurrent
    BY <2>1 DEF VaultInv, CallsOK, CallOK, LoadsAreCurrent, SessionsStayReadable
  <2>3. RotationIsAllOrNothing
    BY DEF VaultInv, KeysBetweenRotations, KeysAre, RotationIsAllOrNothing
  <2> QED
    BY <2>1, <2>2, <2>3 DEF VaultKeepsSessions
<1> QED
  BY <1>1, VaultInvariant, PTL

-----------------------------------------------------------------------------
(* Refinement.  Under the invariant the mapped store holds exactly what    *)
(* was last saved, so a step is compared with one of SessionStore through  *)
(* saved and through the call it moves.                                    *)
SavedContents == [sid \in DOMAIN storage |-> Plaintext(storage[sid])]
Pending == [c \in VaultClients |-> CallOf(futures[c])]

(* What the vault decrypts to is what was last stored.                      *)
LEMMA ContentsAreSaved == VaultInv => SavedContents = saved
<1> SUFFICES ASSUME VaultInv PROVE SavedContents = saved
  OBVIOUS
<1>1. saved \in [DOMAIN storage -> SUBSET Cookies]
  BY DEF VaultInv, VaultTypeOK
<1>2. \A sid \in DOMAIN storage : Plaintext(storage[sid]) = saved[sid]
  BY DEF VaultInv, SessionsStayReadable, Plaintext
<1> QED
  BY <1>1, <1>2 DEF SavedContents

(* What each kind of call looks like from outside.                         *)
LEMMA CallOfKinds ==
    ASSUME NEW f
    PROVE  /\ f = NoFuture => CallOf(f) = [op |-> "none"]
           /\ f \in StoreCalls =>
                CallOf(f) = [op |-> "save", sid |-> f.sid, data |-> f.data]
           /\ f \in StoreInserts =>
                CallOf(f) = [op |-> "save", sid |-> f.sid, data |-> f.ct.data]
           /\ f \in LoadCalls \cup LoadDecrypts =>
                CallOf(f) = [op |-> "load", sid |-> f.sid]
           /\ f \in LoadCookies => CallOf(f) = [op |-> "restore", todo |-> f.todo]
           /\ f \in RotateCalls \cup RotateRuns => CallOf(f) = [op |-> "none"]
<1>1. CASE f = NoFuture
  BY <1>1 DEF CallOf, NoFuture, StoreCalls, StoreInserts, LoadCalls, LoadDecrypts,
              LoadCookies, RotateCalls, RotateRuns
<1>2. f \in StoreCalls => CallOf(f) = [op |-> "save", sid |-> f.sid, data |-> f.data]
  BY DEF CallOf, StoreCalls
<1>3. f \in StoreInserts =>
        CallOf(f) = [op |-> "save", sid |-> f.sid, data |-> f.ct.data]
  BY DEF CallOf, StoreInserts
<1>4. f \in LoadCalls \cup LoadDecrypts => CallOf(f) = [op |-> "load", sid |-> f.sid]
  BY DEF CallOf, LoadCalls, LoadDecrypts
<1>5. f \in LoadCookies => CallOf(f) = [op |-> "restore", todo |-> f.todo]
  BY DEF CallOf, LoadCookies
<1>6. f \in RotateCalls \cup RotateRuns => CallOf(f) = [op |-> "none"]
  BY DEF CallOf, RotateCalls, RotateRuns
<1>7. f = NoFuture => CallOf(f) = [op |-> "none"]
  BY DEF CallOf, NoFuture
<1> QED
  BY <1>2, <1>3, <1>4, <1>5, <1>6, <1>7

(* A step of one call is a step of that call outside, or none.             *)
LEMMA PendingStep ==
    ASSUME VaultInv, NEW c \in VaultClients, NEW f,
           futures' = [futures EXCEPT ![c] = f]
    PROVE  /\ Pending[c] = CallOf(futures[c])
           /\ Pending' = [Pending EXCEPT ![c] = CallOf(f)]
           /\ CallOf(f) = CallOf(futures[c]) => Pending' = Pending
<1>1. futures \in [VaultClients -> Futures]
  BY DEF VaultInv, VaultTypeOK
<1>2. \A d \in VaultClients : futures'[d] = IF d = c THEN f ELSE futures[d]
  BY <1>1
<1>3. Pending' = [d \in VaultClients |-> CallOf(futures'[d])]
  BY DEF Pending, CallOf
<1> HIDE DEF Pending
<1>4. Pending = [d \in VaultClients |-> CallOf(futures[d])]
  BY DEF Pending
<1> QED
  BY <1>2, <1>3, <1>4

(* The empty vault is the empty store.                                     *)
LEMMA VaultRefinesInit == VaultInit => Store!StoreInit
<1> SUFFICES ASSUME VaultInit PROVE Store!StoreInit
  OBVIOUS
<1>1. SavedContents = << >>
  <2>1. VaultInv /\ saved = << >>
    BY VaultInvInit DEF VaultInit
  <2> QED
    BY <2>1, ContentsAreSaved
<1>2. Pending = [c \in VaultClients |-> [op |-> "none"]]
  <2>1. \A c \in VaultClients : CallOf(futures[c]) = [op |-> "none"]
    BY CallOfKinds DEF VaultInit
  <2> QED
    BY <2>1 DEF Pending
<1>3. jar \in [VaultClients -> SUBSET Cookies] /\ vaultFaults = 0
  BY DEF VaultInit
<1> QED
  BY <1>1, <1>2, <1>3 DEF Store!StoreInit, Store!NoCall, SavedContents, Pending

(* So it is before and after a step.                                        *)
LEMMA ContentsStep ==
    ASSUME VaultInv, VaultInv'
    PROVE  SavedContents = saved /\ SavedContents' = saved'
<1>1. (VaultInv => SavedContents = saved)'
  BY ContentsAreSaved, PTL
<1> QED
  BY <1>1, ContentsAreSaved

(* Nothing is to be seen of a step that keeps sessions, calls and cookies. *)
LEMMA Unseen ==
    ASSUME VaultInv, VaultInv', Pending' = Pending,
           UNCHANGED <<saved, jar, vaultFaults>>
    PROVE  UNCHANGED Store!storeVars
<1>1. SavedContents' = SavedContents
  BY ContentsStep
<1> QED
  BY <1>1 DEF Store!storeVars, SavedContents, Pending

(* save_to_vault and load_from_vault ask the store.                        *)
LEMMA AskRefines ==
    ASSUME VaultInv, VaultInv', NEW c \in VaultClients, NEW sid \in SessionIds,
           SaveToVault(c, sid) \/ LoadFromVault(c, sid)
    PROVE  Store!Asks(c)
<1>0. /\ futures[c] = NoFuture
      /\ UNCHANGED <<saved, jar, vaultFaults>>
  BY DEF SaveToVault, LoadFromVault, Calls
<1>1. SavedContents' = SavedContents
  BY <1>0, ContentsStep
<1>2. CallOf(futures[c]) = [op |-> "none"]
  BY <1>0, CallOfKinds
<1>3. CASE SaveToVault(c, sid)
  <2> DEFINE f == [op |-> "store", at |-> "locks", sid |-> sid, data |-> jar[c]]
  <2>1. futures' = [futures EXCEPT ![c] = f]
    BY <1>3 DEF SaveToVault, Calls
  <2>2. f \in StoreCalls
    BY CallKinds
  <2>3. CallOf(f) = [op |-> "save", sid |-> sid, data |-> jar[c]]
    BY <2>2, CallOfKinds
  <2>4. /\ Pending[c] = [op |-> "none"]
        /\ Pending' = [Pending EXCEPT ![c] = [op |-> "save", sid |-> sid, data |-> jar[c]]]
    <3> HIDE DEF f
    <3>1. Pending[c] = CallOf(futures[c]) /\ Pending' = [Pending EXCEPT ![c] = CallOf(f)]
      BY <2>1, PendingStep
    <3> QED
      BY <1>2, <2>3, <3>1
  <2> QED
    BY <1>0, <1>1, <2>4 DEF Store!Asks, Store!NoCall, Store!Becomes, SavedContents, Pending
<1>4. CASE LoadFromVault(c, sid)
  <2> DEFINE f == [op |-> "load", at |-> "locks", sid |-> sid]
  <2>1. futures' = [futures EXCEPT ![c] = f]
    BY <1>4 DEF LoadFromVault, Calls
  <2>2. f \in LoadCalls
    BY CallKinds
  <2>3. CallOf(f) = [op |-> "load", sid |-> sid]
    BY <2>2, CallOfKinds
  <2>4. /\ Pending[c] = [op |-> "none"]
        /\ Pending' = [Pending EXCEPT ![c] = [op |-> "load", sid |-> sid]]
    <3> HIDE DEF f
    <3>1. Pending[c] = CallOf(futures[c]) /\ Pending' = [Pending EXCEPT ![c] = CallOf(f)]
      BY <2>1, PendingStep
    <3> QED
      BY <1>2, <2>3, <3>1
  <2> QED
    BY <1>0, <1>1, <2>4 DEF Store!Asks, Store!NoCall, Store!Becomes, SavedContents, Pending
<1> QED
  BY <1>3, <1>4

(* A rotation is asked for, staged and filled in without a trace.          *)
LEMMA RotationUnseen ==
    ASSUME VaultInv, VaultInv', NEW c \in VaultClients,
           \/ \E id \in KeyIds, bytes \in KeyBytes : RotateKey(c, id, bytes)
           \/ Stages(c) \/ Commits(c)
           \/ \E sid \in SessionIds : ReEncrypts(c, sid)
    PROVE  UNCHANGED Store!storeVars
<1>0. /\ futures[c] \in Futures
      /\ UNCHANGED <<saved, jar, vaultFaults>>
  BY DEF RotateKey, Calls, Stages, Commits, ReEncrypts, VaultInv, VaultTypeOK
<1>1. futures \in [VaultClients -> Futures] /\ futures' \in [VaultClients -> Futures]
  BY DEF VaultInv, VaultTypeOK
<1>2. futures[c] = NoFuture \/ futures[c] \in RotateCalls \cup RotateRuns
  BY <1>0, FutureKinds DEF RotateKey, Calls, Stages, HoldsBoth, Commits, ReEncrypts
<1>3. \E f : /\ futures' = [futures EXCEPT ![c] = f]
             /\ f = NoFuture \/ f.op = "rotate"
  <2>1. CASE \E id \in KeyIds, bytes \in KeyBytes : RotateKey(c, id, bytes)
    BY <2>1 DEF RotateKey, Calls
  <2>2. CASE Stages(c)
    BY <2>2 DEF Stages, Ends
  <2>3. CASE Commits(c)
    BY <2>3 DEF Commits, Ends
  <2>4. CASE \E sid \in SessionIds : ReEncrypts(c, sid)
    <3>1. futures[c] \in RotateRuns
      BY <1>0, <2>4, FutureKinds DEF ReEncrypts
    <3>2. PICK sid \in SessionIds : ReEncrypts(c, sid)
      BY <2>4
    <3>3. PICK d : futures' = [futures EXCEPT ![c] = [futures[c] EXCEPT !.done = d]]
      BY <3>2 DEF ReEncrypts
    <3>4. [futures[c] EXCEPT !.done = d].op = "rotate"
      BY <3>1 DEF RotateRuns
    <3> QED
      BY <3>3, <3>4
  <2> QED
    BY <2>1, <2>2, <2>3, <2>4
<1>4. PICK f : /\ futures' = [futures EXCEPT ![c] = f]
               /\ f = NoFuture \/ f.op = "rotate"
  BY <1>3
<1>5. CallOf(f) = [op |-> "none"]
  BY <1>4 DEF CallOf, NoFuture
<1>6. CallOf(futures[c]) = [op |-> "none"]
  BY <1>2, CallOfKinds
<1> QED
  BY <1>0, <1>4, <1>5, <1>6, PendingStep, Unseen

(* Encrypting, and waiting for the second lock, change nothing outside.    *)
LEMMA WaitUnseen ==
    ASSUME VaultInv, VaultInv', NEW c \in VaultClients, Encrypts(c) \/ Nests(c)
    PROVE  UNCHANGED Store!storeVars
<1>0. /\ futures[c] \in Futures
      /\ UNCHANGED <<saved, jar, vaultFaults>>
  BY DEF Encrypts, Nests, VaultInv, VaultTypeOK
<1>1. CASE Encrypts(c)
  <2> DEFINE f == [op |-> "store", at |-> "insert", sid |-> futures[c].sid,
                   ct |-> Ciphertext(futures[c].data, currentKey)]
  <2>1. futures' = [futures EXCEPT ![c] = f]
    BY <1>1 DEF Encrypts
  <2>2. futures[c] \in StoreCalls
    BY <1>0, <1>1, FutureKinds DEF Encrypts
  <2>3. CallOf(f) = [op |-> "save", sid |-> futures[c].sid, data |-> futures[c].data]
    BY DEF CallOf, Ciphertext
  <2>4. CallOf(futures[c]) = CallOf(f)
    BY <2>2, <2>3, CallOfKinds
  <2> HIDE DEF f
  <2> QED
    BY <1>0, <2>1, <2>4, PendingStep, Unseen
<1>2. CASE Nests(c)
  <2> DEFINE f == [futures[c] EXCEPT !.at = "both"]
  <2>1. futures' = [futures EXCEPT ![c] = f]
    BY <1>2 DEF Nests
  <2>2. futures[c] \in LoadCalls \cup RotateCalls
    BY <1>0, <1>2, FutureKinds DEF Nests
  <2>3. \/ futures[c] \in LoadCalls /\ f \in LoadCalls /\ f.sid = futures[c].sid
        \/ futures[c] \in RotateCalls /\ f \in RotateCalls
    BY <2>2 DEF LoadCalls, RotateCalls
  <2> HIDE DEF f
  <2>4. CallOf(futures[c]) = CallOf(f)
    BY <2>3, CallOfKinds
  <2> QED
    BY <1>0, <2>1, <2>4, PendingStep, Unseen
<1> QED
  BY <1>1, <1>2

(* The insertion is where a save takes effect.                             *)
LEMMA InsertRefines ==
    ASSUME VaultInv, VaultInv', NEW c \in VaultClients, Inserts(c)
    PROVE  Store!Saves(c)
<1>0. futures[c] \in Futures /\ UNCHANGED <<jar, vaultFaults>>
  BY DEF Inserts, VaultInv, VaultTypeOK
<1>1. futures[c] \in StoreInserts
  BY <1>0, FutureKinds DEF Inserts
<1>2. /\ CallOf(futures[c]) = [op |-> "save", sid |-> futures[c].sid,
                               data |-> futures[c].ct.data]
      /\ CallOf(NoFuture) = [op |-> "none"]
  BY <1>1, CallOfKinds
<1>3. futures' = [futures EXCEPT ![c] = NoFuture]
  BY DEF Inserts, Ends
<1>4. /\ Pending[c] = [op |-> "save", sid |-> futures[c].sid,
                       data |-> futures[c].ct.data]
      /\ Pending' = [Pending EXCEPT ![c] = [op |-> "none"]]
  <2>1. /\ Pending[c] = CallOf(futures[c])
        /\ Pending' = [Pending EXCEPT ![c] = CallOf(NoFuture)]
    BY <1>3, PendingStep
  <2> QED
    BY <1>2, <2>1
<1>5. /\ SavedContents = saved
      /\ SavedContents' = With(saved, futures[c].sid, futures[c].ct.data)
  BY ContentsStep DEF Inserts
<1>6. SavedContents' = [s \in DOMAIN SavedContents \cup {Pending[c].sid} |->
                     IF s = Pending[c].sid THEN Pending[c].data ELSE SavedContents[s]]
  BY <1>4, <1>5 DEF With
<1> QED
  BY <1>0, <1>4, <1>6 DEF Store!Saves, Store!Becomes, Store!NoCall, SavedContents, Pending

(* A call that ends makes no call.                                         *)
LEMMA EndsOutside ==
    ASSUME VaultInv, NEW c \in VaultClients, Ends(c)
    PROVE  /\ Pending[c] = CallOf(futures[c])
           /\ Pending' = [Pending EXCEPT ![c] = [op |-> "none"]]
<1>1. futures' = [futures EXCEPT ![c] = NoFuture]
  BY DEF Ends
<1>2. CallOf(NoFuture) = [op |-> "none"]
  BY CallOfKinds
<1>3. /\ Pending[c] = CallOf(futures[c])
      /\ Pending' = [Pending EXCEPT ![c] = CallOf(NoFuture)]
  BY <1>1, PendingStep
<1> QED
  BY <1>2, <1>3

(* A load of a session that is not stored ends when it looks; of one that  *)
(* is, only once it has decrypted.                                         *)
LEMMA ReadRefines ==
    ASSUME VaultInv, VaultInv', NEW c \in VaultClients, Reads(c)
    PROVE  Store!Loads(c) \/ UNCHANGED Store!storeVars
<1>0. futures[c] \in Futures /\ UNCHANGED <<saved, jar, vaultFaults>>
  BY DEF Reads, VaultInv, VaultTypeOK
<1>1. futures[c] \in LoadCalls
  BY <1>0, FutureKinds DEF Reads, HoldsBoth
<1>2. CallOf(futures[c]) = [op |-> "load", sid |-> futures[c].sid]
  BY <1>1, CallOfKinds
<1>3. CASE futures[c].sid \in DOMAIN storage
  <2> DEFINE f == [op |-> "load", at |-> "decrypt", sid |-> futures[c].sid,
                   ct |-> storage[futures[c].sid]]
  <2>1. futures' = [futures EXCEPT ![c] = f]
    BY <1>3 DEF Reads
  <2>2. CallOf(f) = [op |-> "load", sid |-> futures[c].sid]
    BY DEF CallOf
  <2> HIDE DEF f
  <2> QED
    BY <1>0, <1>2, <2>1, <2>2, PendingStep, Unseen
<1>4. CASE futures[c].sid \notin DOMAIN storage
  <2>1. Ends(c)
    BY <1>4 DEF Reads
  <2>2. /\ Pending[c] = [op |-> "load", sid |-> futures[c].sid]
        /\ Pending' = [Pending EXCEPT ![c] = [op |-> "none"]]
    BY <1>2, <2>1, EndsOutside
  <2>3. SavedContents' = SavedContents /\ Pending[c].sid \notin DOMAIN SavedContents
    BY <1>0, <1>4, <2>2, ContentsStep DEF SavedContents
  <2> QED
    BY <1>0, <2>2, <2>3 DEF Store!Loads, Store!Becomes, Store!NoCall, SavedContents, Pending
<1> QED
  BY <1>3, <1>4

(* The decryption is where a load takes effect: it never fails, and what   *)
(* it yields is what the store holds at that moment.                       *)
LEMMA DecryptRefines ==
    ASSUME VaultInv, VaultInv', NEW c \in VaultClients, Decrypts(c)
    PROVE  Store!Loads(c)
<1>0. futures[c] \in Futures /\ UNCHANGED <<saved, jar, vaultFaults>>
  BY DEF Decrypts, VaultInv, VaultTypeOK
<1>1. futures[c] \in LoadDecrypts
  BY <1>0, FutureKinds DEF Decrypts
<1>2. CallOf(futures[c]) = [op |-> "load", sid |-> futures[c].sid]
  BY <1>1, CallOfKinds
<1>3. /\ futures[c].sid \in DOMAIN storage
      /\ futures[c].ct = storage[futures[c].sid]
      /\ Opens(futures[c].ct)
      /\ futures[c].ct.data = saved[futures[c].sid]
  BY DEF Decrypts, VaultInv, CallsOK, CallOK, SessionsStayReadable
<1> DEFINE f == [op |-> "load", at |-> "cookies", todo |-> futures[c].ct.data]
<1>4. futures' = [futures EXCEPT ![c] = f]
  BY <1>3 DEF Decrypts
<1>5. CallOf(f) = [op |-> "restore", todo |-> saved[futures[c].sid]]
  BY <1>3 DEF CallOf
<1> HIDE DEF f
<1>6. /\ Pending[c] = [op |-> "load", sid |-> futures[c].sid]
      /\ Pending' = [Pending EXCEPT ![c] =
                       [op |-> "restore", todo |-> saved[futures[c].sid]]]
  <2>1. Pending[c] = CallOf(futures[c]) /\ Pending' = [Pending EXCEPT ![c] = CallOf(f)]
    BY <1>4, PendingStep
  <2> QED
    BY <1>2, <1>5, <2>1
<1>7. /\ SavedContents' = SavedContents
      /\ Pending[c].sid \in DOMAIN SavedContents
      /\ Pending' = [Pending EXCEPT ![c] =
                       [op |-> "restore", todo |-> SavedContents[Pending[c].sid]]]
  <2>1. SavedContents' = SavedContents /\ SavedContents = saved
    BY <1>0, ContentsStep
  <2>2. DOMAIN saved = DOMAIN storage
    BY DEF VaultInv, SessionsStayReadable
  <2>3. Pending[c].sid = futures[c].sid
    BY <1>6
  <2> QED
    BY <1>3, <1>6, <2>1, <2>2, <2>3
<1> QED
  BY <1>0, <1>6, <1>7 DEF Store!Loads, Store!Becomes, SavedContents, Pending

(* Cookies are set one by one, and the load ends when all are.             *)
LEMMA CookieRefines ==
    ASSUME VaultInv, VaultInv', NEW c \in VaultClients, NEW cookie \in Cookies,
           SetsCookie(c, cookie)
    PROVE  Store!Restores(c, cookie)
<1>0. futures[c] \in Futures /\ UNCHANGED <<saved, vaultFaults>>
  BY DEF SetsCookie, VaultInv, VaultTypeOK
<1>1. futures[c] \in LoadCookies
  BY <1>0, FutureKinds DEF SetsCookie
<1> DEFINE todo == futures[c].todo
           f == [futures[c] EXCEPT !.todo = todo \ {cookie}]
<1>2. futures' = [futures EXCEPT ![c] = f]
  BY DEF SetsCookie
<1>3. f \in LoadCookies /\ f.todo = todo \ {cookie}
  BY <1>1 DEF LoadCookies
<1> HIDE DEF f
<1>4. /\ CallOf(futures[c]) = [op |-> "restore", todo |-> todo]
      /\ CallOf(f) = [op |-> "restore", todo |-> todo \ {cookie}]
  BY <1>1, <1>3, CallOfKinds
<1>5. /\ Pending[c] = [op |-> "restore", todo |-> todo]
      /\ Pending' = [Pending EXCEPT ![c] =
                       [op |-> "restore", todo |-> todo \ {cookie}]]
  <2>1. Pending[c] = CallOf(futures[c]) /\ Pending' = [Pending EXCEPT ![c] = CallOf(f)]
    BY <1>2, PendingStep
  <2> QED
    BY <1>4, <2>1
<1>6. SavedContents' = SavedContents
  BY <1>0, ContentsStep
<1>7. cookie \in todo /\ jar' = [jar EXCEPT ![c] = @ \cup {cookie}]
  BY DEF SetsCookie
<1> HIDE DEF todo
<1>8. Pending[c].op = "restore" /\ Pending[c].todo = todo
  BY <1>5
<1>9. /\ cookie \in Pending[c].todo
      /\ Pending' = [Pending EXCEPT ![c] =
                       [op |-> "restore", todo |-> Pending[c].todo \ {cookie}]]
  BY <1>5, <1>7, <1>8
<1> QED
  BY <1>0, <1>6, <1>7, <1>8, <1>9 DEF Store!Restores, Store!Becomes, SavedContents, Pending

(* A load whose cookies are all set ends a load of the store.               *)
LEMMA RestoredRefines ==
    ASSUME VaultInv, VaultInv', NEW c \in VaultClients, Restored(c)
    PROVE  Store!LoadEnds(c)
<1>0. futures[c] \in Futures /\ UNCHANGED <<saved, jar, vaultFaults>>
  BY DEF Restored, VaultInv, VaultTypeOK
<1>1. futures[c] \in LoadCookies /\ futures[c].todo = {}
  BY <1>0, FutureKinds DEF Restored, CookiesSet
<1>2. CallOf(futures[c]) = [op |-> "restore", todo |-> {}]
  BY <1>1, CallOfKinds
<1>3. /\ Pending[c] = [op |-> "restore", todo |-> {}]
      /\ Pending' = [Pending EXCEPT ![c] = [op |-> "none"]]
  BY <1>2, EndsOutside DEF Restored
<1>4. SavedContents' = SavedContents
  BY <1>0, ContentsStep
<1> QED
  BY <1>0, <1>3, <1>4 DEF Store!LoadEnds, Store!Becomes, Store!NoCall, SavedContents, Pending

(* A dropped or failing call leaves the sessions as they were, even when   *)
(* it was a rotation that had already staged its key.                      *)
LEMMA DropRefines ==
    ASSUME VaultInv, VaultInv', NEW c \in VaultClients, Dropped(c)
    PROVE  Store!GivesUp(c)
<1>0. UNCHANGED <<saved, jar>> /\ vaultFaults' = vaultFaults + 1
  BY DEF Dropped, VaultFault
<1>1. Pending' = [Pending EXCEPT ![c] = [op |-> "none"]]
  BY EndsOutside DEF Dropped
<1>2. SavedContents' = SavedContents
  BY <1>0, ContentsStep
<1> QED
  BY <1>0, <1>1, <1>2 DEF Store!GivesUp, Store!Becomes, Store!NoCall, SavedContents, Pending

(* Every step of the vault is a step of the store or not to be seen there. *)
LEMMA VaultRefinesStep ==
    ASSUME VaultInv, [VaultNext]_vaultVars
    PROVE  [Store!StoreNext]_(Store!storeVars)
<1>0. VaultInv'
  BY VaultInvStep
<1>1. CASE UNCHANGED vaultVars
  <2>1. Pending' = Pending
    BY <1>1 DEF vaultVars, Pending, CallOf
  <2> QED
    BY <1>0, <1>1, <2>1, Unseen DEF vaultVars
<1>2. CASE VaultNext
  <2>1. PICK c \in VaultClients :
          \/ \E sid \in SessionIds : SaveToVault(c, sid) \/ LoadFromVault(c, sid)
          \/ \E id \in KeyIds, bytes \in KeyBytes : RotateKey(c, id, bytes)
          \/ VaultStep(c)
          \/ Dropped(c)
    BY <1>2 DEF VaultNext
  <2>2. CASE \E sid \in SessionIds : SaveToVault(c, sid) \/ LoadFromVault(c, sid)
    <3>1. Store!Asks(c)
      BY <1>0, <2>2, AskRefines
    <3> QED
      BY <3>1 DEF Store!StoreNext
  <2>3. CASE \/ \E id \in KeyIds, bytes \in KeyBytes : RotateKey(c, id, bytes)
             \/ Stages(c) \/ Commits(c) \/ Encrypts(c) \/ Nests(c)
             \/ \E sid \in SessionIds : ReEncrypts(c, sid)
    <3>1. UNCHANGED Store!storeVars
      BY <1>0, <2>3, RotationUnseen, WaitUnseen
    <3> QED
      BY <3>1
  <2>4. CASE Inserts(c)
    <3>1. Store!Saves(c)
      BY <1>0, <2>4, InsertRefines
    <3> QED
      BY <3>1 DEF Store!StoreNext
  <2>5. CASE Reads(c) \/ Decrypts(c)
    <3>1. Store!Loads(c) \/ UNCHANGED Store!storeVars
      BY <1>0, <2>5, ReadRefines, DecryptRefines
    <3> QED
      BY <3>1 DEF Store!StoreNext
  <2>6. CASE \E cookie \in Cookies : SetsCookie(c, cookie)
    <3>1. \E cookie \in Cookies : Store!Restores(c, cookie)
      BY <1>0, <2>6, CookieRefines
    <3> QED
      BY <3>1 DEF Store!StoreNext
  <2>7. CASE Restored(c)
    <3>1. Store!LoadEnds(c)
      BY <1>0, <2>7, RestoredRefines
    <3> QED
      BY <3>1 DEF Store!StoreNext
  <2>8. CASE Dropped(c)
    <3>1. Store!GivesUp(c)
      BY <1>0, <2>8, DropRefines
    <3> QED
      BY <3>1 DEF Store!StoreNext
  <2> QED
    BY <2>1, <2>2, <2>3, <2>4, <2>5, <2>6, <2>7, <2>8 DEF VaultStep
<1> QED
  BY <1>1, <1>2

(* The vault implements the store of plaintext sessions: its callers see   *)
(* saves and loads that take effect in one step each, and never a key, a   *)
(* ciphertext or a rotation.                                               *)
THEOREM VaultImplementsStore == VaultSpec => VaultIsAStore
<1>1. VaultInit => Store!StoreInit
  BY VaultRefinesInit
<1>2. VaultInv /\ [VaultNext]_vaultVars => [Store!StoreNext]_(Store!storeVars)
  BY VaultRefinesStep
<1> QED
  BY <1>1, <1>2, VaultInvariant, PTL DEF VaultSpec, VaultIsAStore, Store!StoreSpec
=============================================================================
