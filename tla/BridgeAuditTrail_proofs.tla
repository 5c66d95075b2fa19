---------------------- MODULE BridgeAuditTrail_proofs ----------------------
(***************************************************************************)
(* The audit trail keeps one record per id and loses none that was         *)
(* acknowledged: proofs for every set of ids and decisions, every cache    *)
(* size, every combination of faults and any number of calls and crashes.  *)
(***************************************************************************)
EXTENDS BridgeAuditTrail, WellFoundedInduction, TLAPS

(* A set of natural numbers with an element has a least one.               *)
LEMMA LeastPlace ==
    ASSUME NEW T \in SUBSET Nat, T # {}
    PROVE  \E x \in T : \A y \in T : x <= y
<1>1. IsWellFoundedOn(OpToRel(<, Nat), Nat)
  BY NatLessThanWellFounded
<1>2. IsWellFoundedOn({ss \in Nat \X Nat : ss[1] < ss[2]}, Nat)
  BY <1>1 DEF OpToRel
<1>3. PICK x \in T : \A y \in T :
         ~ (<<y, x>> \in {ss \in Nat \X Nat : ss[1] < ss[2]})
  BY <1>2, WFMin, Zenon
<1>4. \A y \in T : ~ (y < x)
  BY <1>3
<1> QED BY <1>4

(* One more chunk is read: LinesTo's equation for the first m chunks.      *)
ReadsTo(f, m) ==
    f = [n \in 0 .. m |-> IF n = 0 THEN <<>>
                          ELSE IF Readable(n) THEN Append(f[n - 1], Rec(n))
                          ELSE f[n - 1]]

(* The recursive definition of LinesTo defines a function.                 *)
LEMMA LinesToEquation ==
    ASSUME Len(file) \in Nat
    PROVE  ReadsTo(LinesTo, Len(file))
<1>1. ASSUME NEW x \in Nat, x # 0, NEW g, ReadsTo(g, x - 1)
      PROVE  \E f : ReadsTo(f, x)
  <2> PICK last : last = (IF Readable(x) THEN Append(g[x - 1], Rec(x)) ELSE g[x - 1])
    OBVIOUS
  <2> PICK f : f = [n \in 0 .. x |-> IF n = x THEN last ELSE g[n]]
    OBVIOUS
  <2>1. \A n \in 0 .. x - 1 : /\ n \in 0 .. x /\ n # x /\ f[n] = g[n]
                              /\ n # 0 => n - 1 \in 0 .. x - 1
    BY <1>1
  <2>2. x - 1 \in 0 .. x - 1 /\ f[x] = last /\ f[x - 1] = g[x - 1]
    BY <1>1, <2>1
  <2>3. ASSUME NEW n \in 0 .. x
        PROVE  f[n] = IF n = 0 THEN <<>>
                      ELSE IF Readable(n) THEN Append(f[n - 1], Rec(n))
                      ELSE f[n - 1]
    <3>1. CASE n = x
      BY <1>1, <2>2, <3>1
    <3>2. CASE n # x
      <4>1. n \in 0 .. x - 1
        BY <1>1, <2>3, <3>2
      <4>2. g[n] = IF n = 0 THEN <<>>
                   ELSE IF Readable(n) THEN Append(g[n - 1], Rec(n))
                   ELSE g[n - 1]
        BY <1>1, <4>1 DEF ReadsTo
      <4> QED BY <2>1, <4>1, <4>2
    <3> QED BY <3>1, <3>2
  <2>4. ReadsTo(f, x)
    BY <2>3 DEF ReadsTo
  <2> QED BY <2>4
<1>2. \E f : ReadsTo(f, 0)
  <2> PICK f : f = [n \in 0 .. 0 |-> <<>>]
    OBVIOUS
  <2>1. ReadsTo(f, 0)
    BY DEF ReadsTo
  <2> QED BY <2>1
<1>3. \A m \in Nat : \E f : ReadsTo(f, m)
  <2> SUFFICES ASSUME {m \in Nat : ~ \E f : ReadsTo(f, m)} # {} PROVE FALSE
    OBVIOUS
  <2> PICK T : T = {m \in Nat : ~ \E f : ReadsTo(f, m)}
    OBVIOUS
  <2>1. PICK x \in T : \A y \in T : x <= y
    BY LeastPlace
  <2>2. x \in Nat /\ x # 0 /\ x - 1 \in Nat /\ x - 1 \notin T
    BY <1>2, <2>1
  <2> QED BY <1>1, <2>1, <2>2
<1>4. \E f : ReadsTo(f, Len(file))
  BY <1>3
<1> QED BY <1>4 DEF LinesTo, ReadsTo

(* The readable places, one after the other.                               *)
Enumerates(pos, n) ==
    /\ LinesTo[n] \in Seq(AuditRecords)
    /\ pos \in [1 .. Len(LinesTo[n]) -> 1 .. n]
    /\ \A i \in 1 .. Len(LinesTo[n]) : Readable(pos[i]) /\ LinesTo[n][i] = Rec(pos[i])
    /\ \A i, j \in 1 .. Len(LinesTo[n]) : pos[i] = pos[j] => i = j
    /\ \A k \in 1 .. n : Readable(k) => \E i \in 1 .. Len(LinesTo[n]) : pos[i] = k

(* The lines of a file are its readable places, each once.                  *)
LEMMA LinesEnumerate ==
    ASSUME file \in Seq(Chunks), \A k \in 1 .. Len(file) : Readable(k) => Rec(k) \in AuditRecords
    PROVE  \E pos : Enumerates(pos, Len(file))
<1>1. Len(file) \in Nat
  OBVIOUS
<1>2. LinesTo = [n \in 0 .. Len(file) |->
                   IF n = 0 THEN <<>>
                   ELSE IF Readable(n) THEN Append(LinesTo[n - 1], Rec(n))
                   ELSE LinesTo[n - 1]]
  BY <1>1, LinesToEquation DEF ReadsTo
<1>3. LinesTo[0] = <<>>
  BY <1>1, <1>2
<1>4. \A n \in 1 .. Len(file) :
         LinesTo[n] = IF Readable(n) THEN Append(LinesTo[n - 1], Rec(n)) ELSE LinesTo[n - 1]
  <2>1. \A n \in 1 .. Len(file) : n \in 0 .. Len(file) /\ n # 0
    BY <1>1
  <2> QED BY <1>2, <2>1
<1>5. \E pos : Enumerates(pos, 0)
  <2> PICK pos : pos = [i \in 1 .. 0 |-> 0]
    OBVIOUS
  <2>1. LinesTo[0] \in Seq(AuditRecords) /\ Len(LinesTo[0]) = 0
    BY <1>3
  <2>2. Enumerates(pos, 0)
    BY <2>1 DEF Enumerates
  <2> QED BY <2>2
<1>6. ASSUME NEW x \in 1 .. Len(file), NEW pos, Enumerates(pos, x - 1)
      PROVE  \E p : Enumerates(p, x)
  <2> PICK s, len : s = LinesTo[x - 1] /\ len = Len(s)
    OBVIOUS
  <2>1. /\ s \in Seq(AuditRecords) /\ len \in Nat /\ x \in Nat /\ x - 1 \in Nat
        /\ pos \in [1 .. len -> 1 .. x - 1]
        /\ \A i \in 1 .. len : Readable(pos[i]) /\ s[i] = Rec(pos[i])
        /\ \A i, j \in 1 .. len : pos[i] = pos[j] => i = j
        /\ \A k \in 1 .. x - 1 : Readable(k) => \E i \in 1 .. len : pos[i] = k
    BY <1>1, <1>6 DEF Enumerates
  <2>2. CASE Readable(x)
    <3> PICK t : t = LinesTo[x]
      OBVIOUS
    <3> PICK p : p = [i \in 1 .. len + 1 |-> IF i = len + 1 THEN x ELSE pos[i]]
      OBVIOUS
    <3>1. t = Append(s, Rec(x)) /\ Rec(x) \in AuditRecords
      BY <1>4, <1>6, <2>2
    <3>2. /\ t \in Seq(AuditRecords) /\ Len(t) = len + 1 /\ t[len + 1] = Rec(x)
          /\ \A i \in 1 .. len : t[i] = s[i]
      BY <2>1, <3>1
    <3>3. \A i \in 1 .. len + 1 : i \in 1 .. len \/ i = len + 1
      BY <2>1
    <3>4. /\ \A i \in 1 .. len : i \in 1 .. len + 1 /\ p[i] = pos[i] /\ p[i] \in 1 .. x - 1
                                 /\ p[i] \in 1 .. x /\ p[i] # x
          /\ p[len + 1] = x /\ len + 1 \in 1 .. len + 1 /\ x \in 1 .. x
      <4>1. len + 1 \in 1 .. len + 1 /\ x \in 1 .. x
        BY <1>1, <2>1
      <4>2. p[len + 1] = x
        BY <4>1
      <4>3. ASSUME NEW i \in 1 .. len
            PROVE  i \in 1 .. len + 1 /\ i # len + 1 /\ pos[i] \in 1 .. x - 1
                   /\ pos[i] \in 1 .. x /\ pos[i] # x
        <5>1. len \in Nat /\ x \in Nat /\ pos[i] \in 1 .. x - 1
          BY <2>1
        <5> QED BY <5>1
      <4>4. \A i \in 1 .. len : p[i] = pos[i]
        BY <4>3
      <4> QED BY <4>1, <4>2, <4>3, <4>4
    <3>5. p \in [1 .. len + 1 -> 1 .. x]
      BY <3>3, <3>4
    <3>6. \A i \in 1 .. len + 1 : Readable(p[i]) /\ t[i] = Rec(p[i])
      BY <2>1, <2>2, <3>2, <3>3, <3>4
    <3>7. ASSUME NEW i \in 1 .. len + 1, NEW j \in 1 .. len + 1, p[i] = p[j] PROVE i = j
      <4>1. CASE i = len + 1 \/ j = len + 1
        BY <3>3, <3>4, <3>7, <4>1
      <4>2. CASE i \in 1 .. len /\ j \in 1 .. len
        BY <2>1, <3>4, <3>7, <4>2
      <4> QED BY <3>3, <4>1, <4>2
    <3>8. ASSUME NEW k \in 1 .. x, Readable(k) PROVE \E i \in 1 .. len + 1 : p[i] = k
      <4>1. CASE k = x
        BY <3>4, <4>1
      <4>2. CASE k # x
        <5>1. k \in 1 .. x - 1
          BY <2>1, <4>2
        <5> QED BY <2>1, <3>4, <3>8, <5>1
      <4> QED BY <4>1, <4>2
    <3>9. Enumerates(p, x)
      <4> PICK m : m = len + 1
        OBVIOUS
      <4>1. \A i, j \in 1 .. m : p[i] = p[j] => i = j
        BY <3>7
      <4>2. \A k \in 1 .. x : Readable(k) => \E i \in 1 .. m : p[i] = k
        BY <3>8
      <4>3. t \in Seq(AuditRecords) /\ Len(t) = m /\ p \in [1 .. m -> 1 .. x]
            /\ \A i \in 1 .. m : Readable(p[i]) /\ t[i] = Rec(p[i])
        BY <3>2, <3>5, <3>6
      <4> QED BY <4>1, <4>2, <4>3 DEF Enumerates
    <3> QED BY <3>9
  <2>3. CASE ~ Readable(x)
    <3>1. LinesTo[x] = s
      BY <1>4, <1>6, <2>3
    <3>2. \A k \in 1 .. x : k # x => k \in 1 .. x - 1
      BY <2>1
    <3>3. pos \in [1 .. len -> 1 .. x]
      BY <2>1
    <3>4. Enumerates(pos, x)
      BY <2>1, <2>3, <3>1, <3>2, <3>3 DEF Enumerates
    <3> QED BY <3>4
  <2> QED BY <2>2, <2>3
<1>7. \A n \in 0 .. Len(file) : \E pos : Enumerates(pos, n)
  <2> SUFFICES ASSUME {n \in 0 .. Len(file) : ~ \E pos : Enumerates(pos, n)} # {} PROVE FALSE
    OBVIOUS
  <2> PICK T : T = {n \in 0 .. Len(file) : ~ \E pos : Enumerates(pos, n)}
    OBVIOUS
  <2>1. T \in SUBSET Nat
    BY <1>1
  <2>2. PICK x \in T : \A y \in T : x <= y
    BY <2>1, LeastPlace
  <2>3. x \in 1 .. Len(file) /\ x - 1 \in 0 .. Len(file) /\ x - 1 \notin T
    BY <1>1, <1>5, <2>2
  <2> QED BY <1>6, <2>2, <2>3
<1> QED BY <1>1, <1>7

(* A chunk of text holds one record.                                       *)
LEMMA TextRecord ==
    ASSUME TrailInv, NEW k \in Places, file[k].kind = "text"
    PROVE  Rec(k) \in AuditRecords /\ file[k].rec = {Rec(k)} /\ Rec(k).id \in old \cup mine
           /\ Rec(k).id \in RequestIds
<1>1. PICK r \in AuditRecords : file[k].rec = {r} /\ r.id \in old \cup mine
  BY DEF TrailInv, DiskOK
<1>2. Rec(k) = r
  BY <1>1 DEF Rec
<1> QED BY <1>1, <1>2 DEF AuditRecords

(* What is read is what is readable; a complete line is.                   *)
LEMMA TrailReads ==
    ASSUME TrailInv
    PROVE  /\ Lines \in Seq(AuditRecords) /\ Len(Lines) \in Nat
           /\ \A i \in 1 .. Len(Lines) : Lines[i] \in AuditRecords /\ Lines[i] \in OnFile
           /\ \A r \in OnFile : \E k \in Places : Readable(k) /\ r = Rec(k)
           /\ \A k \in Places : Readable(k) =>
                Rec(k) \in OnFile /\ \E i \in 1 .. Len(Lines) : Lines[i] = Rec(k)
           /\ OnFile \subseteq AuditRecords
           /\ \A k \in Places : Complete(k) => Readable(k)
           /\ \A j, k \in Places : Readable(j) /\ j < k => Complete(j)
           /\ \A k \in Places : Readable(k) => Begins(k)
           /\ Whole \subseteq OnFile
           /\ (\A j, k \in Places : Readable(j) /\ Readable(k) /\ Rec(j).id = Rec(k).id => j = k) =>
                \A i, j \in 1 .. Len(Lines) : Lines[i].id = Lines[j].id => i = j
<1>1. file \in Seq(Chunks) /\ Len(file) \in Nat /\ Places = 1 .. Len(file)
  BY DEF TrailInv, TrailTypeOK, Places
<1>2. \A k \in Places : Readable(k) => Rec(k) \in AuditRecords
  BY TextRecord DEF Readable
<1>3. PICK pos : Enumerates(pos, Len(file))
  BY <1>1, <1>2, LinesEnumerate
<1>4. /\ Lines \in Seq(AuditRecords)
      /\ pos \in [1 .. Len(Lines) -> Places]
      /\ \A i \in 1 .. Len(Lines) : Readable(pos[i]) /\ Lines[i] = Rec(pos[i])
      /\ \A i, j \in 1 .. Len(Lines) : pos[i] = pos[j] => i = j
      /\ \A k \in Places : Readable(k) => \E i \in 1 .. Len(Lines) : pos[i] = k
  BY <1>1, <1>3 DEF Enumerates, Lines
<1>5. \A i \in 1 .. Len(Lines) : Lines[i] \in AuditRecords /\ pos[i] \in Places
  BY <1>4
<1>6. \A k \in Places : Readable(k) =>
         Rec(k) \in OnFile /\ \E i \in 1 .. Len(Lines) : Lines[i] = Rec(k)
  BY <1>4 DEF OnFile
<1>7. OnFile \subseteq AuditRecords
  BY <1>5 DEF OnFile
<1>8. /\ \A k \in Places : Complete(k) => Readable(k)
      /\ \A k \in Places : Readable(k) => Begins(k)
  BY DEF Complete, Begins, Readable
<1>9. \A j, k \in Places : Readable(j) /\ j < k => Complete(j)
  BY <1>1 DEF Complete, Begins, Readable
<1>10. Whole \subseteq OnFile
  BY <1>6, <1>8 DEF Whole
<1>11. (\A j, k \in Places : Readable(j) /\ Readable(k) /\ Rec(j).id = Rec(k).id => j = k) =>
           \A i, j \in 1 .. Len(Lines) : Lines[i].id = Lines[j].id => i = j
  BY <1>4, <1>5
<1>12. /\ \A i \in 1 .. Len(Lines) : Lines[i] \in OnFile
       /\ \A r \in OnFile : \E k \in Places : Readable(k) /\ r = Rec(k)
  BY <1>4, <1>5 DEF OnFile
<1>13. Len(Lines) \in Nat
  BY <1>4
<1> QED BY <1>4, <1>5, <1>6, <1>7, <1>8, <1>9, <1>10, <1>11, <1>12, <1>13

(* What remember keeps was there or is new.                                *)
LEMMA RememberKeeps ==
    ASSUME TrailInv, NEW rs \in Seq(AuditRecords)
    PROVE  /\ Remember(rs) \in Seq(AuditRecords) /\ Len(Remember(rs)) <= CacheSize
           /\ \A k \in 1 .. Len(Remember(rs)) :
                \/ \E j \in 1 .. Len(recent) : Remember(rs)[k] = recent[j]
                \/ \E j \in 1 .. Len(rs) : Remember(rs)[k] = rs[j]
<1> PICK all : all = recent \o rs
  OBVIOUS
<1>1. /\ recent \in Seq(AuditRecords) /\ Len(recent) \in Nat /\ Len(rs) \in Nat /\ CacheSize \in Nat
  BY TrailAssumption DEF TrailInv, TrailTypeOK
<1>2. all \in Seq(AuditRecords) /\ Len(all) = Len(recent) + Len(rs) /\ Len(all) \in Nat
  BY <1>1
<1>3. \A k \in 1 .. Len(all) :
         \/ \E j \in 1 .. Len(recent) : all[k] = recent[j]
         \/ \E j \in 1 .. Len(rs) : all[k] = rs[j]
  <2>1. ASSUME NEW k \in 1 .. Len(all)
        PROVE  \/ \E j \in 1 .. Len(recent) : all[k] = recent[j]
               \/ \E j \in 1 .. Len(rs) : all[k] = rs[j]
    <3>1. CASE k <= Len(recent)
      <4>1. k \in 1 .. Len(recent) /\ all[k] = recent[k]
        BY <1>1, <1>2, <3>1
      <4> QED BY <4>1
    <3>2. CASE ~ (k <= Len(recent))
      <4>1. k - Len(recent) \in 1 .. Len(rs) /\ all[k] = rs[k - Len(recent)]
        BY <1>1, <1>2, <3>2
      <4> QED BY <4>1
    <3> QED BY <3>1, <3>2
  <2> QED BY <2>1
<1>4. CASE Len(all) <= CacheSize
  <2>1. Remember(rs) = all
    BY <1>4 DEF Remember
  <2> QED BY <1>2, <1>3, <1>4, <2>1
<1>5. CASE ~ (Len(all) <= CacheSize)
  <2> PICK b : b = Len(all) - CacheSize
    OBVIOUS
  <2>1. b \in Nat /\ b + 1 \in 1 .. Len(all) + 1 /\ b + CacheSize = Len(all)
    BY <1>1, <1>2, <1>5
  <2> PICK s : s = SubSeq(all, b + 1, Len(all))
    OBVIOUS
  <2>2. Remember(rs) = s
    BY <1>5 DEF Remember
  <2>3. s \in Seq(AuditRecords) /\ Len(s) = CacheSize
    BY <1>1, <1>2, <2>1
  <2>4. \A k \in 1 .. Len(s) : b + k \in 1 .. Len(all) /\ s[k] = all[b + k]
    BY <1>1, <1>2, <2>1, <2>3
  <2>5. \A k \in 1 .. Len(s) :
           \/ \E j \in 1 .. Len(recent) : s[k] = recent[j]
           \/ \E j \in 1 .. Len(rs) : s[k] = rs[j]
    <3>1. ASSUME NEW k \in 1 .. Len(s)
          PROVE  \/ \E j \in 1 .. Len(recent) : s[k] = recent[j]
                 \/ \E j \in 1 .. Len(rs) : s[k] = rs[j]
      <4> PICK m : m = b + k
        OBVIOUS
      <4>1. m \in 1 .. Len(all) /\ s[k] = all[m]
        BY <2>4
      <4> QED BY <1>3, <4>1
    <3> QED BY <3>1
  <2>6. CacheSize <= CacheSize
    BY <1>1
  <2>7. Len(Remember(rs)) <= CacheSize
    BY <2>2, <2>3, <2>6, Zenon
  <2> QED BY <2>2, <2>3, <2>5, <2>7, Zenon
<1> QED BY <1>4, <1>5

(* The file is unchanged, longer by a chunk, or cut.                       *)
LEMMA SameFile ==
    ASSUME UNCHANGED file
    PROVE  /\ Places' = Places /\ Whole' = Whole
           /\ \A k : /\ Rec(k)' = Rec(k) /\ (Begins(k)' <=> Begins(k))
                     /\ Complete(k)' <=> Complete(k)
BY DEF Places, Whole, Rec, Begins, Complete

(* What one chunk more changes: only the line before it may be complete now.*)
LEMMA LongerFile ==
    ASSUME TrailInv, NEW c \in Chunks, file' = Append(file, c), NEW top, top = Len(file) + 1
    PROVE  /\ file' \in Seq(Chunks) /\ Len(file') = top /\ Len(file) \in Nat /\ top \in Nat
           /\ Places' = Places \cup {top} /\ file'[top] = c /\ top \notin Places
           /\ \A k \in Places : /\ file'[k] = file[k] /\ Rec(k)' = Rec(k)
                                /\ Begins(k)' <=> Begins(k)
                                /\ Complete(k)' <=>
                                     \/ Complete(k)
                                     \/ k = Len(file) /\ Begins(k) /\ c.kind = "newline"
                                /\ k < top
           /\ ~ Complete(top)'
           /\ Rec(top)' = CHOOSE r \in c.rec : TRUE
           /\ Begins(top)' <=>
                c.kind = "text" /\ (file = <<>> \/ file[Len(file)].kind = "newline")
           /\ Whole \subseteq Whole'
<1>1. file \in Seq(Chunks) /\ Len(file) \in Nat /\ Places = 1 .. Len(file) /\ top \in Nat
  BY DEF TrailInv, TrailTypeOK, Places
<1>2. /\ file' \in Seq(Chunks) /\ Len(file') = top
      /\ file'[top] = c
      /\ \A k \in Places : file'[k] = file[k]
  BY <1>1
<1>3. Places' = Places \cup {top} /\ top \notin Places
  <2>1. Places' = 1 .. top
    BY <1>2 DEF Places
  <2> QED BY <1>1, <2>1
<1>4. ASSUME NEW k \in Places
      PROVE  /\ Rec(k)' = Rec(k) /\ (Begins(k)' <=> Begins(k)) /\ k < top
             /\ Complete(k)' <=>
                     \/ Complete(k)
                     \/ k = Len(file) /\ Begins(k) /\ c.kind = "newline"
  <2>1. k \in Nat /\ k < top /\ (k # 1 => k - 1 \in Places)
        /\ (k < Len(file) => k + 1 \in Places)
    BY <1>1
  <2>2. Rec(k)' = Rec(k)
    BY <1>2 DEF Rec
  <2>3. Begins(k)' <=> Begins(k)
    BY <1>2, <2>1 DEF Begins
  <2>4. CASE k = Len(file)
    <3>1. k + 1 = top /\ ~ (k < Len(file)) /\ k < Len(file')
      BY <1>1, <1>2, <2>4
    <3>2. Complete(k)' <=> Begins(k)' /\ c.kind = "newline"
      BY <1>2, <3>1 DEF Complete
    <3>3. ~ Complete(k)
      BY <3>1 DEF Complete
    <3> QED BY <2>1, <2>2, <2>3, <2>4, <3>2, <3>3
  <2>5. CASE k # Len(file)
    <3>1. k < Len(file) /\ k < Len(file') /\ file'[k + 1] = file[k + 1]
      BY <1>1, <1>2, <2>1, <2>5
    <3>2. Complete(k)' <=> Complete(k)
      BY <2>3, <3>1 DEF Complete
    <3> QED BY <2>1, <2>2, <2>3, <2>5, <3>2
  <2> QED BY <2>4, <2>5
<1>5. ~ Complete(top)'
  <2>1. ~ (top < Len(file'))
    BY <1>1, <1>2
  <2> QED BY <2>1 DEF Complete
<1>6. Rec(top)' = CHOOSE r \in c.rec : TRUE
  BY <1>2 DEF Rec
<1>7. Begins(top)' <=>
         c.kind = "text" /\ (file = <<>> \/ file[Len(file)].kind = "newline")
  <2>1. CASE file = <<>>
    <3>1. top = 1
      BY <2>1
    <3> QED BY <1>2, <2>1, <3>1 DEF Begins
  <2>2. CASE file # <<>>
    <3>1. top # 1 /\ top - 1 = Len(file) /\ Len(file) \in Places
      BY <1>1, <2>2
    <3>2. file'[top - 1] = file[Len(file)]
      BY <1>2, <3>1
    <3> QED BY <1>2, <2>2, <3>1, <3>2 DEF Begins
  <2> QED BY <2>1, <2>2
<1>8. Whole \subseteq Whole'
  BY <1>3, <1>4 DEF Whole
<1> QED BY <1>1, <1>2, <1>3, <1>4, <1>5, <1>6, <1>7, <1>8

(* What is left of a file that was cut reads as it did before.              *)
LEMMA CutFile ==
    ASSUME TrailInv, NEW n \in 0 .. Len(file), file' = SubSeq(file, 1, n)
    PROVE  /\ file' \in Seq(Chunks) /\ Len(file') = n /\ Places' \subseteq Places
           /\ Places' = 1 .. n
           /\ \A k \in Places' : /\ file'[k] = file[k] /\ Rec(k)' = Rec(k)
                                 /\ Begins(k)' <=> Begins(k)
                                 /\ Complete(k)' <=> Complete(k) /\ k < n
<1>1. file \in Seq(Chunks) /\ Len(file) \in Nat /\ n \in Nat /\ n <= Len(file)
  BY DEF TrailInv, TrailTypeOK
<1>2. /\ file' \in Seq(Chunks) /\ Len(file') = n
      /\ \A k \in 1 .. n : file'[k] = file[k]
  BY <1>1
<1>3. Places' = 1 .. n /\ Places' \subseteq Places
  BY <1>1, <1>2 DEF Places
<1>4. ASSUME NEW k \in 1 .. n
      PROVE  /\ Rec(k)' = Rec(k) /\ (Begins(k)' <=> Begins(k))
             /\ Complete(k)' <=> Complete(k) /\ k < n
  <2>1. k \in Nat /\ (k # 1 => k - 1 \in 1 .. n) /\ (k < n => k + 1 \in 1 .. n) /\ (k < n => k < Len(file))
    BY <1>1
  <2>2. Rec(k)' = Rec(k)
    BY <1>2 DEF Rec
  <2>3. Begins(k)' <=> Begins(k)
    BY <1>2, <2>1 DEF Begins
  <2> QED BY <1>2, <2>1, <2>2, <2>3 DEF Complete
<1> QED BY <1>2, <1>3, <1>4

(* The parts of the invariant that speak of the file alone are kept while  *)
(* it is unchanged and nobody is forgotten.                                *)
LEMMA DiskFrame ==
    ASSUME TrailInv, UNCHANGED <<file, index>>, old \cup mine \subseteq old' \cup mine'
    PROVE  DiskOK'
BY SameFile DEF TrailInv, DiskOK

(* The beginning of a call.                                                *)
LEMMA CallKeeps ==
    ASSUME TrailInv, Call
    PROVE  TrailInv'
<1>1. /\ pc = "idle" /\ pc' = "prepare" /\ calls' = calls + 1
      /\ UNCHANGED <<file, synced, index, initialized, persistent, recent, acked, old, faults,
                     crashes>>
      /\ \/ cur' = {} /\ mine' = mine
         \/ \E r \in AuditRecords : /\ r.id \in old => "replay" \in faults
                                    /\ cur' = {r} /\ mine' = mine \cup {r.id}
  BY DEF Call, diskVars, memVars
<1>2. mine' \subseteq RequestIds /\ mine \subseteq mine' /\ cur' \in SUBSET AuditRecords
  BY <1>1 DEF TrailInv, TrailTypeOK, AuditRecords
<1>3. TrailTypeOK'
  BY <1>1, <1>2 DEF TrailInv, TrailTypeOK, Pcs
<1>4. CallOK'
  BY <1>1 DEF CallOK
<1>5. DiskOK'
  BY <1>1, <1>2, DiskFrame
<1>6. UniqueOK'
  BY <1>1, SameFile DEF TrailInv, UniqueOK
<1>7. KeptOK'
  BY <1>1, SameFile DEF TrailInv, KeptOK
<1> QED BY <1>3, <1>4, <1>5, <1>6, <1>7 DEF TrailInv

(* The trail is read, and the index rebuilt.                               *)
LEMMA PrepareKeeps ==
    ASSUME TrailInv, PrepareLocked
    PROVE  TrailInv'
<1>1. /\ pc = "prepare"
      /\ UNCHANGED <<file, synced, old, mine, calls, faults, crashes>>
  BY DEF PrepareLocked, callerVars
<1>2. cur \in SUBSET AuditRecords /\ acked \in SUBSET AuditRecords
      /\ index \in [RequestIds -> SUBSET AuditRecords] /\ recent \in Seq(AuditRecords)
  BY DEF TrailInv, TrailTypeOK
<1>3. ASSUME NEW w \in 0 .. Len(Lines), NEW n \in 0 .. Len(Lines), w <= n,
             recent' = Remember(SubSeq(Lines, 1, n)),
             index' = [i \in RequestIds |-> IF \E j \in 1 .. w : Lines[j].id = i
                                     THEN {Lines[j] : j \in {k \in 1 .. w : Lines[k].id = i}}
                                     ELSE index[i]]
      PROVE  /\ recent' \in Seq(AuditRecords) /\ Len(recent') <= CacheSize
             /\ index' \in [RequestIds -> SUBSET AuditRecords]
             /\ \A k \in 1 .. Len(recent') :
                  recent'[k] \in OnFile \/ \E j \in 1 .. Len(recent) : recent'[k] = recent[j]
             /\ \A i \in RequestIds : index'[i] = index[i] \/ index'[i] \subseteq {r \in OnFile : r.id = i}
             /\ w = Len(Lines) => \A r \in OnFile : r \in index'[r.id]
  <2>1. Lines \in Seq(AuditRecords) /\ Len(Lines) \in Nat /\ n \in Nat /\ w \in Nat
        /\ \A j \in 1 .. Len(Lines) : Lines[j] \in AuditRecords /\ Lines[j] \in OnFile
    BY TrailReads
  <2> PICK s : s = SubSeq(Lines, 1, n)
    OBVIOUS
  <2>2. s \in Seq(AuditRecords) /\ Len(s) = n /\ \A j \in 1 .. n : j \in 1 .. Len(Lines) /\ s[j] = Lines[j]
    BY <2>1
  <2>3. /\ recent' \in Seq(AuditRecords) /\ Len(recent') <= CacheSize
        /\ \A k \in 1 .. Len(recent') :
              \/ \E j \in 1 .. Len(recent) : recent'[k] = recent[j]
              \/ \E j \in 1 .. Len(s) : recent'[k] = s[j]
    BY <1>3, <2>2, RememberKeeps
  <2>4. \A k \in 1 .. Len(recent') :
           recent'[k] \in OnFile \/ \E j \in 1 .. Len(recent) : recent'[k] = recent[j]
    BY <2>1, <2>2, <2>3
  <2>5. \A j \in 1 .. w : j \in 1 .. Len(Lines)
    BY <2>1
  <2>6. ASSUME NEW i \in RequestIds
        PROVE  /\ index'[i] \subseteq AuditRecords
               /\ index'[i] = index[i] \/ index'[i] \subseteq {r \in OnFile : r.id = i}
    <3>1. CASE \E j \in 1 .. w : Lines[j].id = i
      <4>1. index'[i] = {Lines[j] : j \in {k \in 1 .. w : Lines[k].id = i}}
        BY <1>3, <3>1
      <4> QED BY <2>1, <2>5, <4>1
    <3>2. CASE ~ \E j \in 1 .. w : Lines[j].id = i
      <4>1. index'[i] = index[i]
        BY <1>3, <3>2
      <4> QED BY <1>2, <4>1
    <3> QED BY <3>1, <3>2
  <2>7. index' \in [RequestIds -> SUBSET AuditRecords]
    BY <1>3, <2>6
  <2>8. ASSUME w = Len(Lines), NEW r \in OnFile PROVE r \in index'[r.id]
    <3>1. PICK j \in 1 .. w : r = Lines[j]
      BY <2>8 DEF OnFile
    <3>2. r.id \in RequestIds
      BY <2>1, <2>5, <3>1 DEF AuditRecords
    <3>3. index'[r.id] = {Lines[m] : m \in {k \in 1 .. w : Lines[k].id = r.id}}
      BY <1>3, <3>1, <3>2
    <3> QED BY <3>1, <3>3
  <2> QED BY <2>3, <2>4, <2>6, <2>7, <2>8
<1>4. /\ index' \in [RequestIds -> SUBSET AuditRecords] /\ initialized' \in BOOLEAN
      /\ persistent' \in BOOLEAN
      /\ recent' \in Seq(AuditRecords) /\ Len(recent') <= CacheSize
      /\ \A k \in 1 .. Len(recent') :
           recent'[k] \in OnFile \/ \E j \in 1 .. Len(recent) : recent'[k] = recent[j]
      /\ \A i \in RequestIds : index'[i] = index[i] \/ index'[i] \subseteq {r \in OnFile : r.id = i}
      /\ initialized' /\ persistent' =>
           \/ \A r \in OnFile : r \in index'[r.id]
           \/ initialized /\ persistent /\ index' = index
  <2>1. CASE initialized
    <3>1. UNCHANGED <<index, initialized, persistent, recent>>
      BY <2>1 DEF PrepareLocked, memVars
    <3>2. \A k \in 1 .. Len(recent) : \E j \in 1 .. Len(recent) : recent[k] = recent[j]
      OBVIOUS
    <3> QED BY <2>1, <3>1, <3>2 DEF TrailInv, TrailTypeOK
  <2>2. CASE ~ initialized
    <3>1. PICK n \in 0 .. Len(Lines), w \in 0 .. Len(Lines), p \in BOOLEAN :
             /\ w <= n
             /\ index' = [i \in RequestIds |-> IF \E j \in 1 .. w : Lines[j].id = i
                                     THEN {Lines[j] : j \in {k \in 1 .. w : Lines[k].id = i}}
                                     ELSE index[i]]
             /\ persistent' = (p /\ w = n)
             /\ recent' = Remember(SubSeq(Lines, 1, n))
             /\ \/ n = Len(Lines) /\ initialized' = TRUE
                \/ UNCHANGED initialized
      BY <2>2 DEF PrepareLocked
    <3>2. initialized' /\ persistent' => w = Len(Lines)
      BY <2>2, <3>1
    <3>3. initialized' \in BOOLEAN /\ persistent' \in BOOLEAN
      BY <3>1 DEF TrailInv, TrailTypeOK
    <3>4. /\ recent' \in Seq(AuditRecords) /\ Len(recent') <= CacheSize
          /\ index' \in [RequestIds -> SUBSET AuditRecords]
          /\ \A k \in 1 .. Len(recent') :
                recent'[k] \in OnFile \/ \E j \in 1 .. Len(recent) : recent'[k] = recent[j]
          /\ \A i \in RequestIds : index'[i] = index[i] \/ index'[i] \subseteq {r \in OnFile : r.id = i}
          /\ w = Len(Lines) => \A r \in OnFile : r \in index'[r.id]
      BY <1>3, <3>1
    <3> QED BY <3>2, <3>3, <3>4
  <2> QED BY <2>1, <2>2 DEF TrailInv, TrailTypeOK
<1>5. \/ pc' = "idle" /\ cur' = {} /\ acked' = acked
      \/ pc' = "lookup" /\ cur # {} /\ cur' = cur /\ acked' = acked /\ initialized'
  <2>1. /\ \/ Fail
           \/ initialized' /\ IF cur = {} THEN Succeed ELSE GoTo("lookup")
    BY DEF PrepareLocked, memVars
  <2>2. cur = {} => acked \cup cur = acked
    OBVIOUS
  <2> QED BY <2>1, <2>2 DEF Succeed, Fail, GoTo
<1>6. /\ \A r \in OnFile : \E k \in Places : Readable(k) /\ r = Rec(k)
      /\ \A k \in Places : Complete(k) => Rec(k) \in OnFile
  BY TrailReads
<1>7. TrailTypeOK'
  BY <1>1, <1>2, <1>4, <1>5 DEF TrailInv, TrailTypeOK, Pcs
<1>8. CallOK'
  BY <1>1, <1>5 DEF TrailInv, CallOK
<1>9. DiskOK'
  <2>1. \A r \in OnFile : r.id \in old \cup mine
    BY <1>6, TextRecord DEF Readable
  <2>2. \A i \in RequestIds : index'[i] # {} => i \in old' \cup mine'
    BY <1>1, <1>4, <2>1 DEF TrailInv, DiskOK
  <2> QED BY <1>1, <2>2, SameFile DEF TrailInv, DiskOK
<1>10. UniqueOK'
  <2>1. ASSUME "sync" \notin faults, initialized', persistent', NEW j \in Places, Complete(j)
        PROVE  Rec(j) \in index'[Rec(j).id]
    <3>1. CASE \A r \in OnFile : r \in index'[r.id]
      BY <1>6, <2>1, <3>1
    <3>2. CASE initialized /\ persistent /\ index' = index
      BY <1>1, <2>1, <3>2 DEF TrailInv, UniqueOK
    <3> QED BY <1>4, <2>1, <3>1, <3>2
  <2> QED BY <1>1, <1>5, <2>1, SameFile DEF TrailInv, UniqueOK
<1>11. KeptOK'
  <2>1. SUFFICES ASSUME "torn" \notin faults, ~ {"power", "replay"} \subseteq faults
                 PROVE  KeptOK'
    BY <1>1 DEF KeptOK
  <2>2. /\ \A k \in Places :
             /\ file[k].kind = "text" => Begins(k) /\ (k = Len(file) \/ Complete(k))
             /\ k = Len(file) => file[k].kind = "newline"
        /\ \A k \in 1 .. Len(recent) : recent[k] \in Whole
        /\ \A i \in RequestIds : i \notin old \/ "power" \notin faults => index[i] \subseteq Whole
        /\ \A r \in acked : \E k \in Places : Complete(k) /\ k < synced /\ Rec(k) = r
    BY <1>1, <2>1 DEF TrailInv, KeptOK
  <2>3. OnFile \subseteq Whole
    BY <1>6, <2>2 DEF Whole, Readable
  <2>4. \A k \in 1 .. Len(recent') : recent'[k] \in Whole
    BY <1>4, <2>2, <2>3
  <2>5. \A i \in RequestIds : i \notin old \/ "power" \notin faults => index'[i] \subseteq Whole
    BY <1>4, <2>2, <2>3
  <2> QED BY <1>1, <1>5, <2>2, <2>4, <2>5, SameFile DEF KeptOK
<1> QED BY <1>7, <1>8, <1>9, <1>10, <1>11 DEF TrailInv

(* The id is looked up in memory, in the index or in the file.             *)
LEMMA LookupKeeps ==
    ASSUME TrailInv, Lookup
    PROVE  TrailInv'
<1>1. /\ pc = "lookup"
      /\ UNCHANGED <<file, synced, index, initialized, persistent, recent, old, mine, calls,
                     faults, crashes, acked>>
  BY DEF Lookup, diskVars, memVars, callerVars, Fail, GoTo
<1>2. initialized /\ cur \in SUBSET AuditRecords /\ \A r \in cur : cur = {r}
  BY <1>1 DEF TrailInv, CallOK, TrailTypeOK
<1>3. PICK r \in cur : \/ pc' = "idle" /\ cur' = {}
                       \/ r \in Known(r.id) /\ pc' = "resync" /\ cur' = cur
                       \/ Known(r.id) = {} /\ pc' = "write" /\ cur' = cur
  BY DEF Lookup, Fail, GoTo
<1>4. cur = {r} /\ r \in AuditRecords /\ r.id \in RequestIds
  BY <1>2 DEF AuditRecords
<1>5. TrailTypeOK'
  BY <1>1, <1>2, <1>3 DEF TrailInv, TrailTypeOK, Pcs
<1>6. CallOK'
  BY <1>1, <1>2, <1>3, <1>4 DEF TrailInv, CallOK
<1>7. DiskOK'
  BY <1>1, DiskFrame
<1>8. UniqueOK'
  <2>1. ASSUME "sync" \notin faults, Known(r.id) = {}, NEW j \in Places, Complete(j)
        PROVE  Rec(j).id # r.id
    <3>1. CASE persistent
      <4>1. index[r.id] = {}
        BY <2>1, <3>1 DEF Known
      <4>2. Rec(j) \in index[Rec(j).id]
        BY <1>1, <1>2, <2>1, <3>1 DEF TrailInv, UniqueOK
      <4> QED BY <4>1, <4>2
    <3>2. CASE ~ persistent
      <4>1. {q \in OnFile : q.id = r.id} = {}
        BY <2>1, <3>2 DEF Known
      <4>2. Rec(j) \in OnFile
        BY <2>1, TrailReads
      <4> QED BY <4>1, <4>2
    <3> QED BY <3>1, <3>2
  <2>2. "sync" \notin faults /\ pc' = "write" =>
           \A j \in Places, q \in cur' : Complete(j) => Rec(j).id # q.id
    BY <1>3, <1>4, <2>1
  <2> QED BY <1>1, <1>3, <2>2, SameFile DEF TrailInv, UniqueOK
<1>9. KeptOK'
  <2>1. SUFFICES ASSUME "torn" \notin faults, ~ {"power", "replay"} \subseteq faults
                 PROVE  KeptOK'
    BY <1>1 DEF KeptOK
  <2>2. /\ \A k \in Places :
             /\ file[k].kind = "text" => Begins(k) /\ (k = Len(file) \/ Complete(k))
             /\ k = Len(file) => file[k].kind = "newline"
        /\ \A k \in 1 .. Len(recent) : recent[k] \in Whole
        /\ \A i \in RequestIds : i \notin old \/ "power" \notin faults => index[i] \subseteq Whole
    BY <1>1, <2>1 DEF TrailInv, KeptOK
  <2>3. ASSUME r \in Known(r.id) PROVE r \in Whole
    <3>1. CASE Cached(r.id) # {}
      <4>1. r \in Cached(r.id)
        BY <2>3, <3>1 DEF Known
      <4> QED BY <2>2, <4>1 DEF Cached
    <3>2. CASE Cached(r.id) = {} /\ persistent
      <4>1. r \in index[r.id]
        BY <2>3, <3>2 DEF Known
      <4>2. r.id \notin old \/ "power" \notin faults
        BY <1>4, <2>1 DEF TrailInv, CallOK
      <4> QED BY <1>4, <2>2, <4>1, <4>2
    <3>3. CASE Cached(r.id) = {} /\ ~ persistent
      <4>1. r \in OnFile
        BY <2>3, <3>3 DEF Known
      <4>2. PICK k \in Places : Readable(k) /\ r = Rec(k)
        BY <4>1, TrailReads
      <4>3. Complete(k)
        BY <2>2, <4>2 DEF Readable
      <4> QED BY <4>2, <4>3 DEF Whole
    <3> QED BY <3>1, <3>2, <3>3
  <2>4. pc' = "resync" => cur' \subseteq Whole
    BY <1>3, <1>4, <2>3
  <2> QED BY <1>1, <1>3, <2>4, SameFile DEF TrailInv, KeptOK
<1> QED BY <1>5, <1>6, <1>7, <1>8, <1>9 DEF TrailInv

(* The text of the record is written.                                      *)
LEMMA WriteTextKeeps ==
    ASSUME TrailInv, WriteText
    PROVE  TrailInv'
<1>1. /\ pc = "write"
      /\ UNCHANGED <<synced, index, initialized, persistent, recent, old, mine, calls, faults,
                     crashes, acked>>
  BY DEF WriteText, memVars, callerVars, Fail, GoTo
<1>2. PICK r \in cur : cur = {r} /\ r \in AuditRecords /\ r.id \in mine
  BY <1>1 DEF TrailInv, CallOK, TrailTypeOK
<1>3. /\ file \in Seq(Chunks) /\ Len(file) \in Nat /\ synced \in 0 .. Len(file)
      /\ cur \in SUBSET AuditRecords /\ Places = 1 .. Len(file)
  BY DEF TrailInv, TrailTypeOK, Places
<1>4. CASE UNCHANGED file
  <2>1. pc' = "idle" /\ cur' = {}
    BY <1>3, <1>4 DEF WriteText, Fail
  <2>2. TrailTypeOK'
    BY <1>1, <1>4, <2>1 DEF TrailInv, TrailTypeOK, Pcs
  <2>3. CallOK'
    BY <2>1 DEF CallOK
  <2>4. DiskOK'
    BY <1>1, <1>4, DiskFrame
  <2>5. UniqueOK'
    BY <1>1, <1>4, <2>1, SameFile DEF TrailInv, UniqueOK
  <2>6. KeptOK'
    BY <1>1, <1>4, <2>1, SameFile DEF TrailInv, KeptOK
  <2> QED BY <2>2, <2>3, <2>4, <2>5, <2>6 DEF TrailInv
<1>5. ASSUME NEW kind \in {"text", "torn"}, file' = Append(file, [kind |-> kind, rec |-> cur]),
             \/ kind = "text" /\ pc' = "newline" /\ cur' = cur
             \/ kind = "torn" /\ "torn" \in faults /\ pc' = "idle" /\ cur' = {}
      PROVE  TrailInv'
  <2> PICK c : c = [kind |-> kind, rec |-> cur]
    OBVIOUS
  <2> PICK top : top = Len(file) + 1
    OBVIOUS
  <2>1. c \in Chunks /\ c.kind = kind /\ c.rec = {r} /\ c.kind # "newline"
    BY <1>2, <1>3 DEF Chunks
  <2>2. /\ file' \in Seq(Chunks) /\ Len(file') = top /\ top \in Nat
        /\ Places' = Places \cup {top} /\ file'[top] = c /\ top \notin Places
        /\ \A k \in Places : /\ file'[k] = file[k] /\ Rec(k)' = Rec(k)
                             /\ Begins(k)' <=> Begins(k)
                             /\ Complete(k)' <=> Complete(k)
                             /\ k < top
        /\ ~ Complete(top)'
        /\ Begins(top)' <=>
             c.kind = "text" /\ (file = <<>> \/ file[Len(file)].kind = "newline")
        /\ Whole \subseteq Whole'
    <3>1. file' = Append(file, c)
      BY <1>5
    <3>2. \A k \in Places : /\ file'[k] = file[k] /\ Rec(k)' = Rec(k)
                            /\ Begins(k)' <=> Begins(k)
                            /\ Complete(k)' <=>
                                 \/ Complete(k)
                                 \/ k = Len(file) /\ Begins(k) /\ c.kind = "newline"
                            /\ k < top
      BY <2>1, <3>1, LongerFile
    <3>3. \A k \in Places : Complete(k)' <=> Complete(k)
      BY <2>1, <3>2
    <3>4. /\ file' \in Seq(Chunks) /\ Len(file') = top /\ top \in Nat
          /\ Places' = Places \cup {top} /\ file'[top] = c /\ top \notin Places
          /\ ~ Complete(top)'
          /\ Begins(top)' <=>
               c.kind = "text" /\ (file = <<>> \/ file[Len(file)].kind = "newline")
          /\ Whole \subseteq Whole'
      BY <2>1, <3>1, LongerFile
    <3> QED BY <3>2, <3>3, <3>4
  <2>3. Rec(top)' = r
    <3>1. Rec(top)' = CHOOSE x \in c.rec : TRUE
      BY <1>5, <2>1, LongerFile
    <3> QED BY <2>1, <3>1
  <2>4. TrailTypeOK'
    <3>1. synced' \in 0 .. Len(file')
      BY <1>1, <1>3, <2>2
    <3>2. cur' \in SUBSET AuditRecords /\ pc' \in Pcs
      BY <1>3, <1>5 DEF Pcs
    <3> QED BY <1>1, <2>2, <3>1, <3>2 DEF TrailInv, TrailTypeOK
  <2>5. CallOK'
    <3>1. file' # <<>>
      BY <1>3, <2>2
    <3> QED BY <1>1, <1>2, <1>5, <2>2, <3>1 DEF TrailInv, CallOK
  <2>6. DiskOK'
    <3>1. \A k \in Places' : file'[k].kind = "text" =>
             \E x \in AuditRecords : file'[k].rec = {x} /\ x.id \in old' \cup mine'
      BY <1>1, <1>2, <2>1, <2>2 DEF TrailInv, DiskOK
    <3> QED BY <1>1, <3>1 DEF TrailInv, DiskOK
  <2>7. UniqueOK'
    <3>1. SUFFICES ASSUME "sync" \notin faults PROVE UniqueOK'
      BY <1>1 DEF UniqueOK
    <3>2. \A j, k \in Places' : j < k /\ Complete(j)' /\ Begins(k)' => Rec(j)'.id # Rec(k)'.id
      <4>1. ASSUME NEW j \in Places', NEW k \in Places', j < k, Complete(j)', Begins(k)'
            PROVE  Rec(j)'.id # Rec(k)'.id
        <5>1. j \in Places /\ Complete(j) /\ Rec(j)' = Rec(j)
          BY <2>2, <4>1
        <5>2. CASE k = top
          BY <1>1, <1>2, <2>3, <3>1, <5>1, <5>2 DEF TrailInv, UniqueOK
        <5>3. CASE k \in Places
          BY <2>2, <3>1, <4>1, <5>1, <5>3 DEF TrailInv, UniqueOK
        <5> QED BY <2>2, <5>2, <5>3
      <4> QED BY <4>1
    <3>3. \A j \in Places' : Complete(j)' => j \in Places /\ Complete(j) /\ Rec(j)' = Rec(j)
      BY <2>2
    <3>4. initialized' /\ persistent' =>
             \A j \in Places' : Complete(j)' => Rec(j)' \in index'[Rec(j)'.id]
      BY <1>1, <3>1, <3>3 DEF TrailInv, UniqueOK
    <3>5. pc' = "newline" => \A j \in Places', q \in cur' : Complete(j)' => Rec(j)'.id # q.id
      BY <1>1, <1>5, <3>1, <3>3 DEF TrailInv, UniqueOK
    <3>6. pc' \notin {"write", "sync", "index"}
      BY <1>5
    <3> QED BY <3>2, <3>4, <3>5, <3>6 DEF UniqueOK
  <2>8. KeptOK'
    <3>1. SUFFICES ASSUME "torn" \notin faults, ~ {"power", "replay"} \subseteq faults
                   PROVE  KeptOK'
      BY <1>1 DEF KeptOK
    <3>2. /\ \A k \in Places :
               /\ file[k].kind = "text" => Begins(k) /\ (k = Len(file) \/ Complete(k))
               /\ k = Len(file) => file[k].kind = "newline"
          /\ \A k \in 1 .. Len(recent) : recent[k] \in Whole
          /\ \A i \in RequestIds : i \notin old \/ "power" \notin faults => index[i] \subseteq Whole
          /\ \A q \in acked : \E k \in Places : Complete(k) /\ k < synced /\ Rec(k) = q
      BY <1>1, <3>1 DEF TrailInv, KeptOK
    <3>3. pc' = "newline" /\ c.kind = "text"
      BY <1>5, <2>1, <3>1
    <3>4. Begins(top)'
      <4>1. file # <<>> => Len(file) \in Places
        BY <1>3
      <4> QED BY <2>2, <3>2, <3>3, <4>1
    <3>5. \A k \in Places' : file'[k].kind = "text" => Begins(k)' /\ (k = Len(file') \/ Complete(k)')
      BY <2>2, <3>2, <3>4
    <3>6. \A q \in acked' : \E k \in Places' : Complete(k)' /\ k < synced' /\ Rec(k)' = q
      BY <1>1, <2>2, <3>2
    <3>7. \A k \in 1 .. Len(recent') : recent'[k] \in Whole'
      BY <1>1, <2>2, <3>2
    <3>8. \A i \in RequestIds : i \notin old' \/ "power" \notin faults' => index'[i] \subseteq Whole'
      BY <1>1, <2>2, <3>2
    <3> QED BY <3>3, <3>5, <3>6, <3>7, <3>8 DEF KeptOK
  <2> QED BY <2>4, <2>5, <2>6, <2>7, <2>8 DEF TrailInv
<1>6. \/ UNCHANGED file
      \/ \E kind \in {"text", "torn"} :
            /\ file' = Append(file, [kind |-> kind, rec |-> cur])
            /\ \/ kind = "text" /\ pc' = "newline" /\ cur' = cur
               \/ kind = "torn" /\ "torn" \in faults /\ pc' = "idle" /\ cur' = {}
  BY DEF WriteText, Fail, GoTo
<1> QED BY <1>4, <1>5, <1>6

(* The newline is written, and the record remembered.                      *)
LEMMA WriteNewlineKeeps ==
    ASSUME TrailInv, WriteNewline
    PROVE  TrailInv'
<1>1. /\ pc = "newline"
      /\ UNCHANGED <<synced, index, initialized, persistent, old, mine, calls, faults, crashes,
                     acked>>
  BY DEF WriteNewline, callerVars, Fail, GoTo
<1>2. PICK r \in cur : cur = {r} /\ r \in AuditRecords /\ r.id \in mine
  BY <1>1 DEF TrailInv, CallOK, TrailTypeOK
<1>3. /\ file \in Seq(Chunks) /\ Len(file) \in Nat /\ synced \in 0 .. Len(file)
      /\ cur \in SUBSET AuditRecords /\ Places = 1 .. Len(file)
      /\ file # <<>> /\ file[Len(file)] = [kind |-> "text", rec |-> cur]
  BY <1>1 DEF TrailInv, TrailTypeOK, Places, CallOK
<1> PICK len : len = Len(file)
  OBVIOUS
<1>4. len \in Places /\ file[len].kind = "text" /\ Rec(len) = r /\ len \in Nat
  BY <1>2, <1>3 DEF Rec
<1>5. CASE UNCHANGED <<file, recent>> /\ "torn" \in faults /\ pc' = "idle" /\ cur' = {}
  <2>1. TrailTypeOK'
    BY <1>1, <1>5 DEF TrailInv, TrailTypeOK, Pcs
  <2>2. CallOK'
    BY <1>5 DEF CallOK
  <2>3. DiskOK'
    BY <1>1, <1>5, DiskFrame
  <2>4. UniqueOK'
    BY <1>1, <1>5, SameFile DEF TrailInv, UniqueOK
  <2>5. KeptOK'
    BY <1>1, <1>5 DEF KeptOK
  <2> QED BY <2>1, <2>2, <2>3, <2>4, <2>5 DEF TrailInv
<1>6. CASE /\ file' = Append(file, [kind |-> "newline", rec |-> {}])
           /\ recent' = Remember(<<r>>) /\ pc' = "sync" /\ cur' = cur
  <2> PICK c : c = [kind |-> "newline", rec |-> {}]
    OBVIOUS
  <2> PICK top : top = Len(file) + 1
    OBVIOUS
  <2>1. c \in Chunks /\ c.kind = "newline"
    BY DEF Chunks
  <2>2. /\ file' \in Seq(Chunks) /\ Len(file') = top /\ top \in Nat
        /\ Places' = Places \cup {top} /\ file'[top] = c /\ top \notin Places
        /\ \A k \in Places : /\ file'[k] = file[k] /\ Rec(k)' = Rec(k)
                             /\ Begins(k)' <=> Begins(k)
                             /\ Complete(k)' <=> Complete(k) \/ (k = len /\ Begins(k))
                             /\ k < top
        /\ ~ Complete(top)'
        /\ ~ Begins(top)'
        /\ Whole \subseteq Whole'
    <3>1. file' = Append(file, c)
      BY <1>6
    <3>2. len = Len(file) /\ top = Len(file) + 1
      OBVIOUS
    <3> QED BY ONLY TrailInv, <2>1, <3>1, <3>2, LongerFile
  <2>3. /\ recent' \in Seq(AuditRecords) /\ Len(recent') <= CacheSize
        /\ \A k \in 1 .. Len(recent') :
              recent'[k] = r \/ \E j \in 1 .. Len(recent) : recent'[k] = recent[j]
    <3>1. <<r>> \in Seq(AuditRecords) /\ Len(<<r>>) = 1 /\ <<r>>[1] = r
      BY <1>2
    <3>2. \A j \in 1 .. Len(<<r>>) : <<r>>[j] = r
      BY <3>1
    <3> PICK s : s = <<r>>
      OBVIOUS
    <3>3. /\ Remember(s) \in Seq(AuditRecords) /\ Len(Remember(s)) <= CacheSize
          /\ \A k \in 1 .. Len(Remember(s)) :
                \/ \E j \in 1 .. Len(recent) : Remember(s)[k] = recent[j]
                \/ \E j \in 1 .. Len(s) : Remember(s)[k] = s[j]
      BY <3>1, RememberKeeps
    <3>4. recent' = Remember(s)
      BY <1>6
    <3>5. \A j \in 1 .. Len(s) : s[j] = r
      BY <3>2
    <3> QED BY ONLY <3>3, <3>4, <3>5
  <2>4. TrailTypeOK'
    <3>1. synced' \in 0 .. Len(file')
      BY <1>1, <1>3, <2>2
    <3>2. cur' \in SUBSET AuditRecords /\ pc' \in Pcs
      BY <1>3, <1>6 DEF Pcs
    <3> QED BY <1>1, <2>2, <2>3, <3>1, <3>2 DEF TrailInv, TrailTypeOK
  <2>5. CallOK'
    <3>1. Len(file') > 1 /\ Len(file') - 1 = len /\ file'[Len(file')] = c
      BY <1>3, <1>4, <2>2
    <3>2. file'[Len(file') - 1] = [kind |-> "text", rec |-> cur']
      BY <1>3, <1>4, <1>6, <2>2, <3>1
    <3> QED BY <1>1, <1>2, <1>6, <2>1, <3>1, <3>2 DEF TrailInv, CallOK
  <2>6. DiskOK'
    <3>1. \A k \in Places' : file'[k].kind = "text" =>
             \E x \in AuditRecords : file'[k].rec = {x} /\ x.id \in old' \cup mine'
      BY <1>1, <2>1, <2>2 DEF TrailInv, DiskOK
    <3> QED BY <1>1, <3>1 DEF TrailInv, DiskOK
  <2>7. UniqueOK'
    <3>1. SUFFICES ASSUME "sync" \notin faults PROVE UniqueOK'
      BY <1>1 DEF UniqueOK
    <3>2. ASSUME NEW j \in Places', NEW k \in Places', j < k, Complete(j)', Begins(k)'
          PROVE  Rec(j)'.id # Rec(k)'.id
      <4>1. j \in Places /\ k \in Places /\ Rec(j)' = Rec(j) /\ Rec(k)' = Rec(k) /\ Begins(k)
        BY <2>2, <3>2
      <4>2. j # len
        BY <1>3, <3>2, <4>1
      <4>3. Complete(j)
        BY <2>2, <3>2, <4>1, <4>2
      <4> QED BY <3>1, <3>2, <4>1, <4>3 DEF TrailInv, UniqueOK
    <3>3. \A j \in Places' : Complete(j)' =>
             j \in Places /\ (Complete(j) \/ Rec(j) = r) /\ Rec(j)' = Rec(j)
      BY <1>4, <2>2
    <3>4. initialized' /\ persistent' =>
             \A j \in Places' : Complete(j)' => Rec(j)' \in index'[Rec(j)'.id] \/ Rec(j)' \in cur'
      BY <1>1, <1>2, <1>6, <3>1, <3>3 DEF TrailInv, UniqueOK
    <3>5. \A j \in Places', q \in cur' : Complete(j)' /\ Rec(j)'.id = q.id => Rec(j)' = q
      BY <1>1, <1>2, <1>6, <3>1, <3>3 DEF TrailInv, UniqueOK
    <3>6. pc' = "sync"
      BY <1>6
    <3> QED BY <3>2, <3>4, <3>5, <3>6 DEF UniqueOK
  <2>8. KeptOK'
    <3>1. SUFFICES ASSUME "torn" \notin faults, ~ {"power", "replay"} \subseteq faults
                   PROVE  KeptOK'
      BY <1>1 DEF KeptOK
    <3>2. /\ \A k \in Places :
               file[k].kind = "text" => Begins(k) /\ (k = Len(file) \/ Complete(k))
          /\ \A k \in 1 .. Len(recent) : recent[k] \in Whole
          /\ \A i \in RequestIds : i \notin old \/ "power" \notin faults => index[i] \subseteq Whole
          /\ \A q \in acked : \E k \in Places : Complete(k) /\ k < synced /\ Rec(k) = q
      BY <3>1 DEF TrailInv, KeptOK
    <3>3. Complete(len)' /\ r \in Whole'
      <4>1. len \in Places' /\ Complete(len)' /\ Rec(len)' = r
        BY <1>4, <2>2, <3>2
      <4> QED BY <4>1 DEF Whole
    <3>4. \A k \in Places' : /\ file'[k].kind = "text" => Begins(k)' /\ (k = Len(file') \/ Complete(k)')
                             /\ k = Len(file') => file'[k].kind = "newline"
      BY <2>1, <2>2, <3>2
    <3>5. \A q \in acked' : \E k \in Places' : Complete(k)' /\ k < synced' /\ Rec(k)' = q
      BY <1>1, <2>2, <3>2
    <3>6. \A k \in 1 .. Len(recent') : recent'[k] \in Whole'
      BY <2>2, <2>3, <3>2, <3>3
    <3>7. \A i \in RequestIds : i \notin old' \/ "power" \notin faults' => index'[i] \subseteq Whole'
      BY <1>1, <2>2, <3>2
    <3> QED BY <1>6, <3>4, <3>5, <3>6, <3>7 DEF KeptOK
  <2> QED BY <2>4, <2>5, <2>6, <2>7, <2>8 DEF TrailInv
<1> QED BY <1>2, <1>5, <1>6 DEF WriteNewline, Fail, GoTo

(* The file is synced for the first time.                                  *)
LEMMA SyncKeeps ==
    ASSUME TrailInv, Sync
    PROVE  TrailInv'
<1>1. /\ pc = "sync"
      /\ UNCHANGED <<file, index, initialized, persistent, recent, old, mine, calls, faults,
                     crashes, acked>>
      /\ \/ pc' = "index" /\ cur' = cur /\ synced' = Len(file)
         \/ pc' = "idle" /\ cur' = {} /\ synced' = synced /\ "sync" \in faults
  BY DEF Sync, memVars, callerVars, Fail, GoTo
<1>2. file \in Seq(Chunks) /\ Len(file) \in Nat /\ synced \in 0 .. Len(file)
      /\ Places = 1 .. Len(file)
  BY DEF TrailInv, TrailTypeOK, Places
<1>3. synced' \in 0 .. Len(file') /\ synced' >= synced
  BY <1>1, <1>2
<1>4. TrailTypeOK'
  BY <1>1, <1>3 DEF TrailInv, TrailTypeOK, Pcs
<1>5. CallOK'
  BY <1>1 DEF TrailInv, CallOK
<1>6. DiskOK'
  BY <1>1, DiskFrame
<1>7. UniqueOK'
  BY <1>1, SameFile DEF TrailInv, UniqueOK
<1>8. KeptOK'
  <2>1. SUFFICES ASSUME "torn" \notin faults, ~ {"power", "replay"} \subseteq faults
                 PROVE  KeptOK'
    BY <1>1 DEF KeptOK
  <2>2. \A q \in acked' : \E k \in Places' : Complete(k)' /\ k < synced' /\ Rec(k)' = q
    <3>1. ASSUME NEW q \in acked PROVE \E k \in Places : Complete(k) /\ k < synced' /\ Rec(k) = q
      <4>1. PICK k \in Places : Complete(k) /\ k < synced /\ Rec(k) = q
        BY <2>1, <3>1 DEF TrailInv, KeptOK
      <4>2. k < synced'
        BY <1>2, <1>3, <4>1
      <4> QED BY <4>1, <4>2
    <3> QED BY <1>1, <3>1, SameFile
  <2>3. pc' = "index" => synced' = Len(file')
    BY <1>1
  <2> QED BY <1>1, <2>1, <2>2, <2>3, SameFile DEF TrailInv, KeptOK
<1> QED BY <1>4, <1>5, <1>6, <1>7, <1>8 DEF TrailInv

(* A record that was found is synced again, and acknowledged.              *)
LEMMA ResyncKeeps ==
    ASSUME TrailInv, Resync
    PROVE  TrailInv'
<1>1. /\ pc = "resync" /\ pc' = "idle" /\ cur' = {}
      /\ UNCHANGED <<file, index, initialized, persistent, recent, old, mine, calls, faults,
                     crashes>>
      /\ \/ acked' = acked \cup cur /\ synced' = Len(file)
         \/ acked' = acked /\ synced' = synced
  BY DEF Resync, memVars, callerVars, Fail, Succeed
<1>2. file \in Seq(Chunks) /\ Len(file) \in Nat /\ synced \in 0 .. Len(file)
      /\ Places = 1 .. Len(file) /\ cur \in SUBSET AuditRecords /\ acked \in SUBSET AuditRecords
  BY DEF TrailInv, TrailTypeOK, Places
<1>3. synced' \in 0 .. Len(file') /\ synced' >= synced
  BY <1>1, <1>2
<1>4. acked' \in SUBSET AuditRecords
  BY <1>1, <1>2
<1>5. TrailTypeOK'
  BY <1>1, <1>3, <1>4 DEF TrailInv, TrailTypeOK, Pcs
<1>6. CallOK'
  BY <1>1 DEF CallOK
<1>7. DiskOK'
  BY <1>1, DiskFrame
<1>8. UniqueOK'
  BY <1>1, SameFile DEF TrailInv, UniqueOK
<1>9. KeptOK'
  <2>1. SUFFICES ASSUME "torn" \notin faults, ~ {"power", "replay"} \subseteq faults
                 PROVE  KeptOK'
    BY <1>1 DEF KeptOK
  <2>2. ASSUME NEW q \in acked' PROVE \E k \in Places : Complete(k) /\ k < synced' /\ Rec(k) = q
    <3>1. CASE q \in acked
      <4>1. PICK k \in Places : Complete(k) /\ k < synced /\ Rec(k) = q
        BY <2>1, <3>1 DEF TrailInv, KeptOK
      <4>2. k < synced'
        BY <1>2, <1>3, <4>1
      <4> QED BY <4>1, <4>2
    <3>2. CASE q \notin acked
      <4>1. q \in cur /\ synced' = Len(file)
        BY <1>1, <2>2, <3>2
      <4>2. q \in Whole
        BY <1>1, <2>1, <4>1 DEF TrailInv, KeptOK
      <4>3. PICK k \in Places : Complete(k) /\ Rec(k) = q
        BY <4>2 DEF Whole
      <4>4. k < synced'
        BY <4>1, <4>3 DEF Complete
      <4> QED BY <4>3, <4>4
    <3> QED BY <3>1, <3>2
  <2>3. \A q \in acked' : \E k \in Places' : Complete(k)' /\ k < synced' /\ Rec(k)' = q
    BY <1>1, <2>2, SameFile
  <2> QED BY <1>1, <2>1, <2>3, SameFile DEF TrailInv, KeptOK
<1> QED BY <1>5, <1>6, <1>7, <1>8, <1>9 DEF TrailInv

(* The index entry is written, or the index given up; the record is        *)
(* acknowledged.                                                           *)
LEMMA WriteIndexKeeps ==
    ASSUME TrailInv, WriteIndex
    PROVE  TrailInv'
<1>1. /\ pc = "index" /\ pc' = "idle" /\ cur' = {} /\ acked' = acked \cup cur
      /\ UNCHANGED <<file, synced, initialized, recent, old, mine, calls, faults, crashes>>
  BY DEF WriteIndex, callerVars, Succeed
<1>2. PICK r \in cur : \/ /\ persistent /\ persistent' = persistent
                          /\ index' = [index EXCEPT ![r.id] = {r}]
                       \/ persistent' = FALSE /\ index' = index
  BY DEF WriteIndex
<1>3. cur = {r} /\ r \in AuditRecords /\ r.id \in mine /\ r.id \in RequestIds
  BY <1>2 DEF TrailInv, TrailTypeOK, CallOK, AuditRecords
<1>4. /\ file \in Seq(Chunks) /\ Len(file) \in Nat /\ synced \in 0 .. Len(file)
      /\ Places = 1 .. Len(file) /\ acked \in SUBSET AuditRecords
      /\ index \in [RequestIds -> SUBSET AuditRecords] /\ persistent \in BOOLEAN
  BY DEF TrailInv, TrailTypeOK, Places
<1>5. /\ Len(file) > 1 /\ file[Len(file)].kind = "newline"
      /\ file[Len(file) - 1] = [kind |-> "text", rec |-> {r}]
  BY <1>1, <1>3 DEF TrailInv, CallOK
<1>6. /\ index' \in [RequestIds -> SUBSET AuditRecords] /\ persistent' \in BOOLEAN
      /\ \A i \in RequestIds : index'[i] = index[i] \/ (i = r.id /\ index'[i] = {r})
      /\ persistent' => persistent /\ index'[r.id] = {r}
  <2>1. CASE persistent' = FALSE /\ index' = index
    BY <1>4, <2>1
  <2>2. CASE /\ persistent /\ persistent' = persistent
             /\ index' = [index EXCEPT ![r.id] = {r}]
    <3>1. index' \in [RequestIds -> SUBSET AuditRecords]
      BY <1>3, <1>4, <2>2
    <3>2. \A i \in RequestIds : index'[i] = IF i = r.id THEN {r} ELSE index[i]
      BY <1>3, <1>4, <2>2
    <3> QED BY <1>3, <1>4, <2>2, <3>1, <3>2
  <2> QED BY <1>2, <2>1, <2>2
<1>7. acked' \in SUBSET AuditRecords
  BY <1>1, <1>3, <1>4
<1>8. TrailTypeOK'
  BY <1>1, <1>6, <1>7 DEF TrailInv, TrailTypeOK, Pcs
<1>9. CallOK'
  BY <1>1 DEF CallOK
<1>10. DiskOK'
  <2>1. \A i \in RequestIds : index'[i] # {} => i \in old' \cup mine'
    BY <1>1, <1>3, <1>6 DEF TrailInv, DiskOK
  <2> QED BY <1>1, <2>1, SameFile DEF TrailInv, DiskOK
<1>11. UniqueOK'
  <2>1. SUFFICES ASSUME "sync" \notin faults PROVE UniqueOK'
    BY <1>1 DEF UniqueOK
  <2>2. ASSUME initialized, persistent', NEW j \in Places, Complete(j)
        PROVE  Rec(j) \in index'[Rec(j).id]
    <3>1. Rec(j) \in index[Rec(j).id] \/ Rec(j) = r
      BY <1>3, <1>6, <2>1, <2>2 DEF TrailInv, UniqueOK
    <3>2. Rec(j).id = r.id => Rec(j) = r
      BY <1>1, <1>3, <2>1, <2>2 DEF TrailInv, UniqueOK
    <3>3. Rec(j).id \in RequestIds
      BY <2>2, TextRecord DEF Complete, Begins
    <3> QED BY <1>6, <2>2, <3>1, <3>2, <3>3
  <2>3. initialized' /\ persistent' =>
           \A j \in Places' : Complete(j)' => Rec(j)' \in index'[Rec(j)'.id]
    BY <1>1, <2>2, SameFile
  <2> QED BY <1>1, <2>1, <2>3, SameFile DEF TrailInv, UniqueOK
<1>12. KeptOK'
  <2>1. SUFFICES ASSUME "torn" \notin faults, ~ {"power", "replay"} \subseteq faults
                 PROVE  KeptOK'
    BY <1>1 DEF KeptOK
  <2> PICK k0 : k0 = Len(file) - 1
    OBVIOUS
  <2>2. k0 \in Places /\ k0 < Len(file) /\ k0 + 1 = Len(file) /\ file[k0] = [kind |-> "text", rec |-> {r}]
    BY <1>4, <1>5
  <2>3. Begins(k0)
    BY <2>1, <2>2 DEF TrailInv, KeptOK
  <2>4. Complete(k0) /\ Rec(k0) = r
    BY <1>5, <2>2, <2>3 DEF Complete, Rec
  <2>5. r \in Whole
    BY <2>2, <2>4 DEF Whole
  <2>6. k0 < synced
    BY <1>1, <2>1, <2>2 DEF TrailInv, KeptOK
  <2>7. \A q \in acked' : \E k \in Places : Complete(k) /\ k < synced /\ Rec(k) = q
    <3>1. \A q \in acked : \E k \in Places : Complete(k) /\ k < synced /\ Rec(k) = q
      BY <2>1 DEF TrailInv, KeptOK
    <3> QED BY <1>1, <1>3, <2>2, <2>4, <2>6, <3>1
  <2>8. \A i \in RequestIds : i \notin old \/ "power" \notin faults => index'[i] \subseteq Whole
    <3>1. \A i \in RequestIds : i \notin old \/ "power" \notin faults => index[i] \subseteq Whole
      BY <2>1 DEF TrailInv, KeptOK
    <3> QED BY <1>6, <2>5, <3>1
  <2> QED BY <1>1, <2>1, <2>7, <2>8, SameFile DEF TrailInv, KeptOK
<1> QED BY <1>8, <1>9, <1>10, <1>11, <1>12 DEF TrailInv

(* The process dies, with or without the power.                            *)
LEMMA CrashKeeps ==
    ASSUME TrailInv, Crash
    PROVE  TrailInv'
<1>1. /\ crashes' = crashes + 1 /\ initialized' = FALSE /\ persistent' = FALSE /\ recent' = <<>>
      /\ old' = old \cup mine /\ mine' = {} /\ pc' = "idle" /\ cur' = {}
      /\ UNCHANGED <<acked, calls, faults, synced>>
      /\ pc = "newline" => "torn" \in faults
  BY DEF Crash, Fail, diskVars
<1>2. /\ file \in Seq(Chunks) /\ Len(file) \in Nat /\ synced \in 0 .. Len(file)
      /\ Places = 1 .. Len(file) /\ index \in [RequestIds -> SUBSET AuditRecords]
  BY DEF TrailInv, TrailTypeOK, Places
<1>3. PICK n \in 0 .. Len(file) :
         /\ n >= synced /\ file' = SubSeq(file, 1, n)
         /\ n = Len(file) \/ n = 0 \/ file[n].kind = "newline" \/ "torn" \in faults
         /\ index' \in [RequestIds -> SUBSET AuditRecords]
         /\ \A i \in RequestIds : index'[i] = index[i] \/ index'[i] = {}
         /\ (index' = index /\ n = Len(file)) \/ "power" \in faults
  <2>1. CASE UNCHANGED diskVars
    <3>1. file' = SubSeq(file, 1, Len(file)) /\ Len(file) \in 0 .. Len(file)
          /\ Len(file) >= synced
      BY <1>2, <2>1 DEF diskVars
    <3> QED BY <1>2, <2>1, <3>1 DEF diskVars
  <2>2. CASE /\ "power" \in faults
             /\ \E n \in Cuts : file' = SubSeq(file, 1, n)
             /\ \E lost \in SUBSET RequestIds :
                  index' = [i \in RequestIds |-> IF i \in lost THEN {} ELSE index[i]]
    <3>1. PICK n \in Cuts : file' = SubSeq(file, 1, n)
      BY <2>2
    <3>2. /\ n \in 0 .. Len(file) /\ n >= synced
          /\ n = 0 \/ file[n].kind = "newline" \/ "torn" \in faults
      BY <1>2 DEF Cuts
    <3>3. PICK lost \in SUBSET RequestIds :
             index' = [i \in RequestIds |-> IF i \in lost THEN {} ELSE index[i]]
      BY <2>2
    <3>4. /\ index' \in [RequestIds -> SUBSET AuditRecords]
          /\ \A i \in RequestIds : index'[i] = index[i] \/ index'[i] = {}
      BY <1>2, <3>3
    <3> QED BY <2>2, <3>1, <3>2, <3>4
  <2> QED BY <2>1, <2>2 DEF Crash
<1>4. /\ file' \in Seq(Chunks) /\ Len(file') = n /\ Places' \subseteq Places
      /\ Places' = 1 .. n
      /\ \A k \in Places' : /\ file'[k] = file[k] /\ Rec(k)' = Rec(k)
                            /\ Begins(k)' <=> Begins(k)
                            /\ Complete(k)' <=> Complete(k) /\ k < n
  BY <1>3, CutFile
<1>5. TrailTypeOK'
  <2>1. synced' \in 0 .. Len(file')
    BY <1>1, <1>2, <1>3, <1>4
  <2>2. recent' \in Seq(AuditRecords) /\ Len(recent') <= CacheSize
    BY <1>1, TrailAssumption
  <2>3. old' \subseteq RequestIds /\ mine' \subseteq RequestIds /\ crashes' \in Nat
    BY <1>1 DEF TrailInv, TrailTypeOK
  <2> QED BY <1>1, <1>3, <1>4, <2>1, <2>2, <2>3 DEF TrailInv, TrailTypeOK, Pcs
<1>6. CallOK'
  BY <1>1 DEF CallOK
<1>7. DiskOK'
  <2>1. \A k \in Places' : file'[k].kind = "text" =>
           \E r \in AuditRecords : file'[k].rec = {r} /\ r.id \in old' \cup mine'
    BY <1>1, <1>4 DEF TrailInv, DiskOK
  <2>2. \A i \in RequestIds : index'[i] # {} => i \in old' \cup mine'
    BY <1>1, <1>3 DEF TrailInv, DiskOK
  <2> QED BY <2>1, <2>2 DEF DiskOK
<1>8. UniqueOK'
  <2>1. SUFFICES ASSUME "sync" \notin faults PROVE UniqueOK'
    BY <1>1 DEF UniqueOK
  <2>2. \A j, k \in Places : j < k /\ Complete(j) /\ Begins(k) => Rec(j).id # Rec(k).id
    BY <2>1 DEF TrailInv, UniqueOK
  <2>3. \A j, k \in Places' : j < k /\ Complete(j)' /\ Begins(k)' => Rec(j)'.id # Rec(k)'.id
    BY <1>4, <2>2
  <2> QED BY <1>1, <2>3 DEF UniqueOK
<1>9. KeptOK'
  <2>1. SUFFICES ASSUME "torn" \notin faults, ~ {"power", "replay"} \subseteq faults
                 PROVE  KeptOK'
    BY <1>1 DEF KeptOK
  <2>2. /\ \A k \in Places :
             /\ file[k].kind = "text" => Begins(k) /\ (k = Len(file) \/ Complete(k))
             /\ k = Len(file) => file[k].kind = "newline"
        /\ \A i \in RequestIds : i \notin old \/ "power" \notin faults => index[i] \subseteq Whole
        /\ \A r \in acked : \E k \in Places : Complete(k) /\ k < synced /\ Rec(k) = r
    BY <1>1, <2>1 DEF TrailInv, KeptOK
  <2>3. \A k \in Places' : k = n => file[k].kind = "newline"
    <3>1. ASSUME n \in Places' PROVE file[n].kind = "newline"
      <4>1. n \in Places /\ n # 0
        BY <1>4, <3>1
      <4> QED BY <1>3, <2>1, <2>2, <4>1
    <3> QED BY <3>1
  <2>4. \A k \in Places' :
           /\ file'[k].kind = "text" => Begins(k)' /\ Complete(k)'
           /\ k = Len(file') => file'[k].kind = "newline"
    <3>1. ASSUME NEW k \in Places', file'[k].kind = "text"
          PROVE  Begins(k)' /\ Complete(k)'
      <4>1. k \in Places /\ file[k].kind = "text" /\ k # n /\ k # Len(file)
        BY <1>4, <2>2, <2>3, <3>1
      <4>2. k < n
        BY <1>2, <1>4, <3>1, <4>1
      <4> QED BY <1>4, <2>2, <4>1, <4>2
    <3> QED BY <1>4, <2>3, <3>1
  <2>5. ASSUME NEW i \in RequestIds, i \notin old' \/ "power" \notin faults' PROVE index'[i] \subseteq Whole'
    <3>1. CASE "power" \in faults
      <4>1. i \notin old \cup mine
        BY <1>1, <2>5, <3>1
      <4>2. index[i] = {}
        BY <4>1 DEF TrailInv, DiskOK
      <4> QED BY <1>3, <4>2
    <3>2. CASE "power" \notin faults
      <4>1. index' = index /\ n = Len(file)
        BY <1>3, <3>2
      <4>2. file' = file
        BY <1>2, <1>3, <4>1
      <4> QED BY <2>2, <3>2, <4>1, <4>2, SameFile
    <3> QED BY <3>1, <3>2
  <2>6. ASSUME NEW r \in acked' PROVE \E k \in Places' : Complete(k)' /\ k < synced' /\ Rec(k)' = r
    <3>1. PICK k \in Places : Complete(k) /\ k < synced /\ Rec(k) = r
      BY <1>1, <2>2, <2>6
    <3>2. k \in Places' /\ k < n
      BY <1>2, <1>3, <1>4, <3>1
    <3> QED BY <1>1, <1>4, <3>1, <3>2
  <2>7. \A k \in 1 .. Len(recent') : recent'[k] \in Whole'
    BY <1>1
  <2> QED BY <1>1, <2>4, <2>5, <2>6, <2>7 DEF KeptOK
<1> QED BY <1>5, <1>6, <1>7, <1>8, <1>9 DEF TrailInv

(* An empty trail meets the invariant.                                     *)
LEMMA TrailStarts ==
    ASSUME TrailInit
    PROVE  TrailInv
<1>1. /\ file = <<>> /\ Len(file) = 0 /\ synced = 0 /\ index = [i \in RequestIds |-> {}] /\ ~ initialized
      /\ persistent = FALSE /\ initialized = FALSE
      /\ recent = <<>> /\ pc = "idle" /\ cur = {} /\ acked = {} /\ old = {} /\ mine = {} /\ calls = 0
      /\ crashes = 0 /\ faults \in Scenarios
  BY DEF TrailInit
<1>2. Places = {} /\ \A i \in RequestIds : index[i] = {}
  BY <1>1 DEF Places
<1>3. TrailTypeOK
  <2>1. file \in Seq(Chunks) /\ recent \in Seq(AuditRecords) /\ Len(recent) <= CacheSize
    BY <1>1, TrailAssumption
  <2>2. synced \in 0 .. Len(file) /\ calls \in Nat /\ crashes \in Nat
    BY <1>1
  <2>3. index \in [RequestIds -> SUBSET AuditRecords] /\ initialized \in BOOLEAN /\ persistent \in BOOLEAN
    BY <1>1
  <2>4. /\ cur \in SUBSET AuditRecords /\ acked \in SUBSET AuditRecords
        /\ old \subseteq RequestIds /\ mine \subseteq RequestIds /\ pc \in Pcs /\ faults \in Scenarios
    BY <1>1 DEF Pcs
  <2> QED BY <2>1, <2>2, <2>3, <2>4 DEF TrailTypeOK
<1>4. CallOK
  BY <1>1 DEF CallOK
<1>5. DiskOK
  BY <1>2 DEF DiskOK
<1>6. UniqueOK
  BY <1>1, <1>2 DEF UniqueOK
<1>7. KeptOK
  <2>1. \A k \in 1 .. Len(recent) : recent[k] \in Whole
    BY <1>1
  <2> QED BY <1>1, <1>2, <2>1 DEF KeptOK
<1> QED BY <1>3, <1>4, <1>5, <1>6, <1>7 DEF TrailInv

(* Every step of a call, and every crash, keeps it.                        *)
LEMMA TrailStep ==
    ASSUME TrailInv, [TrailNext]_trailVars
    PROVE  TrailInv'
<1>1. CASE UNCHANGED trailVars
  <2>1. UNCHANGED <<file, synced, index, initialized, persistent, recent, pc, cur, acked, old, mine,
                    calls, crashes, faults>>
    BY <1>1 DEF trailVars, diskVars, memVars, callerVars
  <2>2. TrailTypeOK' /\ CallOK'
    BY <2>1 DEF TrailInv, TrailTypeOK, CallOK
  <2>3. DiskOK'
    BY <2>1, DiskFrame
  <2>4. UniqueOK'
    BY <2>1, SameFile DEF TrailInv, UniqueOK
  <2>5. KeptOK'
    BY <2>1, SameFile DEF TrailInv, KeptOK
  <2> QED BY <2>2, <2>3, <2>4, <2>5 DEF TrailInv
<1>2. CASE TrailNext
  BY <1>2, CallKeeps, PrepareKeeps, LookupKeeps, WriteTextKeeps, WriteNewlineKeeps, SyncKeeps,
     ResyncKeeps, WriteIndexKeeps, CrashKeeps DEF TrailNext
<1> QED BY <1>1, <1>2

(* The trail's invariant: the file, the index and the memory agree as far  *)
(* as each of them is relied on, whatever faults come together.            *)
THEOREM TrailInvariant == TrailSpec => []TrailInv
<1>1. TrailInit => TrailInv
  BY TrailStarts
<1>2. TrailInv /\ [TrailNext]_trailVars => TrailInv'
  BY TrailStep
<1> QED BY <1>1, <1>2, PTL DEF TrailSpec

(* The state of the trail has its type; the memory never holds more than   *)
(* MAX_RECENT_AUDIT_RECORDS records.                                       *)
THEOREM TrailTypes == TrailSpec => []TrailTypeOK
<1>1. TrailInv => TrailTypeOK
  BY DEF TrailInv
<1> QED BY <1>1, TrailInvariant, PTL

(* Unless sync_all fails, an id has at most one readable record: not after *)
(* retries, evictions, lost index entries, crashes or power failures.      *)
THEOREM OneRecord == TrailSpec => []OneRecordPerId
<1>1. TrailInv => OneRecordPerId
  <2> SUFFICES ASSUME TrailInv, "sync" \notin faults
               PROVE  \A j, k \in 1 .. Len(Lines) : Lines[j].id = Lines[k].id => j = k
    BY DEF OneRecordPerId
  <2>1. \A j, k \in Places : j < k /\ Complete(j) /\ Begins(k) => Rec(j).id # Rec(k).id
    BY DEF TrailInv, UniqueOK
  <2>2. /\ \A j, k \in Places : Readable(j) /\ j < k => Complete(j)
        /\ \A k \in Places : Readable(k) => Begins(k)
    BY TrailReads
  <2>3. ASSUME NEW j \in Places, NEW k \in Places, Readable(j), Readable(k), Rec(j).id = Rec(k).id
        PROVE  j = k
    <3>1. j \in Nat /\ k \in Nat
      BY DEF Places
    <3>2. ~ (j < k) /\ ~ (k < j)
      BY <2>1, <2>2, <2>3
    <3> QED BY <3>1, <3>2
  <2> QED BY <2>3, TrailReads
<1> QED BY <1>1, TrailInvariant, PTL

(* As long as lines are written whole, and no id is replayed after a power *)
(* failure, what record has acknowledged can be read back.                 *)
THEOREM AckedIsKept == TrailSpec => []AckedSurvives
<1>1. TrailInv => AckedSurvives
  <2> SUFFICES ASSUME TrailInv, "torn" \notin faults, ~ {"power", "replay"} \subseteq faults,
                      NEW r \in acked
               PROVE  r \in OnFile
    BY DEF AckedSurvives
  <2>1. PICK k \in Places : Complete(k) /\ Rec(k) = r
    BY DEF TrailInv, KeptOK
  <2>2. Readable(k)
    BY <2>1, TrailReads
  <2> QED BY <2>1, <2>2, TrailReads
<1> QED BY <1>1, TrailInvariant, PTL
=============================================================================
