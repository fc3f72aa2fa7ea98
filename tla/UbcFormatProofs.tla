--------------------------- MODULE UbcFormatProofs --------------------------
(***************************************************************************)
(* How a container is put together and read: the lemmas about FlattenSeq,  *)
(* metadata and chunks that every encoder's proof needs, and those about   *)
(* the chunk loop of decodeBytes that every reader's needs.  What a        *)
(* recursive function computes is shown by taking the least stage at which *)
(* it would not.                                                           *)
(***************************************************************************)
EXTENDS OneShot, UbcOriginals, FiniteSetTheorems, SequenceTheorems, WellFoundedInduction, TLAPS

-----------------------------------------------------------------------------
(* Cells and sequences of cells.                                           *)

(* A length field holds a natural number and a header cell a header.       *)
LEMMA CellFacts ==
  ASSUME NEW c \in Cells
  PROVE  /\ U32(c) \in Nat
         /\ c.t = "header" => c.h \in Header
         /\ decrypt(c) \in Cells
  <1>. USE WidthAssumption
  <1>1. Junk \in Cells
    BY DEF Cells
  <1>2. CASE c \in NumCells
    BY <1>1, <1>2 DEF NumCells, U32, decrypt
  <1>3. CASE c \in HeaderCells
    BY <1>1, <1>3 DEF HeaderCells, U32, decrypt
  <1>4. CASE c \in CtCells
    <2>1. Num(c.n) \in NumCells
      BY <1>4 DEF CtCells, NumCells, Num
    <2>2. Num(c.n) \in Cells
      BY <2>1 DEF Cells
    <2>. QED
      BY <1>4, <2>2 DEF CtCells, U32, decrypt
  <1>5. CASE c \in TagCells
    BY <1>1, <1>5 DEF TagCells, U32, decrypt
  <1>6. CASE c \in RootCells
    BY <1>1, <1>6 DEF RootCells, U32, decrypt
  <1>7. CASE c \in {MagicEnd, Junk}
    BY <1>1, <1>7 DEF MagicEnd, Junk, U32, decrypt
  <1>. QED
    BY <1>2, <1>3, <1>4, <1>5, <1>6, <1>7 DEF Cells

(* A part of a sequence is a sequence over the same set, as long as asked. *)
LEMMA PartOf ==
  ASSUME NEW S, NEW s \in Seq(S), NEW m \in Nat, NEW n \in Nat, m >= 1, n <= Len(s)
  PROVE  /\ SubSeq(s, m, n) \in Seq(S)
         /\ Len(SubSeq(s, m, n)) = IF m <= n THEN n - m + 1 ELSE 0
         /\ \A i \in 1..n - m + 1 : SubSeq(s, m, n)[i] = s[m + i - 1]
  BY SubSeqProperties

(* What Read returns and what it keeps are the parts of what it held.      *)
LEMMA PendingSplits ==
  ASSUME NEW S, NEW s \in Seq(S), NEW n \in 0..Len(s)
  PROVE  /\ SubSeq(s, 1, n) \in Seq(S) /\ SubSeq(s, n + 1, Len(s)) \in Seq(S)
         /\ Len(SubSeq(s, 1, n)) + Len(SubSeq(s, n + 1, Len(s))) = Len(s)
  <1>1. Len(s) \in Nat /\ n \in Nat /\ n <= Len(s)
    BY LenProperties
  <1>2. SubSeq(s, 1, n) \in Seq(S) /\ Len(SubSeq(s, 1, n)) = n
    BY <1>1, PartOf
  <1>3. SubSeq(s, n + 1, Len(s)) \in Seq(S) /\ Len(SubSeq(s, n + 1, Len(s))) = Len(s) - n
    BY <1>1, PartOf
  <1>4. \A a, b : a = n /\ b = Len(s) - n => a + b = Len(s)
    BY <1>1
  <1>. QED
    BY <1>2, <1>3, <1>4, Zenon

(* An opened chunk is plaintext, shorter than its body by the tag.         *)
LEMMA OpenedChunk ==
  ASSUME NEW body \in Seq(Cells), Len(body) >= TagLen
  PROVE  openChunk(body) \in Seq(Cells) /\ Len(openChunk(body)) = Len(body) - TagLen
  <1>1. Len(body) \in Nat /\ \A i \in 1..Len(body) : body[i] \in Cells
    BY LenProperties, ElementOfSeq
  <1>2. Len(body) - TagLen \in Nat /\ 1..Len(body) - TagLen \subseteq 1..Len(body)
    BY <1>1 DEF TagLen
  <1>3. openChunk(body) \in [1..Len(body) - TagLen -> Cells]
    BY <1>1, <1>2, CellFacts DEF openChunk
  <1>. QED
    BY <1>2, <1>3, SeqDef

-----------------------------------------------------------------------------
LEMMA LeastOf ==
  ASSUME NEW T \in SUBSET Nat, T # {}
  PROVE  \E x \in T : \A y \in T : x <= y
  <1>. DEFINE R == {p \in Nat \X Nat : p[1] < p[2]}
  <1>1. IsWellFoundedOn(R, Nat)
    BY NatLessThanWellFounded DEF OpToRel
  <1>2. \E x \in T : \A y \in T : ~(<<y, x>> \in R)
    <2>. HIDE DEF R
    <2>. QED
      BY <1>1, WFMin
  <1>3. PICK x \in T : \A y \in T : ~(<<y, x>> \in R)
    BY <1>2
  <1>4. ASSUME NEW y \in T
        PROVE  x <= y
    <2>1. <<y, x>> \in Nat \X Nat /\ ~(<<y, x>> \in R)
      BY <1>3
    <2>2. ~(y < x)
      BY <2>1
    <2>. QED
      BY <2>2
  <1>. QED
    BY <1>4

-----------------------------------------------------------------------------
(* FlattenSeq.                                                             *)

(* The stages of a concatenation: the i-th has the first i sequences.      *)
Stages(f, seqs) ==
  f = [i \in 1..Len(seqs) |-> IF i = 1 THEN seqs[i] ELSE f[i - 1] \o seqs[i]]

LEMMA StagesAreUnique ==
  ASSUME NEW seqs, Len(seqs) \in Nat, NEW f, Stages(f, seqs), NEW g, Stages(g, seqs)
  PROVE  f = g
  <1>. DEFINE T == {i \in 1..Len(seqs) : f[i] # g[i]}
  <1>1. /\ f = [i \in 1..Len(seqs) |-> f[i]] /\ g = [i \in 1..Len(seqs) |-> g[i]]
        /\ \A i \in 1..Len(seqs) : f[i] = IF i = 1 THEN seqs[i] ELSE f[i - 1] \o seqs[i]
        /\ \A i \in 1..Len(seqs) : g[i] = IF i = 1 THEN seqs[i] ELSE g[i - 1] \o seqs[i]
    BY DEF Stages
  <1>2. T = {}
    <2>. SUFFICES ASSUME T # {}
                  PROVE  FALSE
      OBVIOUS
    <2>1. PICK x \in T : \A y \in T : x <= y
      <3>1. T \in SUBSET Nat
        OBVIOUS
      <3>. QED
        BY <3>1, LeastOf
    <2>2. CASE x = 1
      BY <1>1, <2>2
    <2>3. CASE x # 1
      <3>1. x \in 1..Len(seqs) /\ x - 1 \in 1..Len(seqs) /\ x - 1 \notin T
        BY <2>1, <2>3
      <3>2. f[x - 1] = g[x - 1]
        BY <3>1
      <3>3. f[x] = f[x - 1] \o seqs[x] /\ g[x] = g[x - 1] \o seqs[x]
        BY <1>1, <2>3, <3>1, Zenon
      <3>4. f[x] # g[x]
        BY <2>1
      <3>. QED
        BY <3>2, <3>3, <3>4, Zenon
    <2>. QED
      BY <2>2, <2>3
  <1>3. \A i \in 1..Len(seqs) : f[i] = g[i]
    BY <1>2
  <1>4. [i \in 1..Len(seqs) |-> f[i]] = [i \in 1..Len(seqs) |-> g[i]]
    BY <1>3, Zenon
  <1>. QED
    BY <1>1, <1>4, Zenon

(* One sequence more is one stage more.                                    *)
LEMMA StageAfter ==
  ASSUME NEW s, NEW t, Len(s) \in Nat, Len(t) = Len(s) + 1, \A i \in 1..Len(s) : t[i] = s[i],
         NEW f, Stages(f, s)
  PROVE  \E g : /\ Stages(g, t)
                /\ g[Len(t)] = IF Len(s) = 0 THEN t[1] ELSE f[Len(s)] \o t[Len(t)]
  <1>. DEFINE g == [i \in 1..Len(t) |-> IF i <= Len(s) THEN f[i]
                                        ELSE IF i = 1 THEN t[i] ELSE f[i - 1] \o t[i]]
  <1>1. \A i \in 1..Len(s) : f[i] = IF i = 1 THEN s[i] ELSE f[i - 1] \o s[i]
    BY DEF Stages
  <1>2. ASSUME NEW i \in 1..Len(t)
        PROVE  g[i] = IF i = 1 THEN t[i] ELSE g[i - 1] \o t[i]
    <2>1. CASE i = 1
      BY <1>1, <2>1
    <2>2. CASE i # 1
      <3>1. i - 1 \in 1..Len(s) /\ g[i - 1] = f[i - 1]
        BY <2>2
      <3>2. CASE i <= Len(s)
        <4>1. i \in 1..Len(s) /\ g[i] = f[i]
          BY <3>2
        <4>2. f[i] = f[i - 1] \o s[i] /\ t[i] = s[i]
          BY <1>1, <2>2, <4>1
        <4>. QED
          BY <2>2, <3>1, <4>1, <4>2
      <3>3. CASE i > Len(s)
        <4>1. g[i] = f[i - 1] \o t[i]
          BY <2>2, <3>3
        <4>. HIDE DEF g
        <4>. QED
          BY <2>2, <3>1, <4>1
      <3>. QED
        BY <3>2, <3>3
    <2>. QED
      BY <2>1, <2>2
  <1>. HIDE DEF g
  <1>3. g = [i \in 1..Len(t) |-> IF i = 1 THEN t[i] ELSE g[i - 1] \o t[i]]
    <2>1. g = [i \in 1..Len(t) |-> g[i]]
      BY DEF g
    <2>. QED
      BY <1>2, <2>1
  <1>4. Stages(g, t)
    BY <1>3 DEF Stages
  <1>5. g[Len(t)] = IF Len(s) = 0 THEN t[1] ELSE f[Len(s)] \o t[Len(t)]
    <2>1. Len(t) \in 1..Len(t) /\ ~(Len(t) <= Len(s)) /\ (Len(t) = 1 <=> Len(s) = 0)
          /\ Len(t) - 1 = Len(s)
      OBVIOUS
    <2>2. g[Len(t)] = IF Len(t) = 1 THEN t[Len(t)] ELSE f[Len(t) - 1] \o t[Len(t)]
      BY <2>1 DEF g
    <2>. QED
      BY <2>1, <2>2
  <1>. QED
    BY <1>4, <1>5

LEMMA StagesExist ==
  ASSUME NEW seqs, Len(seqs) \in Nat
  PROVE  \E f : Stages(f, seqs)
  <1>. DEFINE part(k) == [i \in 1..k |-> seqs[i]]
              T == {k \in 0..Len(seqs) : ~\E f : Stages(f, part(k))}
  <1>1. ASSUME NEW k \in 0..Len(seqs)
        PROVE  Len(part(k)) = k /\ \A i \in 1..k : part(k)[i] = seqs[i]
    OBVIOUS
  <1>2. T = {}
    <2>. SUFFICES ASSUME T # {}
                  PROVE  FALSE
      OBVIOUS
    <2>1. PICK x \in T : \A y \in T : x <= y
      <3>1. T \in SUBSET Nat
        OBVIOUS
      <3>. QED
        BY <3>1, LeastOf
    <2>2. CASE x = 0
      <3>1. Stages([i \in 1..0 |-> i], part(0))
        BY <1>1 DEF Stages
      <3>. QED
        BY <2>2, <3>1
    <2>3. CASE x # 0
      <3>1. x \in Nat /\ x <= Len(seqs) /\ x - 1 \in 0..Len(seqs)
        BY <2>3
      <3>2. x - 1 \notin T
        <4>. HIDE DEF T
        <4>. QED
          BY <2>1, <3>1
      <3>3. PICK f : Stages(f, part(x - 1))
        BY <3>1, <3>2
      <3>4. /\ Len(part(x - 1)) = x - 1 /\ Len(part(x)) = x
            /\ \A i \in 1..x - 1 : part(x)[i] = part(x - 1)[i]
        BY <3>1
      <3>. DEFINE s == part(x - 1)
                  t == part(x)
      <3>5. Stages(f, s) /\ Len(s) = x - 1 /\ Len(t) = x /\ \A i \in 1..Len(s) : t[i] = s[i]
        BY <3>3, <3>4
      <3>. HIDE DEF s, t
      <3>6. Len(s) \in Nat /\ Len(t) = Len(s) + 1
        BY <3>1, <3>5
      <3>7. \E g : Stages(g, t)
        <4>. HIDE DEF T
        <4>. QED
          BY <3>5, <3>6, StageAfter
      <3>. QED
        BY <3>7 DEF t
    <2>. QED
      BY <2>2, <2>3
  <1>3. \E f : Stages(f, part(Len(seqs)))
    BY <1>2
  <1>4. ASSUME NEW f, Stages(f, part(Len(seqs)))
        PROVE  Stages(f, seqs)
    <2>1. Len(part(Len(seqs))) = Len(seqs) /\ \A i \in 1..Len(seqs) : part(Len(seqs))[i] = seqs[i]
      BY <1>1
    <2>. HIDE DEF part
    <2>. QED
      BY <1>4, <2>1 DEF Stages
  <1>. QED
    BY <1>3, <1>4

LEMMA FlattenIsLastStage ==
  ASSUME NEW seqs, Len(seqs) \in Nat, Len(seqs) # 0, NEW f, Stages(f, seqs)
  PROVE  FlattenSeq(seqs) = f[Len(seqs)]
  <1>. DEFINE g == CHOOSE g : Stages(g, seqs)
  <1>1. Stages(g, seqs)
    OBVIOUS
  <1>2. f = g
    <2>. HIDE DEF g
    <2>. QED
      BY <1>1, StagesAreUnique
  <1>3. FlattenSeq(seqs) = g[Len(seqs)]
    BY DEF FlattenSeq, Stages
  <1>. QED
    BY <1>2, <1>3

LEMMA FlattenNothing ==
  ASSUME NEW seqs, Len(seqs) = 0
  PROVE  FlattenSeq(seqs) = seqs
  BY DEF FlattenSeq

(* A sequence more at the end is concatenated at the end.                  *)
LEMMA FlattenOneMore ==
  ASSUME NEW S, NEW s \in Seq(Seq(S)), NEW t \in Seq(Seq(S)),
         Len(t) = Len(s) + 1, \A i \in 1..Len(s) : t[i] = s[i]
  PROVE  FlattenSeq(t) = FlattenSeq(s) \o t[Len(t)]
  <1>1. Len(s) \in Nat /\ Len(t) \in Nat /\ Len(t) # 0 /\ t[Len(t)] \in Seq(S)
    OBVIOUS
  <1>2. PICK f : Stages(f, s)
    BY <1>1, StagesExist
  <1>3. PICK g : Stages(g, t) /\ g[Len(t)] = IF Len(s) = 0 THEN t[1] ELSE f[Len(s)] \o t[Len(t)]
    BY <1>1, <1>2, StageAfter
  <1>4. FlattenSeq(t) = g[Len(t)]
    BY <1>1, <1>3, FlattenIsLastStage
  <1>5. CASE Len(s) = 0
    <2>1. s = <<>> /\ Len(t) = 1
      BY <1>5
    <2>2. FlattenSeq(s) = <<>>
      BY <1>5, <2>1, FlattenNothing
    <2>3. <<>> \o t[Len(t)] = t[Len(t)]
      BY <1>1, ConcatEmptySeq
    <2>. QED
      BY <1>3, <1>4, <1>5, <2>1, <2>2, <2>3
  <1>6. CASE Len(s) # 0
    <2>1. FlattenSeq(s) = f[Len(s)]
      BY <1>1, <1>2, <1>6, FlattenIsLastStage
    <2>. QED
      BY <1>3, <1>4, <1>6, <2>1
  <1>. QED
    BY <1>5, <1>6

-----------------------------------------------------------------------------
(* The first k of a sequence, and what they are together.                  *)

Upto(seqs, k) == [i \in 1..k |-> seqs[i]]

Joined(seqs, k) == FlattenSeq(Upto(seqs, k))

LEMMA UptoIsSeq ==
  ASSUME NEW S, NEW seqs \in Seq(S), NEW k \in 0..Len(seqs)
  PROVE  /\ Upto(seqs, k) \in Seq(S) /\ Len(Upto(seqs, k)) = k
         /\ \A i \in 1..k : Upto(seqs, k)[i] = seqs[i]
  BY DEF Upto

LEMMA JoinedNone ==
  ASSUME NEW S, NEW seqs \in Seq(Seq(S))
  PROVE  Joined(seqs, 0) = <<>>
  <1>1. Upto(seqs, 0) \in Seq(Seq(S)) /\ Len(Upto(seqs, 0)) = 0
    BY UptoIsSeq
  <1>2. Upto(seqs, 0) = <<>>
    BY <1>1
  <1>. QED
    BY <1>1, <1>2, FlattenNothing DEF Joined

LEMMA JoinedNext ==
  ASSUME NEW S, NEW seqs \in Seq(Seq(S)), NEW k \in 0..Len(seqs) - 1
  PROVE  Joined(seqs, k + 1) = Joined(seqs, k) \o seqs[k + 1]
  <1>. DEFINE s == Upto(seqs, k)
              t == Upto(seqs, k + 1)
  <1>1. /\ s \in Seq(Seq(S)) /\ Len(s) = k /\ \A i \in 1..k : s[i] = seqs[i]
        /\ t \in Seq(Seq(S)) /\ Len(t) = k + 1 /\ \A i \in 1..k + 1 : t[i] = seqs[i]
    <2>1. k \in 0..Len(seqs) /\ k + 1 \in 0..Len(seqs)
      OBVIOUS
    <2>. QED
      BY <2>1, UptoIsSeq
  <1>. HIDE DEF s, t
  <1>2. FlattenSeq(t) = FlattenSeq(s) \o t[Len(t)]
    <2>1. \A i \in 1..Len(s) : t[i] = s[i] /\ i \in 1..k + 1
      <3>1. k \in Nat
        OBVIOUS
      <3>2. \A i \in 1..k : i \in 1..k + 1
        BY <3>1
      <3>. QED
        BY <1>1, <3>2
    <2>. QED
      BY <1>1, <2>1, FlattenOneMore
  <1>3. k + 1 \in 1..k + 1
    OBVIOUS
  <1>4. t[Len(t)] = seqs[k + 1]
    BY <1>1, <1>3
  <1>5. FlattenSeq(t) = FlattenSeq(s) \o seqs[k + 1]
    BY <1>2, <1>4
  <1>. QED
    BY <1>5 DEF Joined, s, t

LEMMA JoinedAll ==
  ASSUME NEW S, NEW seqs \in Seq(S)
  PROVE  Joined(seqs, Len(seqs)) = FlattenSeq(seqs)
  <1>1. Upto(seqs, Len(seqs)) = seqs
    BY DEF Upto
  <1>. QED
    BY <1>1 DEF Joined

LEMMA JoinedIsSeq ==
  ASSUME NEW S, NEW seqs \in Seq(Seq(S)), NEW k \in 0..Len(seqs)
  PROVE  Joined(seqs, k) \in Seq(S)
  <1>. DEFINE T == {m \in 0..Len(seqs) : Joined(seqs, m) \notin Seq(S)}
  <1>. SUFFICES ASSUME T # {}
                PROVE  FALSE
    OBVIOUS
  <1>1. T \in SUBSET Nat
    OBVIOUS
  <1>2. PICK x \in T : \A y \in T : x <= y
    BY <1>1, LeastOf
  <1>3. x \in 0..Len(seqs) /\ Joined(seqs, x) \notin Seq(S)
    OBVIOUS
  <1>4. CASE x = 0
    BY <1>3, <1>4, JoinedNone, EmptySeq
  <1>5. CASE x # 0
    <2>1. x - 1 \in 0..Len(seqs) - 1 /\ x - 1 \in 0..Len(seqs) /\ (x - 1) + 1 = x /\ ~(x <= x - 1)
          /\ x \in 1..Len(seqs)
      BY <1>3, <1>5
    <2>2. Joined(seqs, x - 1) \in Seq(S)
      BY <1>2, <2>1
    <2>3. Joined(seqs, x) = Joined(seqs, x - 1) \o seqs[x]
      <3>. DEFINE k0 == x - 1
      <3>1. k0 \in 0..Len(seqs) - 1 /\ k0 + 1 = x
        BY <2>1
      <3>. HIDE DEF k0
      <3>2. Joined(seqs, k0 + 1) = Joined(seqs, k0) \o seqs[k0 + 1]
        BY <3>1, JoinedNext
      <3>. QED
        BY <3>1, <3>2 DEF k0
    <2>4. seqs[x] \in Seq(S)
      BY <2>1
    <2>. QED
      BY <1>3, <2>2, <2>3, <2>4
  <1>. QED
    BY <1>4, <1>5

-----------------------------------------------------------------------------
LEMMA Regrouped ==
  ASSUME NEW S, NEW a \in Seq(S), NEW b \in Seq(S), NEW c \in Seq(S)
  PROVE  a \o (b \o c) = (a \o b) \o c /\ a \o b \in Seq(S)
  BY ConcatAssociative, ConcatProperties

LEMMA ConcatTriples ==
  ASSUME NEW S
  PROVE  \A a, b, c \in Seq(S) : a \o (b \o c) = (a \o b) \o c
  <1>. SUFFICES ASSUME NEW a \in Seq(S), NEW b \in Seq(S), NEW c \in Seq(S)
                PROVE  a \o (b \o c) = (a \o b) \o c
    OBVIOUS
  <1>. QED
    BY Regrouped

LEMMA CellTriples ==
  \A a, b, c \in Seq(Cells) : a \o (b \o c) = (a \o b) \o c
  BY ConcatTriples

LEMMA SeqsAreEqual ==
  ASSUME NEW S, NEW a \in Seq(S), NEW b \in Seq(S), Len(a) = Len(b),
         \A i \in 1..Len(a) : a[i] = b[i]
  PROVE  a = b
  OBVIOUS

(* The part of n elements after the first `at`.                            *)
LEMMA PartAfter ==
  ASSUME NEW S, NEW s \in Seq(S), NEW at \in Nat, NEW n \in Nat, at + n <= Len(s)
  PROVE  /\ SubSeq(s, at + 1, at + n) \in Seq(S)
         /\ Len(SubSeq(s, at + 1, at + n)) = n
         /\ \A i \in 1..n : SubSeq(s, at + 1, at + n)[i] = s[at + i]
  <1>. DEFINE part == SubSeq(s, at + 1, at + n)
  <1>1. at + 1 \in Nat /\ at + 1 >= 1 /\ at + n \in Nat
    OBVIOUS
  <1>2. /\ part \in Seq(S) /\ Len(part) = (IF at + 1 <= at + n THEN (at + n) - (at + 1) + 1 ELSE 0)
        /\ \A i \in 1..(at + n) - (at + 1) + 1 : part[i] = s[(at + 1) + i - 1]
    BY <1>1, PartOf
  <1>. HIDE DEF part
  <1>3. Len(part) = n /\ (at + n) - (at + 1) + 1 = n
    BY <1>2
  <1>4. ASSUME NEW i \in 1..n PROVE part[i] = s[at + i]
    <2>1. (at + 1) + i - 1 = at + i
      OBVIOUS
    <2>. QED
      BY <1>2, <1>3, <2>1
  <1>. QED
    BY <1>2, <1>3, <1>4 DEF part

(* Two parts that make up the rest of a sequence are its next part and the *)
(* rest after that.                                                        *)
Splits(s, at, a, c) ==
  /\ at + Len(a) \in 0..Len(s)
  /\ SubSeq(s, at + 1, at + Len(a)) = a
  /\ SubSeq(s, at + Len(a) + 1, Len(s)) = c

LEMMA RestSplits ==
  ASSUME NEW S, NEW s \in Seq(S), NEW at \in 0..Len(s), NEW a \in Seq(S), NEW c \in Seq(S),
         a \o c = SubSeq(s, at + 1, Len(s))
  PROVE  Splits(s, at, a, c)
  <1>1. PICK k \in Nat, m \in Nat, l \in Nat : k = Len(a) /\ m = Len(c) /\ l = Len(s)
    BY LenProperties
  <1>2. at \in Nat /\ l - at \in Nat /\ at + (l - at) = l
    BY <1>1
  <1>3. PICK all : all = SubSeq(s, at + 1, l) /\ all = a \o c
    BY <1>1
  <1>4. Len(all) = l - at /\ \A i \in 1..l - at : all[i] = s[at + i]
    BY <1>1, <1>2, <1>3, PartAfter
  <1>5. Len(all) = k + m
        /\ \A i \in 1..k + m : all[i] = IF i <= k THEN a[i] ELSE c[i - k]
    <2>1. Len(a \o c) = Len(a) + Len(c)
          /\ \A i \in 1..Len(a) + Len(c) : (a \o c)[i] = IF i <= Len(a) THEN a[i] ELSE c[i - Len(a)]
      BY ConcatProperties
    <2>. QED
      BY <1>1, <1>3, <2>1, Zenon
  <1>6. l - at = k + m /\ at + k \in 0..l /\ at + k \in Nat /\ (at + k) + m = l
    BY <1>1, <1>2, <1>4, <1>5
  <1>7. ASSUME NEW i \in 1..k PROVE a[i] = s[at + i]
    <2>1. i \in 1..k + m /\ i <= k
      BY <1>1
    <2>. QED
      BY <1>4, <1>5, <1>6, <2>1
  <1>8. ASSUME NEW i \in 1..m PROVE c[i] = s[(at + k) + i]
    <2>1. k + i \in 1..k + m /\ ~(k + i <= k) /\ (k + i) - k = i /\ at + (k + i) = (at + k) + i
      BY <1>1, <1>2
    <2>. QED
      BY <1>4, <1>5, <1>6, <2>1
  <1>9. a = SubSeq(s, at + 1, at + k)
    <2>1. PICK part : part = SubSeq(s, at + 1, at + k)
      OBVIOUS
    <2>2. part \in Seq(S) /\ Len(part) = k /\ \A i \in 1..k : part[i] = s[at + i]
      BY <1>1, <1>2, <1>6, <2>1, PartAfter
    <2>. QED
      BY <1>1, <1>7, <2>1, <2>2, SeqsAreEqual
  <1>10. c = SubSeq(s, at + k + 1, l)
    <2>1. PICK part : part = SubSeq(s, (at + k) + 1, (at + k) + m)
      OBVIOUS
    <2>2. part \in Seq(S) /\ Len(part) = m /\ \A i \in 1..m : part[i] = s[(at + k) + i]
      BY <1>1, <1>6, <2>1, PartAfter
    <2>3. c = part
      BY <1>1, <1>8, <2>2, SeqsAreEqual
    <2>. QED
      BY <1>6, <2>1, <2>3
  <1>. QED
    BY <1>1, <1>6, <1>9, <1>10 DEF Splits

(* The two parts of a sequence make it up.                                 *)
LEMMA PartsJoin ==
  ASSUME NEW S, NEW s \in Seq(S), NEW n \in 0..Len(s)
  PROVE  /\ SubSeq(s, 1, n) \in Seq(S) /\ SubSeq(s, n + 1, Len(s)) \in Seq(S)
         /\ Len(SubSeq(s, 1, n)) = n
         /\ SubSeq(s, 1, n) \o SubSeq(s, n + 1, Len(s)) = s
  <1>1. Len(s) \in Nat /\ n \in Nat /\ n <= Len(s)
    BY LenProperties
  <1>2. SubSeq(s, 1, n) \in Seq(S) /\ Len(SubSeq(s, 1, n)) = n /\ SubSeq(s, n + 1, Len(s)) \in Seq(S)
    BY <1>1, PartOf
  <1>3. SubSeq(s, 1, n) \o SubSeq(s, n + 1, Len(s)) = SubSeq(s, 1, Len(s))
    <2>1. 1 \in 1..Len(s) + 1 /\ n \in 1 - 1..Len(s) /\ Len(s) \in n..Len(s)
      BY <1>1
    <2>. QED
      BY <2>1, ConcatAdjacentSubSeq
  <1>4. SubSeq(s, 1, Len(s)) = s
    OBVIOUS
  <1>. QED
    BY <1>2, <1>3, <1>4

-----------------------------------------------------------------------------
(* One sequence begins another.                                            *)

Begins(s, t, S) == \E rest \in Seq(S) : t = s \o rest

LEMMA BeginsIsPrefix ==
  ASSUME NEW S, NEW s \in Seq(S), NEW t \in Seq(S), Begins(s, t, S)
  PROVE  IsPrefix(s, t)
  <1>1. PICK rest \in Seq(S) : t = s \o rest
    BY DEF Begins
  <1>2. Len(s) \in Nat /\ Len(rest) \in Nat /\ Len(t) = Len(s) + Len(rest)
        /\ \A i \in 1..Len(s) : t[i] = s[i]
    BY <1>1, ConcatProperties
  <1>3. SubSeq(s, 1, Len(s)) = SubSeq(t, 1, Len(s))
    BY <1>2
  <1>. QED
    BY <1>2, <1>3 DEF IsPrefix

LEMMA BeginsItself ==
  ASSUME NEW S, NEW s \in Seq(S)
  PROVE  Begins(s, s, S)
  BY ConcatEmptySeq, EmptySeq DEF Begins

LEMMA BeginsShorter ==
  ASSUME NEW S, NEW s \in Seq(S), NEW piece \in Seq(S), NEW t, Begins(s \o piece, t, S)
  PROVE  Begins(s, t, S)
  <1>1. PICK rest \in Seq(S) : t = (s \o piece) \o rest
    BY DEF Begins
  <1>2. t = s \o (piece \o rest) /\ piece \o rest \in Seq(S)
    BY <1>1, ConcatAssociative, ConcatProperties
  <1>. QED
    BY <1>2 DEF Begins

(* A write that stops half-way.                                            *)
LEMMA BeginsWithPart ==
  ASSUME NEW S, NEW s \in Seq(S), NEW piece \in Seq(S), NEW n \in 0..Len(piece),
         NEW t, Begins(s \o piece, t, S)
  PROVE  SubSeq(piece, 1, n) \in Seq(S) /\ Begins(s \o SubSeq(piece, 1, n), t, S)
  <1>. DEFINE a == SubSeq(piece, 1, n)
              b == SubSeq(piece, n + 1, Len(piece))
  <1>1. a \in Seq(S) /\ b \in Seq(S)
    BY SubSeqProperties
  <1>2. piece = a \o b
    <2>1. 1 \in 1..Len(piece) + 1 /\ n \in 1 - 1..Len(piece) /\ Len(piece) \in n..Len(piece)
      OBVIOUS
    <2>2. a \o b = SubSeq(piece, 1, Len(piece))
      BY <2>1, ConcatAdjacentSubSeq
    <2>. QED
      BY <2>2, SubSeqFull
  <1>. HIDE DEF a, b
  <1>3. s \o piece = (s \o a) \o b
    BY <1>1, <1>2, ConcatAssociative
  <1>4. s \o a \in Seq(S)
    BY <1>1, ConcatProperties
  <1>5. Begins(s \o a, t, S)
    BY <1>1, <1>3, <1>4, BeginsShorter
  <1>. QED
    BY <1>1, <1>5 DEF a

LEMMA BeginsFurther ==
  ASSUME NEW S, NEW s \in Seq(S), NEW t \in Seq(S), NEW u \in Seq(S), Begins(s, t, S)
  PROVE  Begins(s, t \o u, S)
  <1>1. PICK rest \in Seq(S) : t = s \o rest
    BY DEF Begins
  <1>2. t \o u = s \o (rest \o u) /\ rest \o u \in Seq(S)
    BY <1>1, ConcatAssociative, ConcatProperties
  <1>. QED
    BY <1>2 DEF Begins

LEMMA JoinedBegins ==
  ASSUME NEW S, NEW seqs \in Seq(Seq(S)), NEW k \in 0..Len(seqs), NEW m \in k..Len(seqs)
  PROVE  Begins(Joined(seqs, k), Joined(seqs, m), S)
  <1>. DEFINE T == {i \in k..Len(seqs) : ~Begins(Joined(seqs, k), Joined(seqs, i), S)}
  <1>. SUFFICES ASSUME T # {}
                PROVE  FALSE
    OBVIOUS
  <1>1. T \in SUBSET Nat
    OBVIOUS
  <1>2. PICK x \in T : \A y \in T : x <= y
    BY <1>1, LeastOf
  <1>3. x \in k..Len(seqs) /\ ~Begins(Joined(seqs, k), Joined(seqs, x), S)
    OBVIOUS
  <1>4. CASE x = k
    BY <1>3, <1>4, JoinedIsSeq, BeginsItself
  <1>5. CASE x # k
    <2>. DEFINE j == x - 1
    <2>1. j \in k..Len(seqs) /\ j \in 0..Len(seqs) - 1 /\ j \in 0..Len(seqs) /\ j + 1 = x /\ ~(x <= j)
          /\ j + 1 \in 1..Len(seqs)
      BY <1>3, <1>5
    <2>2. Begins(Joined(seqs, k), Joined(seqs, j), S)
      BY <1>2, <2>1
    <2>. HIDE DEF j
    <2>3. /\ Joined(seqs, j + 1) = Joined(seqs, j) \o seqs[j + 1] /\ seqs[j + 1] \in Seq(S)
          /\ Joined(seqs, k) \in Seq(S) /\ Joined(seqs, j) \in Seq(S)
      BY <2>1, JoinedNext, JoinedIsSeq
    <2>4. Begins(Joined(seqs, k), Joined(seqs, j + 1), S)
      BY <2>2, <2>3, BeginsFurther
    <2>. QED
      BY <1>3, <2>1, <2>4
  <1>. QED
    BY <1>4, <1>5

-----------------------------------------------------------------------------
(* Chunks.                                                                 *)

LEMMA DivisionBounds ==
  ASSUME NEW a \in Nat, NEW s \in Nat \ {0}
  PROVE  a \div s \in Nat /\ (a \div s) * s <= a /\ a < (a \div s) * s + s
         /\ a = (a \div s) * s + (a % s) /\ a % s \in 0..s - 1
  OBVIOUS

LEMMA DivisionIsUnique ==
  ASSUME NEW a \in Nat, NEW s \in Nat \ {0}, NEW q \in Nat, q * s <= a, a < q * s + s
  PROVE  a \div s = q
  <1>. DEFINE d == a \div s
  <1>1. d \in Nat /\ d * s <= a /\ a < d * s + s
    BY DivisionBounds
  <1>. HIDE DEF d
  <1>2. ASSUME NEW x \in Nat, NEW y \in Nat, x < y
        PROVE  x * s + s <= y * s
    <2>1. PICK e \in Nat : y = x + 1 + e
      <3>1. y - x - 1 \in Nat /\ y = x + 1 + (y - x - 1)
        BY <1>2
      <3>. QED
        BY <3>1
    <2>2. y * s = x * s + s + e * s /\ e * s \in Nat
      BY <2>1
    <2>. QED
      BY <2>2
  <1>3. ~(d < q) /\ ~(q < d)
    <2>1. d * s \in Int /\ q * s \in Int
      BY <1>1
    <2>2. d < q => d * s + s <= q * s
      BY <1>1, <1>2
    <2>3. q < d => q * s + s <= d * s
      BY <1>1, <1>2
    <2>. QED
      BY <1>1, <2>1, <2>2, <2>3
  <1>. QED
    BY <1>1, <1>3 DEF d

(* As many chunks as Close counts are as many as the header of a one-shot  *)
(* encoder says.                                                           *)
LEMMA ChunkCounts ==
  ASSUME NEW a \in Nat, NEW s \in Nat \ {0}
  PROVE  (a + s - 1) \div s = a \div s + (IF a % s # 0 THEN 1 ELSE 0)
  <1>. DEFINE d == a \div s
              r == a % s
  <1>1. d \in Nat /\ r \in 0..s - 1 /\ a = d * s + r
    BY DivisionBounds
  <1>2. a + s - 1 \in Nat
    OBVIOUS
  <1>. HIDE DEF d, r
  <1>3. d * s \in Nat /\ (d + 1) * s = d * s + s /\ d + 1 \in Nat
    BY <1>1
  <1>4. CASE r = 0
    <2>1. d * s <= a + s - 1 /\ a + s - 1 < d * s + s
      BY <1>1, <1>3, <1>4
    <2>2. (a + s - 1) \div s = d
      BY <1>1, <1>2, <2>1, DivisionIsUnique
    <2>. QED
      BY <1>1, <1>4, <2>2 DEF d, r
  <1>5. CASE r # 0
    <2>1. (d + 1) * s <= a + s - 1 /\ a + s - 1 < (d + 1) * s + s
      BY <1>1, <1>3, <1>5
    <2>2. (a + s - 1) \div s = d + 1
      BY <1>2, <1>3, <2>1, DivisionIsUnique
    <2>. QED
      BY <1>1, <1>5, <2>2 DEF d, r
  <1>. QED
    BY <1>4, <1>5

(* A chunk is what Close reads back for its index, and no longer than the  *)
(* chunk size.                                                             *)
LEMMA ChunksAreParts ==
  ASSUME NEW S, NEW data \in Seq(S), NEW size \in Nat \ {0}
  PROVE  /\ ChunksOf(data, size) \in Seq(Seq(S))
         /\ Len(ChunksOf(data, size)) = (Len(data) + size - 1) \div size
         /\ \A i \in 1..Len(ChunksOf(data, size)) :
              /\ ChunksOf(data, size)[i] =
                   SubSeq(data, (i - 1) * size + 1,
                          (i - 1) * size + Lesser(size, Len(data) - (i - 1) * size))
              /\ Len(ChunksOf(data, size)[i]) = Lesser(size, Len(data) - (i - 1) * size)
              /\ Len(ChunksOf(data, size)[i]) \in 0..size
  <1>. DEFINE n == (Len(data) + size - 1) \div size
              chunk(i) == SubSeq(data, (i - 1) * size + 1, Lesser(i * size, Len(data)))
  <1>1. Len(data) \in Nat /\ Len(data) + size - 1 \in Nat
    OBVIOUS
  <1>2. n \in Nat /\ n * size <= Len(data) + size - 1
    BY <1>1, DivisionBounds
  <1>. HIDE DEF n
  <1>3. ASSUME NEW i \in 1..n
        PROVE  /\ (i - 1) * size \in Nat /\ (i - 1) * size < Len(data)
               /\ i * size = (i - 1) * size + size
    <2>. DEFINE k == i - 1
                e == n - i
    <2>1. k \in Nat /\ e \in Nat /\ i = k + 1 /\ n = k + 1 + e
      BY <1>2
    <2>. HIDE DEF k, e
    <2>2. /\ k * size \in Nat /\ e * size \in Nat
          /\ (k + 1) * size = k * size + size /\ n * size = k * size + size + e * size
      BY <2>1
    <2>3. k * size < Len(data)
      BY <1>1, <1>2, <2>2
    <2>. QED
      BY <2>1, <2>2, <2>3 DEF k
  <1>4. ASSUME NEW i \in 1..n
        PROVE  /\ chunk(i) = SubSeq(data, (i - 1) * size + 1,
                                    (i - 1) * size + Lesser(size, Len(data) - (i - 1) * size))
               /\ Len(chunk(i)) = Lesser(size, Len(data) - (i - 1) * size)
               /\ Len(chunk(i)) \in 0..size /\ chunk(i) \in Seq(S)
    <2>. DEFINE a == (i - 1) * size
                l == Lesser(size, Len(data) - a)
    <2>1. a \in Nat /\ a < Len(data) /\ i * size = a + size
      BY <1>3
    <2>. HIDE DEF a
    <2>2. l \in 1..size /\ a + l <= Len(data) /\ Lesser(a + size, Len(data)) = a + l
      BY <1>1, <2>1 DEF Lesser
    <2>. HIDE DEF l
    <2>3. chunk(i) = SubSeq(data, a + 1, a + l)
      BY <2>1, <2>2 DEF a
    <2>4. SubSeq(data, a + 1, a + l) \in Seq(S) /\ Len(SubSeq(data, a + 1, a + l)) = l
      BY <2>1, <2>2, SubSeqProperties
    <2>. QED
      BY <2>2, <2>3, <2>4 DEF a, l
  <1>5. ChunksOf(data, size) = [i \in 1..n |-> chunk(i)]
    BY DEF ChunksOf, n
  <1>. HIDE DEF chunk
  <1>6. ChunksOf(data, size) \in Seq(Seq(S)) /\ Len(ChunksOf(data, size)) = n
        /\ \A i \in 1..n : ChunksOf(data, size)[i] = chunk(i)
    BY <1>2, <1>4, <1>5
  <1>. QED
    BY <1>4, <1>6 DEF n

CutOf(chunks, data, size) ==
  /\ chunks \in Seq(Seq(NumCells)) /\ Len(chunks) = (Len(data) + size - 1) \div size
  /\ \A i \in 1..Len(chunks) :
       /\ chunks[i] = SubSeq(data, (i - 1) * size + 1,
                            (i - 1) * size + Lesser(size, Len(data) - (i - 1) * size))
       /\ Len(chunks[i]) \in 0..size

LEMMA TextIsCut ==
  \A data \in Seq(NumCells), size \in Nat \ {0} : CutOf(ChunksOf(data, size), data, size)
  BY ChunksAreParts DEF CutOf

LEMMA SealedIsSeq ==
  ASSUME NEW key \in Seq(Nat), NEW base \in Nat, NEW header \in HeaderCells,
         NEW digest \in Seq(NumCells), NEW index \in Nat, NEW plain \in Seq(NumCells)
  PROVE  /\ sealChunk(key, base, header, digest, index, plain) \in Seq(CtCells \cup TagCells)
         /\ Len(sealChunk(key, base, header, digest, index, plain)) = Len(plain) + TagLen
  <1>. DEFINE nonce == chunkNonce(base, index)
              ct == [i \in DOMAIN plain |-> CtCell(key, nonce, plain[i].n)]
              tag == TagCell(key, nonce, chunkAAD(header, digest, index), ct)
  <1>1. nonce \in Nat \X Nat
    BY DEF chunkNonce
  <1>. HIDE DEF nonce
  <1>2. ASSUME NEW i \in DOMAIN plain
        PROVE  CtCell(key, nonce, plain[i].n) \in CtCells
    <2>1. plain[i] \in NumCells
      OBVIOUS
    <2>. QED
      BY <1>1, <2>1 DEF CtCell, CtCells, NumCells
  <1>3. ct \in Seq(CtCells) /\ Len(ct) = Len(plain)
    BY <1>2
  <1>. HIDE DEF ct
  <1>4. tag \in TagCells
    BY <1>1, <1>3 DEF TagCell, TagCells, chunkAAD
  <1>. HIDE DEF tag
  <1>5. ct \in Seq(CtCells \cup TagCells) /\ tag \in CtCells \cup TagCells
    BY <1>3, <1>4
  <1>6. Append(ct, tag) \in Seq(CtCells \cup TagCells) /\ Len(Append(ct, tag)) = Len(plain) + 1
    BY <1>3, <1>5, AppendProperties
  <1>. QED
    BY <1>6 DEF sealChunk, nonce, ct, tag, TagLen

-----------------------------------------------------------------------------
(* Metadata.                                                               *)

Entry == [tag : 0..MaxU32, value : Seq(NumCells)]

OrderUpto(p, entries, k) ==
  /\ p \in [1..k -> 1..k]
  /\ \A i, j \in 1..k : i < j => p[i] # p[j] /\ ~TagBefore(entries[p[j]], entries[p[i]])

(* The next entry goes before the first that has a larger tag.             *)
LEMMA OrderWithNext ==
  ASSUME NEW entries \in Seq(Entry), NEW k \in 0..Len(entries) - 1, NEW p, OrderUpto(p, entries, k)
  PROVE  \E r : OrderUpto(r, entries, k + 1)
  <1>. DEFINE tag(i) == entries[i].tag
              later == {i \in 1..k : tag(k + 1) < tag(p[i])}
  <1>1. k \in Nat /\ p \in [1..k -> 1..k] /\ \A i \in 1..k + 1 : tag(i) \in Int
    <2>1. k \in Nat /\ \A i \in 1..k + 1 : i \in 1..Len(entries)
      OBVIOUS
    <2>2. \A i \in 1..Len(entries) : entries[i] \in Entry
      OBVIOUS
    <2>3. \A e \in Entry : e.tag \in Int
      BY WidthAssumption DEF Entry
    <2>4. \A i \in 1..k + 1 : tag(i) \in Int
      BY <2>1, <2>2, <2>3
    <2>. QED
      BY <2>1, <2>4 DEF OrderUpto
  <1>2. /\ \A i \in 1..k : p[i] \in 1..k /\ p[i] \in 1..k + 1 /\ tag(p[i]) \in Int
        /\ tag(k + 1) \in Int /\ k + 1 \in 1..k + 1
    <2>1. \A i \in 1..k : p[i] \in 1..k /\ p[i] \in 1..k + 1
      BY <1>1
    <2>2. k + 1 \in 1..k + 1
      BY <1>1
    <2>. HIDE DEF tag
    <2>. QED
      BY <1>1, <2>1, <2>2
  <1>3. \A i, j \in 1..k : i < j => p[i] # p[j] /\ tag(p[i]) <= tag(p[j])
    <2>1. \A i, j \in 1..k : i < j => p[i] # p[j] /\ ~(tag(p[j]) < tag(p[i]))
      BY DEF OrderUpto, TagBefore
    <2>. QED
      BY <1>2, <2>1
  <1>4. \E q \in 1..k + 1 : /\ \A i \in 1..q - 1 : tag(p[i]) <= tag(k + 1)
                            /\ \A i \in q..k : tag(k + 1) <= tag(p[i])
    <2>1. CASE later = {}
      <3>1. \A i \in 1..k : tag(p[i]) <= tag(k + 1)
        BY <1>2, <2>1
      <3>2. k + 1 \in 1..k + 1 /\ (k + 1) - 1 = k /\ (k + 1)..k = {}
        BY <1>1
      <3>. QED
        BY <3>1, <3>2
    <2>2. CASE later # {}
      <3>1. later \in SUBSET Nat
        OBVIOUS
      <3>2. PICK q \in later : \A i \in later : q <= i
        BY <2>2, <3>1, LeastOf
      <3>3. q \in 1..k /\ tag(k + 1) < tag(p[q])
        OBVIOUS
      <3>4. \A i \in 1..q - 1 : tag(p[i]) <= tag(k + 1)
        <4>1. \A i \in 1..q - 1 : i \in 1..k /\ i \notin later
          BY <3>2, <3>3
        <4>. QED
          BY <1>2, <4>1
      <3>5. \A i \in q..k : tag(k + 1) <= tag(p[i])
        <4>1. \A i \in q..k : i \in 1..k /\ (i = q \/ q < i)
          BY <3>3
        <4>. HIDE DEF tag, later
        <4>2. \A i \in q..k : tag(p[q]) <= tag(p[i])
          BY <1>3, <1>2, <3>3, <4>1
        <4>. QED
          BY <1>2, <3>3, <4>1, <4>2
      <3>6. q \in 1..k + 1
        BY <1>1, <3>3
      <3>. QED
        BY <3>4, <3>5, <3>6
    <2>. QED
      BY <2>1, <2>2
  <1>5. PICK q \in 1..k + 1 : /\ \A i \in 1..q - 1 : tag(p[i]) <= tag(k + 1)
                              /\ \A i \in q..k : tag(k + 1) <= tag(p[i])
    BY <1>4
  <1>. DEFINE r == [i \in 1..k + 1 |-> IF i < q THEN p[i] ELSE IF i = q THEN k + 1 ELSE p[i - 1]]
  <1>. HIDE DEF tag, later
  <1>6. /\ \A i \in 1..q - 1 : r[i] = p[i] /\ p[i] \in 1..k
        /\ r[q] = k + 1
        /\ \A i \in q + 1..k + 1 : r[i] = p[i - 1] /\ p[i - 1] \in 1..k
    <2>1. /\ \A i \in 1..q - 1 : i \in 1..k /\ i \in 1..k + 1 /\ i < q
          /\ \A i \in q + 1..k + 1 : i - 1 \in 1..k /\ i \in 1..k + 1 /\ ~(i < q) /\ i # q
      BY <1>1
    <2>. QED
      BY <1>2, <2>1
  <1>7. r \in [1..k + 1 -> 1..k + 1]
    BY <1>1
  <1>. HIDE DEF r
  <1>8. ASSUME NEW i \in 1..k + 1, NEW j \in 1..k + 1, i < j
        PROVE  r[i] # r[j] /\ tag(r[i]) <= tag(r[j])
    <2>1. CASE j < q
      <3>1. i \in 1..q - 1 /\ j \in 1..q - 1 /\ i \in 1..k /\ j \in 1..k
        BY <1>8, <2>1
      <3>. QED
        BY <1>3, <1>6, <1>8, <3>1
    <2>2. CASE j = q
      <3>1. i \in 1..q - 1
        BY <1>8, <2>2
      <3>. QED
        BY <1>1, <1>5, <1>6, <2>2, <3>1
    <2>3. CASE j > q /\ i < q
      <3>1. i \in 1..q - 1 /\ j \in q + 1..k + 1 /\ i \in 1..k /\ j - 1 \in 1..k /\ i < j - 1
        BY <1>8, <2>3
      <3>. QED
        BY <1>3, <1>6, <3>1
    <2>4. CASE j > q /\ i = q
      <3>1. j \in q + 1..k + 1 /\ j - 1 \in q..k
        BY <1>1, <2>4
      <3>. QED
        <4>1. r[i] = k + 1 /\ r[j] = p[j - 1] /\ p[j - 1] \in 1..k
          BY <1>6, <2>4, <3>1
        <4>2. tag(k + 1) <= tag(p[j - 1])
          BY <1>5, <3>1
        <4>3. k + 1 \notin 1..k
          BY <1>1
        <4>. QED
          BY <4>1, <4>2, <4>3
    <2>5. CASE j > q /\ i > q
      <3>1. i \in q + 1..k + 1 /\ j \in q + 1..k + 1 /\ i - 1 \in 1..k /\ j - 1 \in 1..k /\ i - 1 < j - 1
        BY <1>1, <1>8, <2>5
      <3>. QED
        BY <1>3, <1>6, <3>1
    <2>. QED
      BY <1>1, <2>1, <2>2, <2>3, <2>4, <2>5
  <1>9. \A i, j \in 1..k + 1 : i < j => r[i] # r[j] /\ ~TagBefore(entries[r[j]], entries[r[i]])
    <2>1. \A i \in 1..k + 1 : tag(r[i]) \in Int
      BY <1>1, <1>7
    <2>. QED
      BY <1>8, <2>1 DEF TagBefore, tag
  <1>. QED
    BY <1>7, <1>9 DEF OrderUpto

LEMMA OrderExists ==
  ASSUME NEW entries \in Seq(Entry)
  PROVE  Orders(entries) # {}
  <1>. DEFINE T == {k \in 0..Len(entries) : ~\E p : OrderUpto(p, entries, k)}
  <1>1. T = {}
    <2>. SUFFICES ASSUME T # {}
                  PROVE  FALSE
      OBVIOUS
    <2>1. T \in SUBSET Nat
      OBVIOUS
    <2>2. PICK x \in T : \A y \in T : x <= y
      BY <2>1, LeastOf
    <2>3. CASE x = 0
      <3>1. OrderUpto([i \in 1..0 |-> i], entries, 0)
        BY DEF OrderUpto
      <3>. QED
        BY <2>3, <3>1
    <2>4. CASE x # 0
      <3>. DEFINE k == x - 1
      <3>1. k \in 0..Len(entries) - 1 /\ k \in 0..Len(entries) /\ k + 1 = x /\ ~(x <= k)
        BY <2>4
      <3>2. PICK p : OrderUpto(p, entries, k)
        BY <2>2, <3>1
      <3>. HIDE DEF k
      <3>3. \E r : OrderUpto(r, entries, k + 1)
        BY <3>1, <3>2, OrderWithNext
      <3>. QED
        BY <3>1, <3>3
    <2>. QED
      BY <2>3, <2>4
  <1>2. PICK p : OrderUpto(p, entries, Len(entries))
    BY <1>1
  <1>3. DOMAIN entries = 1..Len(entries)
    OBVIOUS
  <1>4. p \in Orders(entries)
    BY <1>2, <1>3 DEF Orders, OrderUpto
  <1>. QED
    BY <1>4

LEMMA SortedIsSeq ==
  ASSUME NEW entries \in Seq(Entry)
  PROVE  Sorted(entries) \in Seq(Entry) /\ Len(Sorted(entries)) = Len(entries)
  <1>. DEFINE order == CHOOSE p \in Orders(entries) : TRUE
  <1>1. order \in Orders(entries)
    BY OrderExists
  <1>. HIDE DEF order
  <1>2. order \in [1..Len(entries) -> 1..Len(entries)] /\ DOMAIN entries = 1..Len(entries)
    BY <1>1 DEF Orders
  <1>3. Sorted(entries) = [i \in 1..Len(entries) |-> entries[order[i]]]
    BY <1>2 DEF Sorted, order
  <1>. QED
    BY <1>2, <1>3

(* Metadata that is encoded is a region of numbers, and there is one       *)
(* exactly if there are entries.                                           *)
LEMMA SeqInto ==
  ASSUME NEW S, NEW T, NEW s \in Seq(S), \A i \in 1..Len(s) : s[i] \in T
  PROVE  s \in Seq(T)
  <1>1. Len(s) \in Nat /\ s = [i \in 1..Len(s) |-> s[i]]
    OBVIOUS
  <1>2. s \in [1..Len(s) -> T]
    BY <1>1
  <1>. QED
    BY <1>1, <1>2, SeqDef

LEMMA EntryIsNumbers ==
  ASSUME NEW entry \in Entry
  PROVE  /\ EntryCells(entry) \in Seq([t : {"num"}, n : Nat])
         /\ Len(entry.value) \in 0..Len(EntryCells(entry))
         /\ Len(EntryCells(entry)) <= MaxU32 => EntryCells(entry) \in Seq(NumCells)
  <1>. DEFINE Wide == [t : {"num"}, n : Nat]
              prefix == <<Num(entry.tag), Num(Len(entry.value))>>
  <1>1. entry.tag \in 0..MaxU32 /\ entry.value \in Seq(NumCells) /\ Len(entry.value) \in Nat
    BY DEF Entry
  <1>2. NumCells \subseteq Wide
    BY WidthAssumption DEF NumCells
  <1>3. Num(entry.tag) \in NumCells /\ Num(Len(entry.value)) \in Wide
        /\ (Len(entry.value) <= MaxU32 => Num(Len(entry.value)) \in NumCells)
    BY <1>1 DEF NumCells, Num
  <1>4. prefix \in Seq(Wide) /\ Len(prefix) = 2 /\ entry.value \in Seq(Wide)
        /\ (Len(entry.value) <= MaxU32 => prefix \in Seq(NumCells))
    <2>. HIDE DEF Wide
    <2>. QED
      BY <1>1, <1>2, <1>3
  <1>. HIDE DEF prefix, Wide
  <1>5. /\ prefix \o entry.value \in Seq(Wide) /\ Len(prefix \o entry.value) = 2 + Len(entry.value)
        /\ Len(entry.value) <= MaxU32 => prefix \o entry.value \in Seq(NumCells)
    <2>. DEFINE v == entry.value
    <2>1. prefix \in Seq(Wide) /\ Len(prefix) = 2 /\ v \in Seq(Wide) /\ v \in Seq(NumCells)
      BY <1>1, <1>4
    <2>. HIDE DEF v
    <2>2. prefix \o v \in Seq(Wide)
      BY <2>1, ConcatProperties
    <2>3. Len(prefix \o v) = Len(prefix) + Len(v)
      BY <2>1, ConcatProperties
    <2>4. Len(prefix \o v) = 2 + Len(v)
      BY <2>1, <2>3
    <2>5. prefix \in Seq(NumCells) => prefix \o v \in Seq(NumCells)
      BY <2>1, ConcatProperties
    <2>. QED
      BY <1>4, <2>2, <2>4, <2>5 DEF v
  <1>6. Len(entry.value) \in 0..Len(prefix \o entry.value)
        /\ (Len(prefix \o entry.value) <= MaxU32 => Len(entry.value) <= MaxU32)
    BY <1>1, <1>5, WidthAssumption
  <1>. QED
    BY <1>5, <1>6 DEF EntryCells, prefix, Wide

(* None of the parts is longer than the whole.                             *)
LEMMA PartIsShorter ==
  ASSUME NEW S, NEW seqs \in Seq(Seq(S)), NEW i \in 1..Len(seqs)
  PROVE  Len(seqs[i]) \in 0..Len(FlattenSeq(seqs))
  <1>. DEFINE k == i - 1
  <1>1. k \in 0..Len(seqs) - 1 /\ k \in 0..Len(seqs) /\ k + 1 = i /\ k + 1 \in 0..Len(seqs)
        /\ Len(seqs) \in k + 1..Len(seqs) /\ Len(seqs) \in 0..Len(seqs) /\ seqs[k + 1] \in Seq(S)
    OBVIOUS
  <1>. HIDE DEF k
  <1>2. /\ Joined(seqs, k) \in Seq(S) /\ Joined(seqs, k + 1) = Joined(seqs, k) \o seqs[k + 1]
        /\ Joined(seqs, k + 1) \in Seq(S) /\ Joined(seqs, Len(seqs)) \in Seq(S)
    BY <1>1, JoinedNext, JoinedIsSeq
  <1>3. PICK rest \in Seq(S) : Joined(seqs, Len(seqs)) = Joined(seqs, k + 1) \o rest
    BY <1>1, JoinedBegins DEF Begins
  <1>4. Len(Joined(seqs, k + 1)) = Len(Joined(seqs, k)) + Len(seqs[k + 1])
        /\ Len(Joined(seqs, Len(seqs))) = Len(Joined(seqs, k + 1)) + Len(rest)
        /\ Len(Joined(seqs, k)) \in Nat /\ Len(seqs[k + 1]) \in Nat /\ Len(rest) \in Nat
    BY <1>1, <1>2, <1>3, ConcatProperties
  <1>. QED
    BY <1>1, <1>4, JoinedAll

LEMMA FlattenIsSeq ==
  ASSUME NEW S, NEW seqs \in Seq(Seq(S))
  PROVE  FlattenSeq(seqs) \in Seq(S)
  <1>1. Len(seqs) \in 0..Len(seqs)
    OBVIOUS
  <1>. QED
    BY <1>1, JoinedAll, JoinedIsSeq

(* Metadata that is encoded is a region of numbers, and there is one       *)
(* exactly if there are entries.                                           *)
LEMMA RegionIsNumbers ==
  ASSUME NEW entries \in Seq(Entry)
  PROVE  /\ EncodeMetadata(entries).ok \in BOOLEAN
         /\ EncodeMetadata(entries).region \in Seq(NumCells)
         /\ EncodeMetadata(entries).ok =>
              (EncodeMetadata(entries).region # <<>> <=> entries # <<>>)
  <1>. DEFINE sorted == Sorted(entries)
              cells == [i \in DOMAIN sorted |-> EntryCells(sorted[i])]
              body == FlattenSeq(cells)
              Wide == [t : {"num"}, n : Nat]
              region == <<Num(Len(body))>> \o body
  <1>1. sorted \in Seq(Entry) /\ DOMAIN sorted = 1..Len(sorted) /\ Len(sorted) \in Nat
    BY SortedIsSeq
  <1>2. \A i \in 1..Len(sorted) : sorted[i] \in Entry
    BY <1>1
  <1>. HIDE DEF sorted, Wide
  <1>3. cells \in Seq(Seq(Wide)) /\ Len(cells) = Len(sorted)
        /\ \A i \in 1..Len(sorted) : cells[i] = EntryCells(sorted[i])
    <2>1. \A i \in 1..Len(sorted) : EntryCells(sorted[i]) \in Seq(Wide)
      BY <1>2, EntryIsNumbers DEF Wide
    <2>. QED
      BY <1>1, <2>1
  <1>. HIDE DEF cells
  <1>4. body \in Seq(Wide) /\ Len(body) \in Nat
    BY <1>3, FlattenIsSeq
  <1>5. ASSUME Len(body) <= MaxU32
        PROVE  region \in Seq(NumCells) /\ region # <<>>
    <2>1. \A i \in 1..Len(sorted) : Len(cells[i]) \in 0..Len(body)
      BY <1>3, PartIsShorter
    <2>2. \A i \in 1..Len(sorted) : Len(cells[i]) <= MaxU32
      BY <1>4, <1>5, <2>1, WidthAssumption
    <2>3. ASSUME NEW i \in 1..Len(sorted)
          PROVE  cells[i] \in Seq(NumCells)
      <3>1. sorted[i] \in Entry /\ cells[i] = EntryCells(sorted[i]) /\ Len(EntryCells(sorted[i])) <= MaxU32
        BY <1>2, <1>3, <2>2
      <3>2. EntryCells(sorted[i]) \in Seq(NumCells)
        BY <3>1, EntryIsNumbers
      <3>. QED
        BY <3>1, <3>2
    <2>4. cells \in Seq(Seq(NumCells))
      BY <1>3, <2>3, SeqInto
    <2>5. body \in Seq(NumCells)
      BY <2>4, FlattenIsSeq
    <2>6. Num(Len(body)) \in NumCells
      BY <1>4, <1>5 DEF Num, NumCells
    <2>. HIDE DEF body
    <2>7. region \in Seq(NumCells) /\ Len(region) = 1 + Len(body) /\ Len(body) \in Nat
      BY <2>5, <2>6
    <2>. QED
      BY <2>7
  <1>6. <<>> \in Seq(NumCells)
    OBVIOUS
  <1>. DEFINE legal == /\ Len(body) <= MaxU32
                       /\ \A i \in DOMAIN sorted :
                            /\ validReservedMetadata(sorted[i])
                            /\ i > 1 => sorted[i - 1].tag # sorted[i].tag
  <1>7. EncodeMetadata(entries) =
          IF entries = <<>> THEN [ok |-> TRUE, region |-> <<>>]
          ELSE IF legal THEN [ok |-> TRUE, region |-> region]
          ELSE [ok |-> FALSE, region |-> <<>>]
    BY DEF EncodeMetadata, sorted, cells
  <1>8. legal => Len(body) <= MaxU32
    OBVIOUS
  <1>. HIDE DEF body, legal, region
  <1>9. CASE entries = <<>>
    BY <1>6, <1>7, <1>9
  <1>10. CASE entries # <<>> /\ legal
    BY <1>5, <1>7, <1>8, <1>10
  <1>11. CASE entries # <<>> /\ ~legal
    BY <1>6, <1>7, <1>11
  <1>. QED
    BY <1>9, <1>10, <1>11

-----------------------------------------------------------------------------
(* The container as it is written, chunk by chunk.                         *)

BodyCells == NumCells \cup CtCells \cup TagCells

Frames(bodies) == [i \in DOMAIN bodies |-> Framed(bodies[i])]
Leaves(bodies) == [i \in DOMAIN bodies |-> Leaf(bodies[i])]

(* What is in the sink, and in the hash, after k chunks.                   *)
Written(header, meta, bodies, k) == (<<header>> \o meta) \o Joined(Frames(bodies), k)
Hashed(header, meta, bodies, k)  == (<<header>> \o meta) \o Upto(Leaves(bodies), k)

LEMMA FramedIsCells ==
  ASSUME NEW body \in Seq(BodyCells), Len(body) <= MaxU32
  PROVE  Framed(body) \in Seq(Cells)
  <1>1. Num(Len(body)) \in NumCells /\ NumCells \subseteq Cells /\ BodyCells \subseteq Cells
    BY WidthAssumption DEF Num, NumCells, Cells, BodyCells
  <1>2. <<Num(Len(body))>> \in Seq(Cells) /\ body \in Seq(Cells)
    <2>. HIDE DEF Cells
    <2>. QED
      BY <1>1
  <1>. QED
    BY <1>2, ConcatProperties DEF Framed

LEMMA FramesAreSeqs ==
  ASSUME NEW bodies \in Seq(Seq(BodyCells)), \A i \in 1..Len(bodies) : Len(bodies[i]) <= MaxU32
  PROVE  /\ Frames(bodies) \in Seq(Seq(Cells)) /\ Len(Frames(bodies)) = Len(bodies)
         /\ \A i \in 1..Len(bodies) : Frames(bodies)[i] = Framed(bodies[i])
  <1>1. ASSUME NEW i \in 1..Len(bodies)
        PROVE  Framed(bodies[i]) \in Seq(Cells)
    BY FramedIsCells
  <1>. QED
    <2>1. DOMAIN bodies = 1..Len(bodies) /\ Len(bodies) \in Nat
      OBVIOUS
    <2>2. Frames(bodies) = [i \in 1..Len(bodies) |-> Framed(bodies[i])]
      BY <2>1 DEF Frames
    <2>. QED
      BY <1>1, <2>1, <2>2

LEMMA LeavesAreSeq ==
  ASSUME NEW bodies \in Seq(Seq(BodyCells))
  PROVE  /\ Leaves(bodies) \in Seq(LeafCells) /\ Len(Leaves(bodies)) = Len(bodies)
         /\ \A i \in 1..Len(bodies) : Leaves(bodies)[i] = Leaf(bodies[i])
  <1>1. ASSUME NEW i \in 1..Len(bodies)
        PROVE  Leaf(bodies[i]) \in LeafCells
    BY DEF Leaf, LeafCells, BodyCells
  <1>. QED
    <2>1. DOMAIN bodies = 1..Len(bodies) /\ Len(bodies) \in Nat
      OBVIOUS
    <2>2. Leaves(bodies) = [i \in 1..Len(bodies) |-> Leaf(bodies[i])]
      BY <2>1 DEF Leaves
    <2>. QED
      BY <1>1, <2>1, <2>2

LEMMA PrologueIsCells ==
  ASSUME NEW header \in HeaderCells, NEW meta \in Seq(NumCells)
  PROVE  /\ <<header>> \in Seq(Cells) /\ meta \in Seq(Cells) /\ <<header>> \o meta \in Seq(Cells)
         /\ <<header>> \o meta \in Seq(HeaderCells \cup NumCells \cup LeafCells)
  <1>1. header \in Cells /\ NumCells \subseteq Cells
    BY DEF Cells
  <1>. HIDE DEF Cells
  <1>2. <<header>> \in Seq(Cells) /\ meta \in Seq(Cells)
        /\ <<header>> \in Seq(HeaderCells \cup NumCells \cup LeafCells)
        /\ meta \in Seq(HeaderCells \cup NumCells \cup LeafCells)
    BY <1>1
  <1>. QED
    BY <1>2, ConcatProperties

(* The hash has what the sink has, each body as its leaf.                  *)
LEMMA HashedIsSeq ==
  ASSUME NEW header \in HeaderCells, NEW meta \in Seq(NumCells),
         NEW bodies \in Seq(Seq(BodyCells)), NEW k \in 0..Len(bodies)
  PROVE  Hashed(header, meta, bodies, k) \in Seq(HeaderCells \cup NumCells \cup LeafCells)
  <1>. DEFINE S == HeaderCells \cup NumCells \cup LeafCells
  <1>1. Upto(Leaves(bodies), k) \in Seq(LeafCells)
    BY LeavesAreSeq, UptoIsSeq
  <1>2. Upto(Leaves(bodies), k) \in Seq(S) /\ <<header>> \o meta \in Seq(S)
    BY <1>1, PrologueIsCells
  <1>. HIDE DEF S
  <1>3. (<<header>> \o meta) \o Upto(Leaves(bodies), k) \in Seq(S)
    BY <1>2, ConcatProperties
  <1>. QED
    BY <1>3 DEF Hashed, S

LEMMA NothingWritten ==
  ASSUME NEW header \in HeaderCells, NEW meta \in Seq(NumCells),
         NEW bodies \in Seq(Seq(BodyCells)), \A i \in 1..Len(bodies) : Len(bodies[i]) <= MaxU32
  PROVE  /\ Written(header, meta, bodies, 0) = <<header>> \o meta
         /\ Hashed(header, meta, bodies, 0) = <<header>> \o meta
  <1>1. Joined(Frames(bodies), 0) = <<>>
    BY FramesAreSeqs, JoinedNone
  <1>2. Upto(Leaves(bodies), 0) = <<>>
    BY DEF Upto
  <1>. QED
    BY <1>1, <1>2, PrologueIsCells, ConcatEmptySeq DEF Written, Hashed

LEMMA WrittenIsCells ==
  ASSUME NEW header \in HeaderCells, NEW meta \in Seq(NumCells),
         NEW bodies \in Seq(Seq(BodyCells)), \A i \in 1..Len(bodies) : Len(bodies[i]) <= MaxU32,
         NEW k \in 0..Len(bodies)
  PROVE  Written(header, meta, bodies, k) \in Seq(Cells)
  <1>1. Joined(Frames(bodies), k) \in Seq(Cells)
    BY FramesAreSeqs, JoinedIsSeq
  <1>. QED
    BY <1>1, PrologueIsCells, ConcatProperties DEF Written

LEMMA ChunkWritten ==
  ASSUME NEW header \in HeaderCells, NEW meta \in Seq(NumCells),
         NEW bodies \in Seq(Seq(BodyCells)), \A i \in 1..Len(bodies) : Len(bodies[i]) <= MaxU32,
         NEW k \in 0..Len(bodies) - 1
  PROVE  /\ Written(header, meta, bodies, k + 1) = Written(header, meta, bodies, k) \o Framed(bodies[k + 1])
         /\ Hashed(header, meta, bodies, k + 1) = Append(Hashed(header, meta, bodies, k), Leaf(bodies[k + 1]))
         /\ Framed(bodies[k + 1]) \in Seq(Cells)
  <1>. DEFINE h == <<header>> \o meta
              frames == Frames(bodies)
              leaves == Leaves(bodies)
  <1>1. k \in 0..Len(bodies) /\ k + 1 \in 0..Len(bodies) /\ k + 1 \in 1..Len(bodies) /\ k \in Nat
    OBVIOUS
  <1>2. /\ frames \in Seq(Seq(Cells)) /\ Len(frames) = Len(bodies)
        /\ \A i \in 1..Len(bodies) : frames[i] = Framed(bodies[i])
    BY FramesAreSeqs
  <1>3. /\ leaves \in Seq(LeafCells) /\ Len(leaves) = Len(bodies)
        /\ \A i \in 1..Len(bodies) : leaves[i] = Leaf(bodies[i])
    BY LeavesAreSeq
  <1>4. h \in Seq(Cells) /\ h \in Seq(HeaderCells \cup NumCells \cup LeafCells)
    BY PrologueIsCells
  <1>. HIDE DEF h, frames, leaves
  <1>5. Framed(bodies[k + 1]) \in Seq(Cells)
    <2>1. frames[k + 1] = Framed(bodies[k + 1])
      BY <1>1, <1>2
    <2>2. frames[k + 1] \in Seq(Cells)
      BY <1>1, <1>2
    <2>. QED
      BY <2>1, <2>2
  <1>6. h \o Joined(frames, k + 1) = (h \o Joined(frames, k)) \o Framed(bodies[k + 1])
    <2>1. Joined(frames, k + 1) = Joined(frames, k) \o frames[k + 1]
      BY <1>1, <1>2, JoinedNext
    <2>2. Joined(frames, k) \in Seq(Cells)
      BY <1>1, <1>2, JoinedIsSeq
    <2>3. frames[k + 1] = Framed(bodies[k + 1])
      BY <1>1, <1>2
    <2>. DEFINE joined == Joined(frames, k)
                frame == Framed(bodies[k + 1])
    <2>4. joined \in Seq(Cells) /\ frame \in Seq(Cells) /\ h \in Seq(Cells)
      BY <1>4, <1>5, <2>2
    <2>5. Joined(frames, k + 1) = joined \o frame
      BY <2>1, <2>3
    <2>. HIDE DEF joined, frame
    <2>6. h \o (joined \o frame) = (h \o joined) \o frame
      BY <2>4, CellTriples, Zenon
    <2>. QED
      BY <2>5, <2>6 DEF joined, frame
  <1>7. h \o Upto(leaves, k + 1) = Append(h \o Upto(leaves, k), Leaf(bodies[k + 1]))
    <2>. DEFINE S == HeaderCells \cup NumCells \cup LeafCells
                a == Upto(leaves, k)
                b == Upto(leaves, k + 1)
                x == Leaf(bodies[k + 1])
    <2>. DEFINE m == k + 1
    <2>0. k \in 0..Len(leaves) /\ m \in 0..Len(leaves)
      BY <1>1, <1>3
    <2>. HIDE DEF m
    <2>1. a \in Seq(LeafCells) /\ Len(a) = k /\ \A i \in 1..k : a[i] = leaves[i]
      BY <1>3, <2>0, UptoIsSeq
    <2>8. /\ Upto(leaves, m) \in Seq(LeafCells) /\ Len(Upto(leaves, m)) = m
          /\ \A i \in 1..m : Upto(leaves, m)[i] = leaves[i]
      BY <1>3, <2>0, UptoIsSeq
    <2>2. b \in Seq(LeafCells) /\ Len(b) = k + 1 /\ \A i \in 1..k + 1 : b[i] = leaves[i]
      BY <2>8 DEF m
    <2>3. leaves[k + 1] = x /\ x \in LeafCells
      BY <1>1, <1>3
    <2>4. a \in Seq(S) /\ b \in Seq(S) /\ h \in Seq(S) /\ x \in S
      BY <1>4, <2>1, <2>2, <2>3
    <2>. HIDE DEF S, a, b, x
    <2>5. \A i \in 1..k : i \in 1..k + 1
      BY <1>1
    <2>6. b = Append(a, x)
      <3>1. k + 1 \in 1..k + 1
        BY <1>1
      <3>2. b[k + 1] = x /\ \A i \in 1..k : b[i] = a[i]
        BY <2>1, <2>2, <2>3, <2>5, <3>1
      <3>3. Append(a, x) \in Seq(S) /\ Len(Append(a, x)) = k + 1 /\ Append(a, x)[k + 1] = x
            /\ \A i \in 1..k : Append(a, x)[i] = a[i]
        BY <1>1, <2>1, <2>4, AppendProperties
      <3>4. \A i \in 1..k + 1 : b[i] = Append(a, x)[i]
        BY <1>1, <3>2, <3>3
      <3>. HIDE DEF S
      <3>. DEFINE c == Append(a, x)
      <3>5. b \in Seq(S) /\ c \in Seq(S) /\ Len(b) = Len(c) /\ \A i \in 1..Len(b) : b[i] = c[i]
        BY <2>2, <2>4, <3>3, <3>4
      <3>. HIDE DEF c
      <3>6. b = c
        BY <3>5, SeqsAreEqual
      <3>. QED
        BY <3>6 DEF c
    <2>7. h \o Append(a, x) = Append(h \o a, x)
      BY <2>4
    <2>. QED
      BY <2>6, <2>7 DEF a, b, x
  <1>. QED
    BY <1>5, <1>6, <1>7 DEF Written, Hashed, h, frames, leaves

(* All the chunks, the root of all that was hashed and the end magic are   *)
(* the container of the one-shot encoder.                                  *)
LEMMA ContainerIsWritten ==
  ASSUME NEW header \in HeaderCells, NEW meta \in Seq(NumCells),
         NEW bodies \in Seq(Seq(BodyCells)), \A i \in 1..Len(bodies) : Len(bodies[i]) <= MaxU32,
         NEW key \in {NoKey} \cup (Seq(Nat) \X Nat)
  PROVE  LET root == RootCell(key, Hashed(header, meta, bodies, Len(bodies)))
             all  == Written(header, meta, bodies, Len(bodies))
         IN  /\ Container(key, header, meta, bodies) = all \o <<root, MagicEnd>>
             /\ Container(key, header, meta, bodies) = (all \o <<root>>) \o <<MagicEnd>>
             /\ all \in Seq(Cells) /\ <<root>> \in Seq(Cells) /\ <<MagicEnd>> \in Seq(Cells)
             /\ <<root, MagicEnd>> \in Seq(Cells)
             /\ Container(key, header, meta, bodies) \in Seq(Cells)
  <1>. DEFINE hashed == Hashed(header, meta, bodies, Len(bodies))
              root == RootCell(key, hashed)
              all == Written(header, meta, bodies, Len(bodies))
  <1>1. Len(bodies) \in 0..Len(bodies)
    OBVIOUS
  <1>2. hashed \in Seq(HeaderCells \cup NumCells \cup LeafCells) /\ all \in Seq(Cells)
    BY <1>1, HashedIsSeq, WrittenIsCells
  <1>3. hashed = RootInput(header, meta, bodies)
    <2>1. Upto(Leaves(bodies), Len(bodies)) = [i \in DOMAIN bodies |-> Leaf(bodies[i])]
      BY DEF Upto, Leaves
    <2>. QED
      BY <2>1 DEF Hashed, RootInput
  <1>4. Joined(Frames(bodies), Len(bodies)) = FlattenSeq([i \in DOMAIN bodies |-> Framed(bodies[i])])
    <2>1. Frames(bodies) \in Seq(Seq(Cells)) /\ Len(Frames(bodies)) = Len(bodies)
      BY FramesAreSeqs
    <2>2. Joined(Frames(bodies), Len(bodies)) = FlattenSeq(Frames(bodies))
      BY <2>1, JoinedAll
    <2>. QED
      BY <2>2 DEF Frames
  <1>. HIDE DEF hashed, all
  <1>5. root \in Cells /\ MagicEnd \in Cells
    BY <1>2 DEF RootCell, RootCells, Cells
  <1>6. Container(key, header, meta, bodies) = all \o <<root, MagicEnd>>
    BY <1>3, <1>4 DEF Container, Written, all
  <1>. HIDE DEF root
  <1>7. <<root>> \in Seq(Cells) /\ <<MagicEnd>> \in Seq(Cells) /\ <<root, MagicEnd>> \in Seq(Cells)
        /\ <<root, MagicEnd>> = <<root>> \o <<MagicEnd>>
    <2>. HIDE DEF Cells, MagicEnd
    <2>. QED
      BY <1>5
  <1>8. all \o <<root, MagicEnd>> = (all \o <<root>>) \o <<MagicEnd>>
    BY <1>2, <1>7, ConcatAssociative
  <1>9. all \o <<root, MagicEnd>> \in Seq(Cells)
    BY <1>2, <1>7, ConcatProperties
  <1>. QED
    BY <1>2, <1>6, <1>7, <1>8, <1>9 DEF hashed, root, all

(* A container that is a sequence written so far, its root, the end magic. *)
EndsWith(container, all, root) ==
  /\ container = (all \o <<root>>) \o <<MagicEnd>> /\ container \in Seq(Cells)
  /\ all \in Seq(Cells) /\ <<root>> \in Seq(Cells) /\ <<MagicEnd>> \in Seq(Cells)

(* The one-shot container is such a container, whatever it is made of.     *)
LEMMA ContainerEnds ==
  \A header \in HeaderCells, meta \in Seq(NumCells), bodies \in Seq(Seq(BodyCells)),
     key \in {NoKey} \cup (Seq(Nat) \X Nat) :
    (\A i \in 1..Len(bodies) : Len(bodies[i]) <= MaxU32)
      => EndsWith(Container(key, header, meta, bodies), Written(header, meta, bodies, Len(bodies)),
                  RootCell(key, Hashed(header, meta, bodies, Len(bodies))))
  <1>. SUFFICES ASSUME NEW header \in HeaderCells, NEW meta \in Seq(NumCells),
                       NEW bodies \in Seq(Seq(BodyCells)), NEW key \in {NoKey} \cup (Seq(Nat) \X Nat),
                       \A i \in 1..Len(bodies) : Len(bodies[i]) <= MaxU32
                PROVE  EndsWith(Container(key, header, meta, bodies),
                                Written(header, meta, bodies, Len(bodies)),
                                RootCell(key, Hashed(header, meta, bodies, Len(bodies))))
    OBVIOUS
  <1>. DEFINE container == Container(key, header, meta, bodies)
              all == Written(header, meta, bodies, Len(bodies))
              root == RootCell(key, Hashed(header, meta, bodies, Len(bodies)))
  <1>1. /\ container = (all \o <<root>>) \o <<MagicEnd>> /\ container \in Seq(Cells)
        /\ all \in Seq(Cells) /\ <<root>> \in Seq(Cells) /\ <<MagicEnd>> \in Seq(Cells)
    BY ContainerIsWritten, Zenon
  <1>. QED
    BY <1>1, Zenon DEF EndsWith

(* And at every moment on the way there the sink holds a prefix of it.     *)
LEMMA WrittenBegins ==
  ASSUME NEW header \in HeaderCells, NEW meta \in Seq(NumCells),
         NEW bodies \in Seq(Seq(BodyCells)), \A i \in 1..Len(bodies) : Len(bodies[i]) <= MaxU32,
         NEW key \in {NoKey} \cup (Seq(Nat) \X Nat), NEW k \in 0..Len(bodies)
  PROVE  Begins(Written(header, meta, bodies, k), Container(key, header, meta, bodies), Cells)
  <1>. DEFINE h == <<header>> \o meta
              frames == Frames(bodies)
              last == <<RootCell(key, Hashed(header, meta, bodies, Len(bodies))), MagicEnd>>
  <1>1. frames \in Seq(Seq(Cells)) /\ Len(frames) = Len(bodies) /\ h \in Seq(Cells)
    BY FramesAreSeqs, PrologueIsCells
  <1>2. last \in Seq(Cells)
        /\ Container(key, header, meta, bodies) = Written(header, meta, bodies, Len(bodies)) \o last
    BY ContainerIsWritten
  <1>. HIDE DEF h, frames, last
  <1>3. Len(bodies) \in k..Len(frames) /\ k \in 0..Len(frames) /\ Len(bodies) \in 0..Len(frames)
    BY <1>1
  <1>4. Begins(Joined(frames, k), Joined(frames, Len(bodies)), Cells)
    BY <1>1, <1>3, JoinedBegins
  <1>5. PICK rest \in Seq(Cells) : Joined(frames, Len(bodies)) = Joined(frames, k) \o rest
    BY <1>4 DEF Begins
  <1>6. Joined(frames, k) \in Seq(Cells)
    BY <1>1, <1>3, JoinedIsSeq
  <1>7. h \o Joined(frames, Len(bodies)) = (h \o Joined(frames, k)) \o rest
        /\ h \o Joined(frames, k) \in Seq(Cells)
    <2>. DEFINE J == Joined(frames, k)
    <2>1. J \in Seq(Cells) /\ h \in Seq(Cells) /\ Joined(frames, Len(bodies)) = J \o rest
      BY <1>1, <1>5, <1>6
    <2>. HIDE DEF J
    <2>2. h \o (J \o rest) = (h \o J) \o rest /\ h \o J \in Seq(Cells)
      <3>1. h \o (J \o rest) = (h \o J) \o rest
        BY <2>1, CellTriples, Zenon
      <3>2. h \o J \in Seq(Cells)
        BY <2>1, ConcatProperties
      <3>. QED
        BY <3>1, <3>2
    <2>. QED
      BY <2>1, <2>2 DEF J
  <1>8. Begins(h \o Joined(frames, k), h \o Joined(frames, Len(bodies)), Cells)
    BY <1>7 DEF Begins
  <1>9. h \o Joined(frames, Len(bodies)) \in Seq(Cells)
    BY <1>5, <1>6, <1>7, ConcatProperties
  <1>10. Begins(h \o Joined(frames, k), (h \o Joined(frames, Len(bodies))) \o last, Cells)
    BY <1>2, <1>7, <1>8, <1>9, BeginsFurther
  <1>. QED
    BY <1>2, <1>10 DEF Written, h, frames

-----------------------------------------------------------------------------
(* Headers and bodies as the encoders make them.                           *)

LEMMA HeadersAreCells ==
  ASSUME NEW size \in 1..MaxU32, NEW total \in 0..MaxU64, NEW hasMeta \in BOOLEAN, NEW base \in Nat
  PROVE  /\ HeaderCell(PlainHeader(size, total, hasMeta)) \in HeaderCells
         /\ HeaderCell(EncryptedHeader(size, total, hasMeta, base)) \in HeaderCells
  <1>. DEFINE n == (total + size - 1) \div size
  <1>1. size \in Nat \ {0} /\ size \in 0..MaxU32 /\ total \in Nat /\ MaxU64 \in Nat
    BY WidthAssumption
  <1>2. n \in 0..MaxU64
    <2>1. total + size - 1 \in Nat
      BY <1>1
    <2>2. n \in Nat /\ n * size <= total + size - 1
      BY <1>1, <2>1, DivisionBounds
    <2>3. CASE n > total
      <3>. DEFINE e == n - total - 1
                  m == size - 1
      <3>1. e \in Nat /\ n = total + 1 + e /\ m \in Nat /\ size = m + 1
        BY <1>1, <2>2, <2>3
      <3>. HIDE DEF n, e, m
      <3>2. n * size = n * m + n /\ n * m = (total + 1 + e) * m
        BY <1>1, <2>2, <3>1
      <3>3. (total + 1 + e) * m = total * m + m + e * m /\ total * m \in Nat /\ e * m \in Nat
        BY <1>1, <3>1
      <3>. QED
        BY <1>1, <2>2, <3>1, <3>2, <3>3
    <2>4. CASE ~(n > total)
      BY <1>1, <2>2, <2>4
    <2>. QED
      BY <2>3, <2>4
  <1>. HIDE DEF n
  <1>. DEFINE plain == PlainHeader(size, total, hasMeta)
  <1>3. plain = [version |-> 1, encrypted |-> FALSE, hasMetadata |-> hasMeta, reserved |-> FALSE,
                 hashAlgo |-> 0, aeadAlgo |-> 0, chunkSize |-> size,
                 chunkCount |-> n, totalSize |-> total, baseNonce |-> 0]
    BY DEF PlainHeader, HashSHA256, AEADNone, ZeroNonce, n
  <1>4. EncryptedHeader(size, total, hasMeta, base)
          = [plain EXCEPT !.encrypted = TRUE, !.hashAlgo = 1, !.aeadAlgo = 1, !.baseNonce = base]
    BY DEF EncryptedHeader, HashHMACSHA256, AEADAESGCM
  <1>5. plain \in Header
    <2>1. size \in 0..MaxU32 /\ total \in 0..MaxU64 /\ n \in 0..MaxU64 /\ hasMeta \in BOOLEAN
      BY <1>1, <1>2
    <2>. HIDE DEF plain
    <2>. QED
      BY <1>3, <2>1 DEF Header
  <1>. HIDE DEF plain
  <1>6. EncryptedHeader(size, total, hasMeta, base) \in Header
    <2>1. size \in 0..MaxU32 /\ total \in 0..MaxU64 /\ n \in 0..MaxU64 /\ hasMeta \in BOOLEAN
      BY <1>1, <1>2
    <2>2. EncryptedHeader(size, total, hasMeta, base)
            = [version |-> 1, encrypted |-> TRUE, hasMetadata |-> hasMeta, reserved |-> FALSE,
               hashAlgo |-> 1, aeadAlgo |-> 1, chunkSize |-> size,
               chunkCount |-> n, totalSize |-> total, baseNonce |-> base]
      BY <1>3, <1>4
    <2>. QED
      BY <2>1, <2>2 DEF Header
  <1>. QED
    BY <1>5, <1>6 DEF plain, HeaderCell, HeaderCells

SealedChunks(key, base, header, meta, chunks) ==
  [i \in DOMAIN chunks |-> sealChunk(key, base, header, meta, i - 1, chunks[i])]

LEMMA BodiesArePlain ==
  ASSUME NEW data \in Seq(NumCells), NEW size \in 1..MaxU32
  PROVE  /\ ChunksOf(data, size) \in Seq(Seq(BodyCells))
         /\ \A i \in 1..Len(ChunksOf(data, size)) : Len(ChunksOf(data, size)[i]) <= MaxU32
  <1>. DEFINE chunks == ChunksOf(data, size)
  <1>1. size \in Nat \ {0} /\ size <= MaxU32 /\ MaxU32 \in Nat
    BY WidthAssumption
  <1>2. /\ chunks \in Seq(Seq(NumCells))
        /\ \A i \in 1..Len(chunks) : Len(chunks[i]) \in 0..size
    <2>1. CutOf(chunks, data, size)
      BY <1>1, TextIsCut, Zenon
    <2>. QED
      BY <2>1, Zenon DEF CutOf
  <1>. HIDE DEF chunks
  <1>3. NumCells \subseteq BodyCells
    BY DEF BodyCells
  <1>4. ASSUME NEW i \in 1..Len(chunks)
        PROVE  chunks[i] \in Seq(BodyCells) /\ Len(chunks[i]) <= MaxU32
    <2>1. chunks[i] \in Seq(NumCells) /\ Len(chunks[i]) \in 0..size
      BY <1>2
    <2>2. chunks[i] \in Seq(BodyCells)
      BY <1>3, <2>1
    <2>. QED
      BY <1>1, <2>1, <2>2
  <1>5. chunks \in Seq(Seq(BodyCells))
    BY <1>2, <1>4, SeqInto
  <1>. QED
    BY <1>4, <1>5 DEF chunks

SealOf(body, plain) == body \in Seq(CtCells \cup TagCells) /\ Len(body) = Len(plain) + TagLen

LEMMA SealsAreSeqs ==
  \A key \in Seq(Nat), base \in Nat, header \in HeaderCells, digest \in Seq(NumCells),
     index \in Nat, plain \in Seq(NumCells) :
    SealOf(sealChunk(key, base, header, digest, index, plain), plain)
  BY SealedIsSeq DEF SealOf

LEMMA BodiesAreSealed ==
  ASSUME NEW data \in Seq(NumCells), NEW size \in 1..MaxU32 - TagLen,
         NEW key \in Seq(Nat), NEW base \in Nat, NEW header \in HeaderCells, NEW meta \in Seq(NumCells)
  PROVE  LET chunks == ChunksOf(data, size)
             sealed == SealedChunks(key, base, header, meta, chunks)
         IN  /\ sealed \in Seq(Seq(BodyCells)) /\ Len(sealed) = Len(chunks)
             /\ \A i \in 1..Len(sealed) :
                  /\ Len(sealed[i]) <= MaxU32
                  /\ sealed[i] = sealChunk(key, base, header, meta, i - 1, chunks[i])
  <1>. DEFINE chunks == ChunksOf(data, size)
              sealed == SealedChunks(key, base, header, meta, chunks)
              body(i) == sealChunk(key, base, header, meta, i - 1, chunks[i])
  <1>0. \A k \in Nat, plain \in Seq(NumCells) :
          SealOf(sealChunk(key, base, header, meta, k, plain), plain)
    BY SealsAreSeqs, Zenon
  <1>1. size \in Nat \ {0} /\ size + 1 <= MaxU32 /\ MaxU32 \in Nat
    BY WidthAssumption DEF TagLen
  <1>2. /\ chunks \in Seq(Seq(NumCells))
        /\ \A i \in 1..Len(chunks) : Len(chunks[i]) \in 0..size
    <2>1. CutOf(chunks, data, size)
      BY <1>1, TextIsCut, Zenon
    <2>. QED
      BY <2>1, Zenon DEF CutOf
  <1>. HIDE DEF chunks
  <1>3. ASSUME NEW i \in 1..Len(chunks)
        PROVE  body(i) \in Seq(BodyCells) /\ Len(body(i)) <= MaxU32
    <2>1. chunks[i] \in Seq(NumCells) /\ Len(chunks[i]) \in 0..size /\ i - 1 \in Nat
      BY <1>2
    <2>. DEFINE k == i - 1
                plain == chunks[i]
    <2>2. k \in Nat /\ plain \in Seq(NumCells)
      BY <2>1
    <2>. HIDE DEF k, plain
    <2>3. SealOf(sealChunk(key, base, header, meta, k, plain), plain)
      BY <1>0, <2>2, Zenon
    <2>4. body(i) \in Seq(CtCells \cup TagCells) /\ Len(body(i)) = Len(chunks[i]) + 1
      BY <2>3 DEF SealOf, k, plain, TagLen
    <2>. HIDE DEF body
    <2>5. CtCells \cup TagCells \subseteq BodyCells
      BY DEF BodyCells
    <2>6. body(i) \in Seq(BodyCells)
      <3>. DEFINE x == body(i)
                  small == CtCells \cup TagCells
      <3>1. x \in Seq(small) /\ small \subseteq BodyCells
        BY <2>4, <2>5
      <3>. HIDE DEF x, small
      <3>2. x \in Seq(BodyCells)
        BY <3>1
      <3>. QED
        BY <3>2 DEF x
    <2>. QED
      BY <1>1, <2>1, <2>4, <2>6
  <1>4. DOMAIN chunks = 1..Len(chunks) /\ Len(chunks) \in Nat
    BY <1>2
  <1>5. sealed = [i \in 1..Len(chunks) |-> body(i)]
    BY <1>4 DEF SealedChunks
  <1>. HIDE DEF body, sealed
  <1>6. sealed \in Seq(Seq(BodyCells)) /\ Len(sealed) = Len(chunks)
        /\ \A i \in 1..Len(sealed) : sealed[i] = body(i)
    BY <1>3, <1>4, <1>5
  <1>. QED
    BY <1>3, <1>6 DEF body, sealed, chunks

(* The bodies of n chunks, each short enough for its u32 length.           *)
Fitting(bodies, n) ==
  /\ bodies \in Seq(Seq(BodyCells)) /\ Len(bodies) = n
  /\ \A i \in 1..Len(bodies) : Len(bodies[i]) <= MaxU32

(* The sealed chunks of any data are such bodies, for every legal size.    *)
LEMMA SealedFits ==
  \A data \in Seq(NumCells), size \in 1..MaxU32 - TagLen, key \in Seq(Nat), base \in Nat,
     header \in HeaderCells, meta \in Seq(NumCells) :
    Fitting(SealedChunks(key, base, header, meta, ChunksOf(data, size)), Len(ChunksOf(data, size)))
  <1>. SUFFICES ASSUME NEW data \in Seq(NumCells), NEW size \in 1..MaxU32 - TagLen,
                       NEW key \in Seq(Nat), NEW base \in Nat,
                       NEW header \in HeaderCells, NEW meta \in Seq(NumCells)
                PROVE  Fitting(SealedChunks(key, base, header, meta, ChunksOf(data, size)),
                               Len(ChunksOf(data, size)))
    OBVIOUS
  <1>. DEFINE chunks == ChunksOf(data, size)
              sealed == SealedChunks(key, base, header, meta, chunks)
  <1>1. /\ sealed \in Seq(Seq(BodyCells)) /\ Len(sealed) = Len(chunks)
        /\ \A i \in 1..Len(sealed) : /\ Len(sealed[i]) <= MaxU32
                                      /\ sealed[i] = sealChunk(key, base, header, meta, i - 1, chunks[i])
    BY BodiesAreSealed, Zenon
  <1>. QED
    BY <1>1, Zenon DEF Fitting

-----------------------------------------------------------------------------
(* The chunk loop of the one-shot decoder.                                 *)

Turns(f, container, key, caps) ==
  f = [i \in Nat |-> IF i = 0 THEN Start(container)
                     ELSE Turn(container, key, caps, f[i - 1], i - 1)]

(* What the loop has after i chunks.                                       *)
AfterTurns(container, key, caps, i) == (CHOOSE f : Turns(f, container, key, caps))[i]

LEMMA WalkIsAfterTurns ==
  ASSUME NEW container, NEW key, NEW caps
  PROVE  Walk(container, key, caps) = AfterTurns(container, key, caps, container[1].h.chunkCount)
  BY DEF Walk, AfterTurns, Turns

(* The first n turns alone.                                                *)
TurnsTo(f, n, container, key, caps) ==
  f = [i \in 0..n |-> IF i = 0 THEN Start(container)
                      ELSE Turn(container, key, caps, f[i - 1], i - 1)]

LEMMA TurnsToValues ==
  ASSUME NEW container, NEW key, NEW caps, NEW n \in Nat, NEW f, TurnsTo(f, n, container, key, caps)
  PROVE  /\ f[0] = Start(container)
         /\ \A i \in 1..n : f[i] = Turn(container, key, caps, f[i - 1], i - 1)
  <1>1. f = [i \in 0..n |-> IF i = 0 THEN Start(container)
                            ELSE Turn(container, key, caps, f[i - 1], i - 1)]
    BY DEF TurnsTo
  <1>2. \A i \in 0..n : f[i] = IF i = 0 THEN Start(container)
                               ELSE Turn(container, key, caps, f[i - 1], i - 1)
    BY <1>1, Zenon
  <1>. QED
    BY <1>2

LEMMA TurnsToAgree ==
  ASSUME NEW container, NEW key, NEW caps, NEW m \in Nat, NEW n \in Nat,
         NEW f, TurnsTo(f, m, container, key, caps),
         NEW g, TurnsTo(g, n, container, key, caps),
         NEW k \in 0..m, k <= n
  PROVE  f[k] = g[k]
  <1>0. f[0] = Start(container) /\ g[0] = Start(container)
    <2>1. \A p \in Nat : \A h : TurnsTo(h, p, container, key, caps) => h[0] = Start(container)
      BY TurnsToValues
    <2>. QED
      BY <2>1
  <1>. DEFINE T == {i \in 0..k : f[i] # g[i]}
  <1>1. T = {}
    <2>. SUFFICES ASSUME T # {}
                  PROVE  FALSE
      OBVIOUS
    <2>1. PICK x \in T : \A y \in T : x <= y
      <3>1. T \in SUBSET Nat
        OBVIOUS
      <3>. QED
        BY <3>1, LeastOf
    <2>2. CASE x = 0
      BY <1>0, <2>2
    <2>3. CASE x # 0
      <3>1. x - 1 \in 0..k /\ x - 1 \notin T /\ x \in 1..m /\ x \in 1..n
        BY <2>1, <2>3
      <3>2. f[x - 1] = g[x - 1]
        BY <3>1
      <3>3. /\ f[x] = Turn(container, key, caps, f[x - 1], x - 1)
            /\ g[x] = Turn(container, key, caps, g[x - 1], x - 1)
        BY <3>1, TurnsToValues
      <3>. QED
        BY <3>2, <3>3
    <2>. QED
      BY <2>2, <2>3
  <1>. QED
    BY <1>1

LEMMA TurnsToExist ==
  ASSUME NEW container, NEW key, NEW caps, NEW n \in Nat
  PROVE  \E f : TurnsTo(f, n, container, key, caps)
  <1>. DEFINE T == {k \in Nat : ~\E f : TurnsTo(f, k, container, key, caps)}
  <1>1. T = {}
    <2>. SUFFICES ASSUME T # {}
                  PROVE  FALSE
      OBVIOUS
    <2>1. PICK x \in T : \A y \in T : x <= y
      <3>1. T \in SUBSET Nat
        OBVIOUS
      <3>. QED
        BY <3>1, LeastOf
    <2>2. CASE x = 0
      <3>. DEFINE g == [i \in 0..0 |-> Start(container)]
      <3>1. TurnsTo(g, 0, container, key, caps)
        BY DEF TurnsTo
      <3>. QED
        BY <2>2, <3>1
    <2>3. CASE x # 0
      <3>1. x \in Nat /\ x - 1 \in Nat /\ x - 1 \notin T
        BY <2>1, <2>3
      <3>2. PICK f : TurnsTo(f, x - 1, container, key, caps)
        BY <3>1
      <3>. DEFINE g == [i \in 0..x |-> IF i < x THEN f[i]
                                       ELSE Turn(container, key, caps, f[i - 1], i - 1)]
      <3>3. /\ f[0] = Start(container)
            /\ \A i \in 1..x - 1 : f[i] = Turn(container, key, caps, f[i - 1], i - 1)
        BY <3>1, <3>2, TurnsToValues
      <3>4. ASSUME NEW i \in 0..x
            PROVE  g[i] = IF i = 0 THEN Start(container)
                          ELSE Turn(container, key, caps, g[i - 1], i - 1)
        <4>1. CASE i = 0
          BY <2>3, <3>1, <3>3, <4>1
        <4>2. CASE i # 0
          <5>1. i - 1 \in 0..x /\ i - 1 < x /\ g[i - 1] = f[i - 1]
            BY <3>1, <4>2
          <5>2. g[i] = Turn(container, key, caps, f[i - 1], i - 1)
            <6>1. CASE i < x
              <7>1. i \in 1..x - 1 /\ g[i] = f[i]
                BY <3>1, <4>2, <6>1
              <7>. QED
                BY <3>3, <7>1
            <6>2. CASE ~(i < x)
              BY <6>2
            <6>. QED
              BY <6>1, <6>2
          <5>. HIDE DEF g
          <5>. QED
            BY <4>2, <5>1, <5>2
        <4>. QED
          BY <4>1, <4>2
      <3>5. g = [i \in 0..x |-> g[i]]
        OBVIOUS
      <3>. HIDE DEF g
      <3>6. TurnsTo(g, x, container, key, caps)
        <4>1. g = [i \in 0..x |-> IF i = 0 THEN Start(container)
                                  ELSE Turn(container, key, caps, g[i - 1], i - 1)]
          BY <3>4, <3>5
        <4>. QED
          BY <4>1 DEF TurnsTo
      <3>. QED
        BY <3>6
    <2>. QED
      BY <2>2, <2>3
  <1>. QED
    BY <1>1

LEMMA TurnsExist ==
  ASSUME NEW container, NEW key, NEW caps
  PROVE  \E f : Turns(f, container, key, caps)
  <1>. DEFINE part(n) == CHOOSE f : TurnsTo(f, n, container, key, caps)
              g == [i \in Nat |-> part(i)[i]]
  <1>1. ASSUME NEW n \in Nat PROVE TurnsTo(part(n), n, container, key, caps)
    BY TurnsToExist, Zenon
  <1>. HIDE DEF part
  <1>2. ASSUME NEW i \in Nat
        PROVE  g[i] = IF i = 0 THEN Start(container)
                      ELSE Turn(container, key, caps, g[i - 1], i - 1)
    <2>1. CASE i = 0
      <3>1. part(0)[0] = Start(container)
        BY <1>1, TurnsToValues
      <3>. QED
        BY <2>1, <3>1
    <2>2. CASE i # 0
      <3>1. i - 1 \in Nat /\ i \in 1..i /\ i - 1 \in 0..i /\ i - 1 <= i - 1
        BY <2>2
      <3>2. TurnsTo(part(i), i, container, key, caps)
            /\ TurnsTo(part(i - 1), i - 1, container, key, caps)
        BY <1>1, <3>1
      <3>3. part(i)[i] = Turn(container, key, caps, part(i)[i - 1], i - 1)
        BY <3>1, <3>2, TurnsToValues
      <3>4. part(i)[i - 1] = part(i - 1)[i - 1]
        BY <3>1, <3>2, TurnsToAgree
      <3>5. g[i] = part(i)[i] /\ g[i - 1] = part(i - 1)[i - 1]
        BY <3>1
      <3>. HIDE DEF g
      <3>. QED
        BY <2>2, <3>3, <3>4, <3>5
    <2>. QED
      BY <2>1, <2>2
  <1>3. g = [i \in Nat |-> g[i]]
    OBVIOUS
  <1>. HIDE DEF g
  <1>4. Turns(g, container, key, caps)
    <2>1. g = [i \in Nat |-> IF i = 0 THEN Start(container)
                             ELSE Turn(container, key, caps, g[i - 1], i - 1)]
      BY <1>2, <1>3
    <2>. QED
      BY <2>1 DEF Turns
  <1>. QED
    BY <1>4

LEMMA AfterTurnsValues ==
  ASSUME NEW container, NEW key, NEW caps
  PROVE  /\ AfterTurns(container, key, caps, 0) = Start(container)
         /\ \A i \in Nat : AfterTurns(container, key, caps, i + 1)
                             = Turn(container, key, caps, AfterTurns(container, key, caps, i), i)
  <1>. DEFINE f == CHOOSE f : Turns(f, container, key, caps)
  <1>1. Turns(f, container, key, caps)
    BY TurnsExist, Zenon
  <1>2. \A i : AfterTurns(container, key, caps, i) = f[i]
    BY DEF AfterTurns
  <1>. HIDE DEF f
  <1>3. f = [i \in Nat |-> IF i = 0 THEN Start(container)
                           ELSE Turn(container, key, caps, f[i - 1], i - 1)]
    BY <1>1 DEF Turns
  <1>4. \A i \in Nat : f[i] = IF i = 0 THEN Start(container)
                              ELSE Turn(container, key, caps, f[i - 1], i - 1)
    BY <1>3, Zenon
  <1>5. f[0] = Start(container)
    BY <1>4
  <1>6. ASSUME NEW i \in Nat
        PROVE  f[i + 1] = Turn(container, key, caps, f[i], i)
    <2>1. i + 1 \in Nat /\ i + 1 # 0 /\ (i + 1) - 1 = i
      OBVIOUS
    <2>2. f[i + 1] = Turn(container, key, caps, f[(i + 1) - 1], (i + 1) - 1)
      BY <1>4, <2>1
    <2>. QED
      BY <2>1, <2>2
  <1>. QED
    BY <1>2, <1>5, <1>6

(* An error ends the loop: the turns after it change nothing.              *)
LEMMA ErrorsStay ==
  ASSUME NEW container, NEW key, NEW caps, NEW i \in Nat,
         AfterTurns(container, key, caps, i).err # NoError, NEW j \in Nat, i <= j
  PROVE  AfterTurns(container, key, caps, j) = AfterTurns(container, key, caps, i)
  <1>. DEFINE s(n) == AfterTurns(container, key, caps, n)
              T == {n \in Nat : i <= n /\ s(n) # s(i)}
  <1>1. \A n \in Nat : s(n + 1) = Turn(container, key, caps, s(n), n)
    BY AfterTurnsValues
  <1>2. s(i).err # NoError
    OBVIOUS
  <1>. HIDE DEF s
  <1>3. T = {}
    <2>. SUFFICES ASSUME T # {}
                  PROVE  FALSE
      OBVIOUS
    <2>1. PICK x \in T : \A y \in T : x <= y
      <3>1. T \in SUBSET Nat
        OBVIOUS
      <3>. QED
        BY <3>1, LeastOf
    <2>2. x # i /\ x \in Nat /\ i <= x
      BY <2>1
    <2>3. x - 1 \in Nat /\ i <= x - 1 /\ x - 1 \notin T /\ (x - 1) + 1 = x
      BY <2>1, <2>2
    <2>4. s(x - 1) = s(i)
      BY <2>3
    <2>5. s(x) = Turn(container, key, caps, s(x - 1), x - 1)
      BY <1>1, <2>3
    <2>6. Turn(container, key, caps, s(x - 1), x - 1) = s(x - 1)
      BY <1>2, <2>4 DEF Turn
    <2>. QED
      BY <2>1, <2>4, <2>5, <2>6
  <1>. QED
    BY <1>3 DEF s

TurnShape(container, s) ==
  /\ s = [err |-> s.err, offset |-> s.offset, plain |-> s.plain, leaves |-> s.leaves,
          inBody |-> s.inBody]
  /\ s.offset \in 0..Len(container) /\ s.plain \in Seq(Cells)
  /\ s.leaves \in Seq([t : {"leaf"}, body : Seq(Cells)])

(* The chunk that a turn takes at `offset`, and what is read of it.        *)
TurnBody(container, offset) ==
  SubSeq(container, offset + 2, offset + 1 + U32(container[offset + 1]))

TurnOpened(container, offset) ==
  IF container[1].h.encrypted THEN openChunk(TurnBody(container, offset))
  ELSE TurnBody(container, offset)

(* A turn that finds nothing wrong with its chunk.                         *)
TakesChunk(container, key, caps, index, s) ==
  LET clen   == U32(container[s.offset + 1])
      body   == TurnBody(container, s.offset)
      opened == TurnOpened(container, s.offset)
  IN  /\ clen \in Nat /\ s.offset + 1 + clen \in 0..Len(container)
      /\ body \in Seq(Cells) /\ Len(body) = clen /\ opened \in Seq(Cells)
      /\ Turn(container, key, caps, s, index)
           = [err |-> NoError, offset |-> s.offset + 1 + clen, plain |-> s.plain \o opened,
              leaves |-> Append(s.leaves, Leaf(body)), inBody |-> s.inBody]

LEMMA GoodTurn ==
  ASSUME NEW container \in Seq(Cells), NEW key, NEW caps, NEW index,
         NEW s, TurnShape(container, s), s.err = NoError,
         ChunkError(container, key, caps, index, s.offset, Len(s.plain)) = NoError
  PROVE  TakesChunk(container, key, caps, index, s)
  <1>. DEFINE o == s.offset
              got == Len(s.plain)
              clen == U32(container[o + 1])
              body == TurnBody(container, o)
              opened == TurnOpened(container, o)
  <1>0. o \in 0..Len(container) /\ ChunkError(container, key, caps, index, o, got) = NoError
    BY DEF TurnShape
  <1>1. Turn(container, key, caps, s, index)
          = [err |-> NoError, offset |-> o + 1 + Len(body), plain |-> s.plain \o opened,
             leaves |-> Append(s.leaves, Leaf(body)), inBody |-> s.inBody]
    BY DEF Turn, TurnShape, TurnBody, TurnOpened
  <1>. HIDE DEF o, got
  <1>2. ~(Len(container) - o < 1) /\ ~(clen > Len(container) - o - 1)
    BY <1>0 DEF ChunkError, Truncated, NoError
  <1>3. Len(container) \in Nat /\ o \in Nat /\ o + 1 \in 1..Len(container)
    BY <1>0, <1>2
  <1>4. container[o + 1] \in Cells
    BY <1>3
  <1>5. clen \in Nat
    BY <1>4, CellFacts
  <1>. HIDE DEF clen
  <1>6. /\ o + 1 + clen \in 0..Len(container)
        /\ o + 2 \in Nat /\ o + 1 + clen \in Nat /\ o + 2 >= 1 /\ o + 1 + clen <= Len(container)
        /\ (IF o + 2 <= o + 1 + clen THEN (o + 1 + clen) - (o + 2) + 1 ELSE 0) = clen
    BY <1>2, <1>3, <1>5
  <1>7. body = SubSeq(container, o + 2, o + 1 + clen)
    BY DEF TurnBody, clen
  <1>8. body \in Seq(Cells) /\ Len(body) = clen
    BY <1>6, <1>7, PartOf
  <1>9. opened \in Seq(Cells)
    <2>1. container[1].h.encrypted
            => Opens(key, container[1].h.baseNonce, container[1], RegionOf(container), index, body)
      BY <1>0 DEF ChunkError, Truncated, ChunkAuth, NoError, TurnBody
    <2>. HIDE DEF body
    <2>2. container[1].h.encrypted => Len(body) >= TagLen
      BY <2>1 DEF Opens
    <2>3. opened = IF container[1].h.encrypted THEN openChunk(body) ELSE body
      BY DEF TurnOpened, body
    <2>. QED
      BY <1>8, <2>2, <2>3, OpenedChunk
  <1>. QED
    BY <1>1, <1>5, <1>6, <1>8, <1>9 DEF o, clen, TakesChunk

(* A turn keeps the plaintext before it.                                   *)
LEMMA TurnKeeps ==
  ASSUME NEW container \in Seq(Cells), NEW key, NEW caps, NEW index, NEW s, TurnShape(container, s)
  PROVE  /\ TurnShape(container, Turn(container, key, caps, s, index))
         /\ Begins(s.plain, Turn(container, key, caps, s, index).plain, Cells)
  <1>. DEFINE err == ChunkError(container, key, caps, index, s.offset, Len(s.plain))
  <1>1. Begins(s.plain, s.plain, Cells)
    BY BeginsItself DEF TurnShape
  <1>2. CASE s.err # NoError
    <2>1. Turn(container, key, caps, s, index) = s
      BY <1>2 DEF Turn
    <2>. QED
      BY <1>1, <2>1
  <1>3. CASE s.err = NoError /\ err # NoError
    <2>1. Turn(container, key, caps, s, index)
            = [s EXCEPT !.err = err, !.inBody = CutInBody(container, caps, s.offset)]
      BY <1>3 DEF Turn
    <2>. QED
      BY <1>1, <2>1 DEF TurnShape
  <1>4. CASE s.err = NoError /\ err = NoError
    <2>. DEFINE result == Turn(container, key, caps, s, index)
                body == TurnBody(container, s.offset)
                opened == TurnOpened(container, s.offset)
                end == s.offset + 1 + U32(container[s.offset + 1])
    <2>1. /\ s.err = NoError
          /\ ChunkError(container, key, caps, index, s.offset, Len(s.plain)) = NoError
      BY <1>4
    <2>2. /\ end \in 0..Len(container) /\ opened \in Seq(Cells) /\ body \in Seq(Cells)
          /\ result = [err |-> NoError, offset |-> end, plain |-> s.plain \o opened,
                       leaves |-> Append(s.leaves, Leaf(body)), inBody |-> s.inBody]
      <3>1. TakesChunk(container, key, caps, index, s)
        BY <2>1, GoodTurn, Zenon
      <3>. QED
        BY <3>1 DEF TakesChunk
    <2>. HIDE DEF result, end, opened, body
    <2>3. s.plain \in Seq(Cells) /\ s.plain \o opened \in Seq(Cells)
      BY <2>2, ConcatProperties DEF TurnShape
    <2>4. Append(s.leaves, Leaf(body)) \in Seq([t : {"leaf"}, body : Seq(Cells)])
      <3>1. Leaf(body) \in [t : {"leaf"}, body : Seq(Cells)]
        BY <2>2 DEF Leaf
      <3>. QED
        BY <3>1, AppendProperties DEF TurnShape
    <2>5. /\ result.offset = end /\ result.plain = s.plain \o opened
          /\ result.leaves = Append(s.leaves, Leaf(body))
          /\ result = [err |-> result.err, offset |-> result.offset, plain |-> result.plain,
                       leaves |-> result.leaves, inBody |-> result.inBody]
      BY <2>2
    <2>6. TurnShape(container, result) /\ Begins(s.plain, result.plain, Cells)
      BY <2>2, <2>3, <2>4, <2>5, Zenon DEF TurnShape, Begins
    <2>. QED
      BY <2>6 DEF result
  <1>. QED
    BY <1>2, <1>3, <1>4

LEMMA TurnsShaped ==
  ASSUME NEW container \in Seq(Cells), MetaEnd(container) \in 0..Len(container),
         NEW key, NEW caps, NEW i \in Nat
  PROVE  TurnShape(container, AfterTurns(container, key, caps, i))
  <1>. DEFINE s(n) == AfterTurns(container, key, caps, n)
              T == {n \in Nat : ~TurnShape(container, s(n))}
  <1>1. s(0) = Start(container) /\ \A n \in Nat : s(n + 1) = Turn(container, key, caps, s(n), n)
    BY AfterTurnsValues
  <1>. HIDE DEF s
  <1>2. T = {}
    <2>. SUFFICES ASSUME T # {}
                  PROVE  FALSE
      OBVIOUS
    <2>1. PICK x \in T : \A y \in T : x <= y
      <3>1. T \in SUBSET Nat
        OBVIOUS
      <3>. QED
        BY <3>1, LeastOf
    <2>2. x # 0
      <3>1. TurnShape(container, Start(container))
        BY EmptySeq DEF Start, TurnShape
      <3>. QED
        BY <1>1, <2>1, <3>1
    <2>3. x \in Nat /\ x - 1 \in Nat /\ x - 1 \notin T /\ (x - 1) + 1 = x
      BY <2>1, <2>2
    <2>4. TurnShape(container, s(x - 1)) /\ s(x) = Turn(container, key, caps, s(x - 1), x - 1)
      BY <1>1, <2>3
    <2>. QED
      BY <2>1, <2>4, TurnKeeps
  <1>. QED
    BY <1>2 DEF s

(* So the plaintext of the loop begins with what it had after any chunk.   *)
LEMMA TurnsBegin ==
  ASSUME NEW container \in Seq(Cells), MetaEnd(container) \in 0..Len(container),
         NEW key, NEW caps, NEW i \in Nat, NEW j \in Nat, i <= j
  PROVE  Begins(AfterTurns(container, key, caps, i).plain,
                AfterTurns(container, key, caps, j).plain, Cells)
  <1>. DEFINE s(n) == AfterTurns(container, key, caps, n)
              T == {n \in Nat : i <= n /\ ~Begins(s(i).plain, s(n).plain, Cells)}
  <1>1. \A n \in Nat : TurnShape(container, s(n)) /\ s(n + 1) = Turn(container, key, caps, s(n), n)
    BY AfterTurnsValues, TurnsShaped
  <1>. HIDE DEF s
  <1>2. T = {}
    <2>. SUFFICES ASSUME T # {}
                  PROVE  FALSE
      OBVIOUS
    <2>1. PICK x \in T : \A y \in T : x <= y
      <3>1. T \in SUBSET Nat
        OBVIOUS
      <3>. QED
        BY <3>1, LeastOf
    <2>2. Begins(s(i).plain, s(i).plain, Cells)
      BY <1>1, BeginsItself DEF TurnShape
    <2>3. x \in Nat /\ i <= x /\ x # i
      BY <2>1, <2>2
    <2>4. x - 1 \in Nat /\ i <= x - 1 /\ x - 1 \notin T /\ (x - 1) + 1 = x
      BY <2>1, <2>3
    <2>5. PICK a \in Seq(Cells) : s(x - 1).plain = s(i).plain \o a
      BY <2>4 DEF Begins
    <2>6. Begins(s(x - 1).plain, s(x).plain, Cells)
      <3>1. s(x) = Turn(container, key, caps, s(x - 1), x - 1) /\ TurnShape(container, s(x - 1))
        BY <1>1, <2>4
      <3>. QED
        BY <3>1, TurnKeeps
    <2>7. s(i).plain \in Seq(Cells)
      BY <1>1 DEF TurnShape
    <2>8. Begins(s(i).plain, s(x).plain, Cells)
      BY <2>5, <2>6, <2>7, BeginsShorter
    <2>. QED
      BY <2>1, <2>8
  <1>. QED
    BY <1>2 DEF s

(* What decodeBytes makes of a container whose prefix is legal, and of one *)
(* whose prefix is not.                                                    *)
LEMMA DecodedChunks ==
  ASSUME NEW container, NEW key, NEW caps, PreambleError(container, key, caps) = NoError
  PROVE  LET s == Walk(container, key, caps)
             d == decodeBytes(container, key, caps)
         IN  /\ d.err = IF s.err # NoError THEN s.err ELSE EndError(container, key, s)
             /\ d.plain = s.plain /\ d.inBody = s.inBody
  BY DEF decodeBytes, Result

LEMMA DecodedPrefix ==
  ASSUME NEW container, NEW key, NEW caps, PreambleError(container, key, caps) # NoError
  PROVE  LET d == decodeBytes(container, key, caps)
         IN  d.err = PreambleError(container, key, caps) /\ d.plain = <<>> /\ d.inBody = FALSE
  BY DEF decodeBytes, Result

(* The loop at its i-th chunk: what it has by then is the beginning of     *)
(* what decodeBytes returns; ...                                           *)
LEMMA LoopBegins ==
  ASSUME NEW container \in Seq(Cells), NEW key, NEW caps,
         PreambleError(container, key, caps) = NoError, MetaEnd(container) \in 0..Len(container),
         container[1].h.chunkCount \in Nat, NEW i \in 0..container[1].h.chunkCount
  PROVE  /\ TurnShape(container, AfterTurns(container, key, caps, i))
         /\ Begins(AfterTurns(container, key, caps, i).plain,
                   decodeBytes(container, key, caps).plain, Cells)
         /\ decodeBytes(container, key, caps).plain \in Seq(Cells)
  <1>. DEFINE n == container[1].h.chunkCount
              last == AfterTurns(container, key, caps, n)
  <1>1. decodeBytes(container, key, caps).plain = last.plain
    BY WalkIsAfterTurns, DecodedChunks
  <1>2. n \in Nat /\ i \in Nat /\ i <= n
    OBVIOUS
  <1>3. Begins(AfterTurns(container, key, caps, i).plain, last.plain, Cells)
    BY <1>2, TurnsBegin
  <1>4. TurnShape(container, AfterTurns(container, key, caps, i)) /\ TurnShape(container, last)
    BY <1>2, TurnsShaped
  <1>. HIDE DEF last
  <1>. QED
    BY <1>1, <1>3, <1>4 DEF TurnShape

(* ... a chunk that it refuses is the end of it; ...                       *)
LEMMA LoopStops ==
  ASSUME NEW container \in Seq(Cells), NEW key, NEW caps,
         PreambleError(container, key, caps) = NoError, MetaEnd(container) \in 0..Len(container),
         container[1].h.chunkCount \in Nat, NEW i \in Nat, i < container[1].h.chunkCount,
         NEW s, s = AfterTurns(container, key, caps, i), s.err = NoError,
         NEW err, err = ChunkError(container, key, caps, i, s.offset, Len(s.plain)), err # NoError
  PROVE  /\ decodeBytes(container, key, caps).err = err
         /\ decodeBytes(container, key, caps).inBody = CutInBody(container, caps, s.offset)
  <1>. DEFINE n == container[1].h.chunkCount
              next == AfterTurns(container, key, caps, i + 1)
              last == AfterTurns(container, key, caps, n)
  <1>1. next = Turn(container, key, caps, s, i) /\ TurnShape(container, s)
    BY AfterTurnsValues, TurnsShaped
  <1>2. next = [s EXCEPT !.err = err, !.inBody = CutInBody(container, caps, s.offset)]
    BY <1>1 DEF Turn
  <1>3. next.err = err /\ next.inBody = CutInBody(container, caps, s.offset)
    BY <1>1, <1>2 DEF TurnShape
  <1>4. i + 1 \in Nat /\ n \in Nat /\ i + 1 <= n
    OBVIOUS
  <1>5. last = next
    BY <1>3, <1>4, ErrorsStay
  <1>6. Walk(container, key, caps) = last
    BY WalkIsAfterTurns
  <1>. HIDE DEF last, next
  <1>. QED
    BY <1>3, <1>5, <1>6, DecodedChunks

(* ... and after the last one, the footer decides.                         *)
LEMMA LoopEnds ==
  ASSUME NEW container, NEW key, NEW caps, PreambleError(container, key, caps) = NoError,
         NEW s, s = AfterTurns(container, key, caps, container[1].h.chunkCount), s.err = NoError
  PROVE  /\ decodeBytes(container, key, caps).err = EndError(container, key, s)
         /\ decodeBytes(container, key, caps).plain = s.plain
  BY WalkIsAfterTurns, DecodedChunks

LEMMA BeginsIsPart ==
  ASSUME NEW S, NEW s \in Seq(S), NEW t \in Seq(S), Begins(s, t, S)
  PROVE  Len(s) <= Len(t) /\ Len(s) \in Nat /\ Len(t) \in Nat /\ s = SubSeq(t, 1, Len(s))
  <1>1. PICK rest \in Seq(S) : t = s \o rest
    BY DEF Begins
  <1>2. /\ Len(t) = Len(s) + Len(rest) /\ Len(s) \in Nat /\ Len(rest) \in Nat
        /\ \A i \in 1..Len(s) + Len(rest) : t[i] = IF i <= Len(s) THEN s[i] ELSE rest[i - Len(s)]
    BY <1>1, ConcatProperties, LenProperties
  <1>3. Len(s) <= Len(t) /\ Len(t) \in Nat
    BY <1>2
  <1>. DEFINE part == SubSeq(t, 1, Len(s))
  <1>4. /\ part \in Seq(S) /\ Len(part) = (IF 1 <= Len(s) THEN Len(s) - 1 + 1 ELSE 0)
        /\ \A i \in 1..Len(s) - 1 + 1 : part[i] = t[1 + i - 1]
    BY <1>2, <1>3, PartOf
  <1>. HIDE DEF part
  <1>5. Len(part) = Len(s)
    BY <1>2, <1>4
  <1>6. ASSUME NEW i \in 1..Len(s) PROVE s[i] = part[i]
    <2>1. i \in 1..Len(s) - 1 + 1 /\ 1 + i - 1 = i /\ i \in 1..Len(s) + Len(rest) /\ i <= Len(s)
      BY <1>2
    <2>. QED
      BY <1>2, <1>4, <2>1
  <1>7. s = part
    BY <1>4, <1>5, <1>6, SeqsAreEqual
  <1>. QED
    BY <1>2, <1>3, <1>7 DEF part

-----------------------------------------------------------------------------
(* Flattening sequences of pieces.                                         *)

LEMMA FlattenPair ==
  ASSUME NEW S, NEW a \in Seq(S), NEW b \in Seq(S)
  PROVE  FlattenSeq(<<a, b>>) = a \o b
  <1>. DEFINE none == <<>>
              one == <<a>>
              two == <<a, b>>
  <1>1. none \in Seq(Seq(S)) /\ one \in Seq(Seq(S)) /\ two \in Seq(Seq(S))
        /\ Len(none) = 0 /\ Len(one) = 1 /\ Len(two) = 2
        /\ one[1] = a /\ two[1] = a /\ two[2] = b
    OBVIOUS
  <1>. HIDE DEF none, one, two
  <1>2. FlattenSeq(one) = FlattenSeq(none) \o a
    <2>1. Len(one) = Len(none) + 1 /\ \A i \in 1..Len(none) : one[i] = none[i]
      BY <1>1
    <2>2. FlattenSeq(one) = FlattenSeq(none) \o one[Len(one)]
      BY <1>1, <2>1, FlattenOneMore
    <2>. QED
      BY <1>1, <2>2
  <1>3. FlattenSeq(two) = FlattenSeq(one) \o b
    <2>1. Len(two) = Len(one) + 1 /\ \A i \in 1..Len(one) : two[i] = one[i]
      BY <1>1
    <2>2. FlattenSeq(two) = FlattenSeq(one) \o two[Len(two)]
      BY <1>1, <2>1, FlattenOneMore
    <2>. QED
      BY <1>1, <2>2
  <1>4. FlattenSeq(none) = <<>>
    BY <1>1, FlattenNothing DEF none
  <1>5. <<>> \o a = a
    BY ConcatEmptySeq
  <1>. QED
    BY <1>2, <1>3, <1>4, <1>5 DEF two

LEMMA FlattenConcat ==
  ASSUME NEW S, NEW s \in Seq(Seq(S)), NEW t \in Seq(Seq(S))
  PROVE  FlattenSeq(s \o t) = FlattenSeq(s) \o FlattenSeq(t)
  <1>0. \A u, v, w \in Seq(S) : u \o (v \o w) = (u \o v) \o w
    BY ConcatTriples
  <1>. DEFINE whole(k) == s \o Upto(t, k)
              T == {k \in 0..Len(t) : FlattenSeq(whole(k)) # FlattenSeq(s) \o Joined(t, k)}
  <1>1. ASSUME NEW k \in 0..Len(t)
        PROVE  /\ whole(k) \in Seq(Seq(S)) /\ Len(whole(k)) = Len(s) + k
               /\ \A i \in 1..Len(s) + k : whole(k)[i] = IF i <= Len(s) THEN s[i] ELSE t[i - Len(s)]
    <2>1. Upto(t, k) \in Seq(Seq(S)) /\ Len(Upto(t, k)) = k /\ \A i \in 1..k : Upto(t, k)[i] = t[i]
      BY UptoIsSeq
    <2>. DEFINE part == Upto(t, k)
    <2>. HIDE DEF part
    <2>2. part \in Seq(Seq(S)) /\ Len(part) = k /\ \A i \in 1..k : part[i] = t[i]
      BY <2>1 DEF part
    <2>3. /\ s \o part \in Seq(Seq(S)) /\ Len(s \o part) = Len(s) + k
          /\ \A i \in 1..Len(s) + Len(part) :
               (s \o part)[i] = IF i <= Len(s) THEN s[i] ELSE part[i - Len(s)]
      BY <2>2, ConcatProperties
    <2>4. ASSUME NEW i \in 1..Len(s) + k
          PROVE  (s \o part)[i] = IF i <= Len(s) THEN s[i] ELSE t[i - Len(s)]
      <3>1. Len(s) \in Nat /\ k \in Nat
        OBVIOUS
      <3>2. ~(i <= Len(s)) => i - Len(s) \in 1..k
        BY <3>1
      <3>. QED
        BY <2>2, <2>3, <3>2
    <2>. QED
      BY <2>3, <2>4 DEF part
  <1>. HIDE DEF whole
  <1>2. T = {}
    <2>. SUFFICES ASSUME T # {}
                  PROVE  FALSE
      OBVIOUS
    <2>1. T \in SUBSET Nat
      OBVIOUS
    <2>2. PICK x \in T : \A y \in T : x <= y
      BY <2>1, LeastOf
    <2>3. x \in 0..Len(t) /\ FlattenSeq(whole(x)) # FlattenSeq(s) \o Joined(t, x)
      OBVIOUS
    <2>4. FlattenSeq(s) \in Seq(S)
      BY FlattenIsSeq
    <2>5. CASE x = 0
      <3>1. Joined(t, 0) = <<>>
        BY JoinedNone
      <3>2. Upto(t, 0) = <<>>
        BY DEF Upto
      <3>3. whole(0) = s
        BY <3>2, ConcatEmptySeq DEF whole
      <3>. QED
        BY <2>3, <2>4, <2>5, <3>1, <3>3, ConcatEmptySeq
    <2>6. CASE x # 0
      <3>. DEFINE j == x - 1
      <3>1. j \in 0..Len(t) /\ j \in 0..Len(t) - 1 /\ j + 1 = x /\ ~(x <= j) /\ x \in 1..Len(t)
        BY <2>3, <2>6
      <3>. HIDE DEF j
      <3>2. FlattenSeq(whole(j)) = FlattenSeq(s) \o Joined(t, j)
        BY <2>2, <3>1
      <3>3. Joined(t, x) = Joined(t, j) \o t[x] /\ Joined(t, j) \in Seq(S) /\ t[x] \in Seq(S)
        <4>1. Joined(t, j + 1) = Joined(t, j) \o t[j + 1]
          BY <3>1, JoinedNext
        <4>2. Joined(t, j) \in Seq(S)
          BY <3>1, JoinedIsSeq
        <4>3. t[x] \in Seq(S)
          BY <3>1
        <4>. QED
          BY <3>1, <4>1, <4>2, <4>3
      <3>. DEFINE a == whole(j)
                  b == whole(x)
      <3>4. /\ a \in Seq(Seq(S)) /\ Len(a) = Len(s) + j
            /\ \A i \in 1..Len(s) + j : a[i] = IF i <= Len(s) THEN s[i] ELSE t[i - Len(s)]
        BY <1>1, <3>1
      <3>5. /\ b \in Seq(Seq(S)) /\ Len(b) = Len(s) + x
            /\ \A i \in 1..Len(s) + x : b[i] = IF i <= Len(s) THEN s[i] ELSE t[i - Len(s)]
        BY <1>1, <2>3
      <3>. HIDE DEF a, b
      <3>6. Len(s) \in Nat /\ j \in Nat /\ x \in Nat
        BY <3>1, <2>3
      <3>7. Len(b) = Len(a) + 1 /\ \A i \in 1..Len(a) : b[i] = a[i]
        <4>1. Len(b) = Len(a) + 1
          <5>. DEFINE n == Len(s)
                      la == Len(a)
                      lb == Len(b)
          <5>1. la = n + j /\ lb = n + x /\ n \in Nat /\ j \in Nat /\ j + 1 = x
            BY <3>1, <3>4, <3>5, <3>6
          <5>. HIDE DEF n, la, lb
          <5>2. lb = la + 1
            BY <5>1
          <5>. QED
            BY <5>2 DEF la, lb
        <4>2. \A i \in 1..Len(s) + j : i \in 1..Len(s) + x
          BY <3>1, <3>6
        <4>. QED
          BY <3>4, <3>5, <4>1, <4>2
      <3>8. b[Len(b)] = t[x]
        <4>1. Len(s) + x \in 1..Len(s) + x /\ ~(Len(s) + x <= Len(s)) /\ (Len(s) + x) - Len(s) = x
          <5>. DEFINE n == Len(s)
          <5>1. n \in Nat /\ x \in Nat \ {0}
            BY <3>1, <3>6
          <5>. HIDE DEF n
          <5>2. n + x \in 1..n + x /\ ~(n + x <= n) /\ (n + x) - n = x
            BY <5>1
          <5>. QED
            BY <5>2 DEF n
        <4>. QED
          BY <3>5, <4>1
      <3>9. FlattenSeq(b) = FlattenSeq(a) \o t[x]
        <4>1. a \in Seq(Seq(S)) /\ b \in Seq(Seq(S))
          BY <3>4, <3>5, Zenon
        <4>2. FlattenSeq(b) = FlattenSeq(a) \o b[Len(b)]
          BY <3>7, <4>1, FlattenOneMore, Zenon
        <4>. QED
          BY <3>8, <4>2, Zenon
      <3>10. (FlattenSeq(s) \o Joined(t, j)) \o t[x] = FlattenSeq(s) \o (Joined(t, j) \o t[x])
        BY <1>0, <2>4, <3>3, Zenon
      <3>. QED
        BY <2>3, <3>2, <3>3, <3>9, <3>10 DEF a, b
    <2>. QED
      BY <2>5, <2>6
  <1>3. Len(t) \in 0..Len(t)
    OBVIOUS
  <1>4. FlattenSeq(whole(Len(t))) = FlattenSeq(s) \o Joined(t, Len(t))
    BY <1>2, <1>3
  <1>5. Upto(t, Len(t)) = t
    BY DEF Upto
  <1>. QED
    BY <1>4, <1>5, JoinedAll DEF whole

(* Pieces of pieces, flattened twice.                                      *)
LEMMA FlattenTwice ==
  ASSUME NEW S, NEW nested \in Seq(Seq(Seq(S))), NEW flat \in Seq(Seq(S)), Len(flat) = Len(nested),
         \A i \in 1..Len(nested) : flat[i] = FlattenSeq(nested[i])
  PROVE  FlattenSeq(FlattenSeq(nested)) = FlattenSeq(flat)
  <1>. DEFINE T == {k \in 0..Len(nested) : FlattenSeq(Joined(nested, k)) # Joined(flat, k)}
  <1>1. T = {}
    <2>. SUFFICES ASSUME T # {}
                  PROVE  FALSE
      OBVIOUS
    <2>1. T \in SUBSET Nat
      OBVIOUS
    <2>2. PICK x \in T : \A y \in T : x <= y
      BY <2>1, LeastOf
    <2>3. x \in 0..Len(nested) /\ FlattenSeq(Joined(nested, x)) # Joined(flat, x)
      OBVIOUS
    <2>4. CASE x = 0
      <3>1. Joined(nested, 0) = <<>> /\ Joined(flat, 0) = <<>>
        BY JoinedNone
      <3>2. FlattenSeq(<<>>) = <<>>
        BY FlattenNothing
      <3>. QED
        BY <2>3, <2>4, <3>1, <3>2
    <2>5. CASE x # 0
      <3>. DEFINE j == x - 1
      <3>1. j \in 0..Len(nested) /\ j \in 0..Len(nested) - 1 /\ j + 1 = x /\ ~(x <= j)
            /\ x \in 1..Len(nested)
        BY <2>3, <2>5
      <3>. HIDE DEF j
      <3>2. FlattenSeq(Joined(nested, j)) = Joined(flat, j)
        BY <2>2, <3>1
      <3>3. Joined(nested, x) = Joined(nested, j) \o nested[x]
        <4>1. Joined(nested, j + 1) = Joined(nested, j) \o nested[j + 1]
          BY <3>1, JoinedNext
        <4>. QED
          BY <3>1, <4>1
      <3>4. Joined(flat, x) = Joined(flat, j) \o flat[x]
        <4>1. Joined(flat, j + 1) = Joined(flat, j) \o flat[j + 1]
          BY <3>1, JoinedNext
        <4>. QED
          BY <3>1, <4>1
      <3>5. Joined(nested, j) \in Seq(Seq(S)) /\ nested[x] \in Seq(Seq(S))
        BY <3>1, JoinedIsSeq
      <3>6. FlattenSeq(Joined(nested, j) \o nested[x])
              = FlattenSeq(Joined(nested, j)) \o FlattenSeq(nested[x])
        BY <3>5, FlattenConcat
      <3>. QED
        BY <2>3, <3>1, <3>2, <3>3, <3>4, <3>6
    <2>. QED
      BY <2>4, <2>5
  <1>2. Len(nested) \in 0..Len(nested)
    OBVIOUS
  <1>3. FlattenSeq(Joined(nested, Len(nested))) = Joined(flat, Len(nested))
    BY <1>1, <1>2
  <1>. QED
    BY <1>3, JoinedAll

(* Two pieces, pieces of pieces, and two more.                             *)
Wrapped(a, b, nested, c, d) == (<<a, b>> \o FlattenSeq(nested)) \o <<c, d>>

FlattensTo(all, whole) ==
  all \in Seq(Seq(Cells)) /\ Len(all) \in Nat \ {0} /\ FlattenSeq(all) = whole

LEMMA FlattenWrapped ==
  ASSUME NEW a \in Seq(Cells), NEW b \in Seq(Cells), NEW c \in Seq(Cells), NEW d \in Seq(Cells),
         NEW nested \in Seq(Seq(Seq(Cells))), NEW flat \in Seq(Seq(Cells)), Len(flat) = Len(nested),
         \A i \in 1..Len(nested) : flat[i] = FlattenSeq(nested[i])
  PROVE  FlattensTo(Wrapped(a, b, nested, c, d), ((a \o b) \o FlattenSeq(flat)) \o (c \o d))
  <1>. DEFINE all == Wrapped(a, b, nested, c, d)
  <1>. DEFINE first == <<a, b>>
              middle == FlattenSeq(nested)
              last == <<c, d>>
  <1>1. first \in Seq(Seq(Cells)) /\ last \in Seq(Seq(Cells)) /\ Len(first) = 2 /\ Len(last) = 2
    OBVIOUS
  <1>2. middle \in Seq(Seq(Cells))
    BY FlattenIsSeq
  <1>3. FlattenSeq(middle) = FlattenSeq(flat)
    BY FlattenTwice
  <1>4. FlattenSeq(first) = a \o b /\ FlattenSeq(last) = c \o d
    BY FlattenPair
  <1>5. all = (first \o middle) \o last
    BY DEF Wrapped
  <1>. HIDE DEF all, first, middle, last
  <1>6. first \o middle \in Seq(Seq(Cells))
    BY <1>1, <1>2, ConcatProperties
  <1>. DEFINE begin == first \o middle
  <1>7. begin \in Seq(Seq(Cells)) /\ Len(begin) \in Nat
    BY <1>6
  <1>8. FlattenSeq(begin) = FlattenSeq(first) \o FlattenSeq(middle)
    BY <1>1, <1>2, FlattenConcat
  <1>9. all = begin \o last
    BY <1>5
  <1>. HIDE DEF begin
  <1>10. FlattenSeq(begin \o last) = FlattenSeq(begin) \o FlattenSeq(last)
    BY <1>1, <1>7, FlattenConcat
  <1>11. begin \o last \in Seq(Seq(Cells)) /\ Len(begin \o last) = Len(begin) + Len(last)
    BY <1>1, <1>7, ConcatProperties
  <1>12. Len(begin \o last) \in Nat \ {0}
    <2>. DEFINE n == Len(begin)
                m == Len(begin \o last)
    <2>1. n \in Nat /\ m = n + 2
      BY <1>1, <1>7, <1>11
    <2>. HIDE DEF n, m
    <2>2. m \in Nat \ {0}
      BY <2>1
    <2>. QED
      BY <2>2 DEF m
  <1>. QED
    BY <1>3, <1>4, <1>8, <1>9, <1>10, <1>11, <1>12 DEF FlattensTo, all

-----------------------------------------------------------------------------
(* What inspect answers, case by case.                                     *)
LEMMA InspectCases ==
  ASSUME NEW c \in Seq(Cells), NEW cap \in Nat
  PROVE  /\ c = <<>> => inspectError(c, cap) = Truncated
         /\ c # <<>> /\ ParseHeader(c[1]) # NoError => inspectError(c, cap) = ParseHeader(c[1])
         /\ c # <<>> /\ ParseHeader(c[1]) = NoError =>
              inspectError(c, cap) =
                IF c[1].h.hasMetadata /\ ~parse_metadata(c, cap).ok THEN MetaMalformed ELSE NoError
  BY DEF inspectError

LEMMA HeaderIsCell ==
  ASSUME NEW c \in Cells, ParseHeader(c) = NoError
  PROVE  HeaderCell(c.h) = c
  <1>1. c.t = "header"
    BY DEF ParseHeader, BadMagic, NoError
  <1>2. c \in HeaderCells
    BY <1>1 DEF Cells, NumCells, CtCells, TagCells, RootCells, MagicEnd, Junk
  <1>. QED
    BY <1>2 DEF HeaderCells, HeaderCell

(* Metadata that is over the cap or that is cut is malformed.              *)
LEMMA MetadataCases ==
  ASSUME NEW c \in Seq(Cells), NEW cap \in Nat
  PROVE  /\ Len(c) < 2 => ~parse_metadata(c, cap).ok
         /\ Len(c) >= 2 /\ (U32(c[2]) > cap \/ U32(c[2]) > Len(c) - 2) => ~parse_metadata(c, cap).ok
  BY DEF parse_metadata, Malformed

(* The prefix of a container is enough to parse its metadata.              *)
LEMMA PrefixParses ==
  ASSUME NEW c \in Seq(Cells), NEW cap \in Nat, Len(c) >= 2, U32(c[2]) <= Len(c) - 2
  PROVE  parse_metadata(SubSeq(c, 1, 2 + U32(c[2])), cap) = parse_metadata(c, cap)
  <1>1. PICK l \in Nat, n \in Nat : l = Len(c) /\ n = U32(c[2]) /\ 2 + n <= l /\ l >= 2
    <2>1. Len(c) \in Nat
      BY LenProperties
    <2>2. c[2] \in Cells
      BY <2>1, ElementOfSeq
    <2>3. U32(c[2]) \in Nat
      BY <2>2, CellFacts
    <2>. QED
      BY <2>1, <2>3
  <1>2. PICK front : front = SubSeq(c, 1, 2 + n)
    OBVIOUS
  <1>3. front \in Seq(Cells) /\ Len(front) = 2 + n /\ \A i \in 1..2 + n : front[i] = c[i]
    <2>1. 2 + n \in Nat /\ 0 \in Nat /\ 0 + (2 + n) = 2 + n /\ 0 + 1 = 1
      OBVIOUS
    <2>2. /\ SubSeq(c, 0 + 1, 0 + (2 + n)) \in Seq(Cells)
          /\ Len(SubSeq(c, 0 + 1, 0 + (2 + n))) = 2 + n
          /\ \A i \in 1..2 + n : SubSeq(c, 0 + 1, 0 + (2 + n))[i] = c[0 + i]
      BY <1>1, <2>1, PartAfter
    <2>3. \A i \in 1..2 + n : 0 + i = i
      OBVIOUS
    <2>. QED
      BY <1>2, <2>1, <2>2, <2>3
  <1>4. front[2] = c[2] /\ 2 + n - 2 = n
    BY <1>3
  <1>5. SubSeq(front, 2, 2 + n) = SubSeq(c, 2, 2 + n)
    <2>1. 1 + n + 1 = 2 + n /\ 1 \in Nat /\ 1 + n \in Nat /\ 1 + (1 + n) = 2 + n /\ 1 + 1 = 2
      OBVIOUS
    <2>2. PICK a, b : a = SubSeq(front, 1 + 1, 1 + (1 + n)) /\ b = SubSeq(c, 1 + 1, 1 + (1 + n))
      OBVIOUS
    <2>3. a \in Seq(Cells) /\ Len(a) = 1 + n /\ \A i \in 1..1 + n : a[i] = front[1 + i]
      BY <1>3, <2>1, <2>2, PartAfter
    <2>4. b \in Seq(Cells) /\ Len(b) = 1 + n /\ \A i \in 1..1 + n : b[i] = c[1 + i]
      BY <1>1, <2>1, <2>2, PartAfter
    <2>5. \A i \in 1..1 + n : a[i] = b[i]
      <3>1. ASSUME NEW i \in 1..1 + n PROVE a[i] = b[i]
        <4>1. 1 + i \in 1..2 + n
          OBVIOUS
        <4>. QED
          BY <1>3, <2>3, <2>4, <4>1
      <3>. QED
        BY <3>1
    <2>6. a = b
      BY <2>3, <2>4, <2>5, SeqsAreEqual
    <2>. QED
      BY <2>1, <2>2, <2>6
  <1>6. parse_metadata(front, cap) = IF n = 0 \/ n > cap THEN Malformed
                                     ELSE ParseMetadata(SubSeq(c, 2, 2 + n))
    <2>1. ~(Len(front) < 2) /\ U32(front[2]) = n /\ ~(n > Len(front) - 2)
      BY <1>1, <1>3, <1>4
    <2>. QED
      BY <1>5, <2>1 DEF parse_metadata
  <1>7. parse_metadata(c, cap) = IF n = 0 \/ n > cap THEN Malformed
                                 ELSE ParseMetadata(SubSeq(c, 2, 2 + n))
    <2>1. ~(Len(c) < 2) /\ U32(c[2]) = n /\ ~(n > Len(c) - 2)
      BY <1>1
    <2>. QED
      BY <2>1 DEF parse_metadata
  <1>. QED
    BY <1>1, <1>2, <1>6, <1>7

-----------------------------------------------------------------------------
(* The loop of ParseMetadata.                                              *)
EntryTurn(p, body, r) ==
  IF r.offset >= Len(body) THEN Parsed(r.entries)
  ELSE IF ~AcceptsEntry(body, r.offset, r.entries) THEN Malformed
  ELSE p[ParsedTo(EntryEnd(body, r.offset), Append(r.entries, EntryAt(body, r.offset)))]

ParseLoop(p, body) == p = [r \in ParseStates(body) |-> EntryTurn(p, body, r)]

ParseFrom(body) == CHOOSE p : ParseLoop(p, body)

LEMMA ParsedByLoop ==
  ASSUME NEW data, data # <<>>, U32(data[1]) # 0, ~(U32(data[1]) > Len(data) - 1)
  PROVE  ParseMetadata(data) = ParseFrom(SubSeq(data, 2, 1 + U32(data[1])))[ParsedTo(0, <<>>)]
  BY Zenon DEF ParseMetadata, ParseFrom, ParseLoop, EntryTurn

(* Where an accepted entry ends, and what it is.                           *)
LEMMA EntryFits ==
  ASSUME NEW body \in Seq(Cells), NEW r \in ParseStates(body), r.offset < Len(body),
         AcceptsEntry(body, r.offset, r.entries)
  PROVE  LET end == EntryEnd(body, r.offset)
             at  == EntryAt(body, r.offset)
         IN  /\ end \in Nat /\ r.offset + EntryPrefix <= end /\ end <= Len(body)
             /\ at \in [tag : Nat, value : Seq(Range(body))]
             /\ ParsedTo(end, Append(r.entries, at)) \in ParseStates(body)
  <1>. DEFINE o == r.offset
              end == EntryEnd(body, o)
              at  == EntryAt(body, o)
              Item == [tag : Nat, value : Seq(Range(body))]
  <1>1. o \in Nat /\ r.entries \in Seq(Item) /\ Len(body) \in Nat
    BY DEF ParseStates
  <1>2. Len(body) - o >= 2 /\ end <= Len(body)
    BY DEF AcceptsEntry, EntryPrefix
  <1>3. o + 1 \in 1..Len(body) /\ o + 2 \in 1..Len(body)
    BY <1>1, <1>2
  <1>4. body[o + 1] \in Cells /\ body[o + 2] \in Cells
    BY <1>3
  <1>5. U32(body[o + 1]) \in Nat /\ U32(body[o + 2]) \in Nat
    BY <1>4, CellFacts
  <1>6. end = o + 2 + U32(body[o + 2])
    BY DEF EntryEnd, EntryPrefix
  <1>7. end \in Nat /\ o + 2 <= end
    BY <1>1, <1>5, <1>6
  <1>8. body \in Seq(Range(body))
    <2>1. \A i \in 1..Len(body) : body[i] \in Range(body)
      BY DEF Range
    <2>. QED
      BY <2>1, SeqInto
  <1>9. SubSeq(body, o + 2 + 1, end) \in Seq(Range(body))
    <2>1. o + 2 + 1 \in Nat /\ o + 2 + 1 >= 1
      BY <1>1
    <2>. QED
      BY <1>2, <1>7, <1>8, <2>1, PartOf
  <1>10. at \in Item
    BY <1>5, <1>9 DEF EntryAt, EntryPrefix
  <1>. HIDE DEF at, end, Item
  <1>11. Append(r.entries, at) \in Seq(Item)
    BY <1>1, <1>10
  <1>12. ParsedTo(end, Append(r.entries, at)) \in ParseStates(body)
    BY <1>7, <1>11 DEF ParsedTo, ParseStates, Item
  <1>. QED
    BY <1>2, <1>7, <1>10, <1>12 DEF EntryPrefix, at, end, o, Item

(* Its states whose offset is within n of the end, ...                     *)
Within(body, n) == {r \in ParseStates(body) : r.offset + n >= Len(body)}

LoopWithin(p, body, n) == p = [r \in Within(body, n) |-> EntryTurn(p, body, r)]

LEMMA NextIsNearer ==
  ASSUME NEW body \in Seq(Cells), NEW n \in Nat, NEW r \in Within(body, n + 1), r.offset < Len(body),
         AcceptsEntry(body, r.offset, r.entries)
  PROVE  ParsedTo(EntryEnd(body, r.offset), Append(r.entries, EntryAt(body, r.offset))) \in Within(body, n)
  <1>. DEFINE end == EntryEnd(body, r.offset)
              next == ParsedTo(end, Append(r.entries, EntryAt(body, r.offset)))
  <1>1. r \in ParseStates(body) /\ r.offset + (n + 1) >= Len(body) /\ r.offset \in Nat
    BY DEF Within, ParseStates
  <1>2. next \in ParseStates(body) /\ end \in Nat /\ r.offset + 2 <= end
    BY <1>1, EntryFits DEF EntryPrefix
  <1>3. next.offset = end
    BY DEF ParsedTo
  <1>4. end + n >= Len(body)
    BY <1>1, <1>2
  <1>. QED
    BY <1>2, <1>3, <1>4 DEF Within

LEMMA LoopsWithinExist ==
  ASSUME NEW body \in Seq(Cells), NEW n \in Nat
  PROVE  \E p : LoopWithin(p, body, n)
  <1>. DEFINE T == {k \in Nat : ~\E p : LoopWithin(p, body, k)}
  <1>1. T = {}
    <2>. SUFFICES ASSUME T # {}
                  PROVE  FALSE
      OBVIOUS
    <2>1. PICK x \in T : \A y \in T : x <= y
      <3>1. T \in SUBSET Nat
        OBVIOUS
      <3>. QED
        BY <3>1, LeastOf
    <2>2. CASE x = 0
      <3>. DEFINE g == [r \in Within(body, 0) |-> Parsed(r.entries)]
      <3>1. \A r \in Within(body, 0) : r.offset >= Len(body)
        BY DEF Within, ParseStates
      <3>2. g = [r \in Within(body, 0) |-> EntryTurn(g, body, r)]
        BY <3>1 DEF EntryTurn
      <3>3. LoopWithin(g, body, 0)
        BY <3>2 DEF LoopWithin
      <3>. QED
        BY <2>1, <2>2, <3>3
    <2>3. CASE x # 0
      <3>1. x \in Nat /\ x - 1 \in Nat /\ x - 1 \notin T /\ (x - 1) + 1 = x
        BY <2>1, <2>3
      <3>2. PICK f : LoopWithin(f, body, x - 1)
        BY <3>1
      <3>. DEFINE g == [r \in Within(body, x) |-> EntryTurn(f, body, r)]
      <3>3. \A r \in Within(body, x - 1) : r \in Within(body, x) /\ f[r] = EntryTurn(f, body, r)
        <4>1. \A r \in Within(body, x - 1) : r \in Within(body, x)
          BY <3>1 DEF Within, ParseStates
        <4>2. \A r \in Within(body, x - 1) : f[r] = EntryTurn(f, body, r)
          BY <3>2, Zenon DEF LoopWithin
        <4>. QED
          BY <4>1, <4>2
      <3>4. \A r \in Within(body, x - 1) : g[r] = f[r]
        BY <3>3
      <3>5. ASSUME NEW r \in Within(body, x)
            PROVE  EntryTurn(f, body, r) = EntryTurn(g, body, r)
        <4>. HIDE DEF g
        <4>1. r \in ParseStates(body) /\ r.offset \in Nat
          BY DEF Within, ParseStates
        <4>2. CASE r.offset >= Len(body) \/ ~AcceptsEntry(body, r.offset, r.entries)
          BY <4>2 DEF EntryTurn
        <4>3. CASE ~(r.offset >= Len(body)) /\ AcceptsEntry(body, r.offset, r.entries)
          <5>1. r.offset < Len(body)
            BY <4>1, <4>3
          <5>2. ParsedTo(EntryEnd(body, r.offset), Append(r.entries, EntryAt(body, r.offset)))
                  \in Within(body, x - 1)
            BY <3>1, <4>3, <5>1, NextIsNearer
          <5>. QED
            BY <3>4, <4>3, <5>2 DEF EntryTurn
        <4>. QED
          BY <4>2, <4>3
      <3>6. g = [r \in Within(body, x) |-> EntryTurn(g, body, r)]
        BY <3>5
      <3>. HIDE DEF g
      <3>7. LoopWithin(g, body, x)
        BY <3>6 DEF LoopWithin
      <3>. QED
        BY <2>1, <3>7
    <2>. QED
      BY <2>2, <2>3
  <1>. QED
    BY <1>1

(* ... and all of them.                                                    *)
LEMMA ParseSteps ==
  ASSUME NEW body \in Seq(Cells), NEW r \in ParseStates(body)
  PROVE  ParseFrom(body)[r] = EntryTurn(ParseFrom(body), body, r)
  <1>1. Within(body, Len(body)) = ParseStates(body) /\ Len(body) \in Nat
    <2>1. Len(body) \in Nat
      OBVIOUS
    <2>2. \A s \in ParseStates(body) : s.offset \in Nat
      BY DEF ParseStates
    <2>3. \A s \in ParseStates(body) : s.offset + Len(body) >= Len(body)
      BY <2>1, <2>2
    <2>. QED
      BY <2>1, <2>3 DEF Within
  <1>2. \E p : LoopWithin(p, body, Len(body))
    BY <1>1, LoopsWithinExist
  <1>3. \E p : ParseLoop(p, body)
    BY <1>1, <1>2 DEF LoopWithin, ParseLoop
  <1>4. ParseLoop(ParseFrom(body), body)
    BY <1>3 DEF ParseFrom
  <1>. QED
    BY <1>4, Zenon DEF ParseLoop

-----------------------------------------------------------------------------
(* `part` stands in `whole` after the first `at`.                          *)
StandsAt(part, whole, at) ==
  /\ at \in Nat /\ at + Len(part) \in 0..Len(whole)
  /\ \A i \in 1..Len(part) : whole[at + i] = part[i]

LEMMA MiddleStands ==
  ASSUME NEW S, NEW a \in Seq(S), NEW b \in Seq(S), NEW c \in Seq(S)
  PROVE  StandsAt(b, (a \o b) \o c, Len(a))
  <1>1. Len((a \o b) \o c) = Len(a) + Len(b) + Len(c) /\ a \o b \in Seq(S) /\ Len(a \o b) = Len(a) + Len(b)
    BY ConcatProperties
  <1>2. ASSUME NEW i \in 1..Len(b)
        PROVE  ((a \o b) \o c)[Len(a) + i] = b[i]
    <2>1. Len(a) + i \in 1..Len(a \o b) /\ Len(a) + i > Len(a) /\ (Len(a) + i) - Len(a) = i
      BY <1>1
    <2>2. ((a \o b) \o c)[Len(a) + i] = (a \o b)[Len(a) + i]
      BY <1>1, <2>1, ConcatProperties
    <2>3. (a \o b)[Len(a) + i] = b[i]
      BY <2>1, ConcatProperties
    <2>. QED
      BY <2>2, <2>3
  <1>3. Len(a) \in Nat /\ Len(b) \in Nat /\ Len(c) \in Nat
    OBVIOUS
  <1>. QED
    BY <1>1, <1>2, <1>3 DEF StandsAt

(* A part of it is that part of the whole.                                 *)
SamePart(part, whole, at, m, n) == SubSeq(whole, at + m + 1, at + n) = SubSeq(part, m + 1, n)

LEMMA PartStands ==
  ASSUME NEW S, NEW part \in Seq(S), NEW whole \in Seq(S), NEW at, StandsAt(part, whole, at),
         NEW m \in Nat, NEW n \in m..Len(part)
  PROVE  SamePart(part, whole, at, m, n)
  <1>1. at \in Nat /\ at + Len(part) <= Len(whole) /\ \A i \in 1..Len(part) : whole[at + i] = part[i]
    BY DEF StandsAt
  <1>2. n - m \in Nat /\ n \in Nat /\ m + (n - m) = n /\ (at + m) + (n - m) = at + n
    <2>1. Len(part) \in Nat /\ n \in m..Len(part)
      OBVIOUS
    <2>. QED
      BY <1>1, <2>1
  <1>. DEFINE k == n - m
              base == at + m
              a == SubSeq(whole, base + 1, base + k)
              b == SubSeq(part, m + 1, m + k)
  <1>3. k \in Nat /\ base \in Nat /\ base + k <= Len(whole) /\ m + k <= Len(part)
    BY <1>1, <1>2
  <1>4. a \in Seq(S) /\ Len(a) = k /\ \A i \in 1..k : a[i] = whole[base + i]
    <2>. HIDE DEF k, base
    <2>. QED
      BY <1>3, PartAfter
  <1>5. b \in Seq(S) /\ Len(b) = k /\ \A i \in 1..k : b[i] = part[m + i]
    <2>. HIDE DEF k
    <2>. QED
      BY <1>3, PartAfter
  <1>6. \A i \in 1..k : a[i] = b[i]
    <2>. SUFFICES ASSUME NEW i \in 1..k
                  PROVE  a[i] = b[i]
      OBVIOUS
    <2>1. m + i \in 1..Len(part) /\ base + i = at + (m + i)
      BY <1>1, <1>3
    <2>. HIDE DEF a, b, k, base
    <2>. QED
      BY <1>1, <1>4, <1>5, <2>1
  <1>7. a = b
    <2>. HIDE DEF a, b, k, base
    <2>. QED
      BY <1>4, <1>5, <1>6, SeqsAreEqual
  <1>. QED
    BY <1>2, <1>7 DEF SamePart

(* The whole of it.                                                        *)
LEMMA WholeStands ==
  ASSUME NEW S, NEW part \in Seq(S), NEW whole \in Seq(S), NEW at, StandsAt(part, whole, at)
  PROVE  SubSeq(whole, at + 1, at + Len(part)) = part
  <1>1. Len(part) \in 0..Len(part) /\ 0 \in Nat /\ at \in Nat /\ at + 0 + 1 = at + 1
    BY DEF StandsAt
  <1>2. SubSeq(whole, at + 0 + 1, at + Len(part)) = SubSeq(part, 0 + 1, Len(part))
    <2>1. SamePart(part, whole, at, 0, Len(part))
      BY <1>1, PartStands
    <2>. QED
      BY <2>1 DEF SamePart
  <1>3. SubSeq(part, 0 + 1, Len(part)) = part
    OBVIOUS
  <1>. QED
    BY <1>1, <1>2, <1>3

(* The k-th of a sequence of sequences stands in their concatenation.      *)
LEMMA JoinedStands ==
  ASSUME NEW S, NEW seqs \in Seq(Seq(S)), NEW k \in 0..Len(seqs) - 1
  PROVE  /\ StandsAt(seqs[k + 1], FlattenSeq(seqs), Len(Joined(seqs, k)))
         /\ Joined(seqs, k) \in Seq(S)
         /\ Len(Joined(seqs, k + 1)) = Len(Joined(seqs, k)) + Len(seqs[k + 1])
         /\ FlattenSeq(seqs) \in Seq(S)
  <1>1. k \in 0..Len(seqs) /\ k + 1 \in 0..Len(seqs) /\ Len(seqs) \in k + 1..Len(seqs)
        /\ seqs[k + 1] \in Seq(S)
    OBVIOUS
  <1>2. Joined(seqs, k) \in Seq(S) /\ Joined(seqs, k + 1) = Joined(seqs, k) \o seqs[k + 1]
        /\ FlattenSeq(seqs) = Joined(seqs, Len(seqs)) /\ FlattenSeq(seqs) \in Seq(S)
    BY <1>1, JoinedIsSeq, JoinedNext, JoinedAll, FlattenIsSeq
  <1>3. PICK rest \in Seq(S) : FlattenSeq(seqs) = Joined(seqs, k + 1) \o rest
    <2>1. Begins(Joined(seqs, k + 1), Joined(seqs, Len(seqs)), S)
      BY <1>1, JoinedBegins
    <2>. QED
      BY <1>2, <2>1 DEF Begins
  <1>4. FlattenSeq(seqs) = (Joined(seqs, k) \o seqs[k + 1]) \o rest
    BY <1>2, <1>3
  <1>. DEFINE j == Joined(seqs, k)
              f == FlattenSeq(seqs)
              e == seqs[k + 1]
  <1>5. j \in Seq(S) /\ e \in Seq(S) /\ rest \in Seq(S) /\ f = (j \o e) \o rest
    BY <1>1, <1>2, <1>3, <1>4
  <1>. HIDE DEF j, f, e
  <1>6. StandsAt(e, f, Len(j)) /\ Len(j \o e) = Len(j) + Len(e)
    <2>1. StandsAt(e, (j \o e) \o rest, Len(j))
      BY <1>5, MiddleStands
    <2>. QED
      BY <1>5, <2>1, ConcatProperties
  <1>. QED
    BY <1>2, <1>6 DEF j, f, e

-----------------------------------------------------------------------------
(* What the encoder writes, the parser reads.                              *)
EntriesCells(entries) == [i \in DOMAIN entries |-> EntryCells(entries[i])]

LEMMA NumberReads ==
  ASSUME NEW n
  PROVE  U32(Num(n)) = n
  BY DEF U32, Num

LEMMA EntryLayout ==
  ASSUME NEW entry \in Entry
  PROVE  LET cells == EntryCells(entry)
             n     == Len(entry.value)
         IN  /\ n \in Nat /\ Len(cells) = 2 + n
             /\ cells[1] = Num(entry.tag) /\ cells[2] = Num(n)
             /\ SubSeq(cells, 3, 2 + n) = entry.value
             /\ entry = [tag |-> entry.tag, value |-> entry.value]
  <1>. DEFINE S == [t : {"num"}, n : Nat]
              v == entry.value
              prefix == <<Num(entry.tag), Num(Len(v))>>
  <1>1. entry.tag \in Nat /\ v \in Seq(NumCells) /\ NumCells \subseteq S
        /\ entry = [tag |-> entry.tag, value |-> entry.value]
    BY WidthAssumption DEF Entry, NumCells
  <1>2. Num(entry.tag) \in S /\ Num(Len(v)) \in S
    BY <1>1 DEF Num
  <1>3. prefix \in Seq(S) /\ Len(prefix) = 2 /\ prefix[1] = Num(entry.tag) /\ prefix[2] = Num(Len(v))
    <2>. HIDE DEF S, v
    <2>. QED
      BY <1>2
  <1>4. v \in Seq(S)
    <2>. HIDE DEF S, v
    <2>. QED
      BY <1>1
  <1>5. EntryCells(entry) = prefix \o v
    BY DEF EntryCells
  <1>. HIDE DEF S, v, prefix
  <1>6. prefix \o v \in Seq(S) /\ Len(prefix \o v) = 2 + Len(v) /\ Len(v) \in Nat
    <2>1. prefix \o v \in Seq(S)
      BY <1>3, <1>4, ConcatProperties, Zenon
    <2>2. Len(prefix \o v) = Len(prefix) + Len(v)
      BY <1>3, <1>4, ConcatProperties, Zenon
    <2>. QED
      BY <1>3, <1>4, <2>1, <2>2
  <1>7. (prefix \o v)[1] = prefix[1] /\ (prefix \o v)[2] = prefix[2]
    <2>1. 1 \in 1..Len(prefix) + Len(v) /\ 2 \in 1..Len(prefix) + Len(v) /\ 1 <= Len(prefix) /\ 2 <= Len(prefix)
      BY <1>3, <1>6
    <2>2. \A i \in 1..Len(prefix) + Len(v) :
             (prefix \o v)[i] = IF i <= Len(prefix) THEN prefix[i] ELSE v[i - Len(prefix)]
      BY <1>3, <1>4, ConcatProperties, Zenon
    <2>. QED
      BY <2>1, <2>2
  <1>8. SubSeq(prefix \o v, 3, 2 + Len(v)) = v
    <2>1. <<>> \in Seq(S) /\ (prefix \o v) \o <<>> = prefix \o v
      BY <1>6, EmptySeq, ConcatEmptySeq
    <2>2. StandsAt(v, (prefix \o v) \o <<>>, Len(prefix))
      BY <1>3, <1>4, <2>1, MiddleStands
    <2>3. StandsAt(v, prefix \o v, 2)
      BY <1>3, <2>1, <2>2
    <2>4. SubSeq(prefix \o v, 2 + 1, 2 + Len(v)) = v
      BY <1>4, <1>6, <2>3, WholeStands
    <2>5. 2 + 1 = 3
      OBVIOUS
    <2>. QED
      BY <2>4, <2>5, Zenon
  <1>. QED
    BY <1>1, <1>3, <1>5, <1>6, <1>7, <1>8 DEF v

LEMMA EntriesAreSeqs ==
  ASSUME NEW entries \in Seq(Entry)
  PROVE  LET cells == EntriesCells(entries)
         IN  /\ cells \in Seq(Seq([t : {"num"}, n : Nat])) /\ Len(cells) = Len(entries)
             /\ \A i \in 1..Len(entries) : cells[i] = EntryCells(entries[i])
  <1>. DEFINE S == [t : {"num"}, n : Nat]
  <1>1. DOMAIN entries = 1..Len(entries) /\ Len(entries) \in Nat
        /\ \A i \in 1..Len(entries) : entries[i] \in Entry
    OBVIOUS
  <1>2. \A i \in 1..Len(entries) : EntryCells(entries[i]) \in Seq(S)
    BY <1>1, EntryIsNumbers
  <1>. HIDE DEF S
  <1>3. EntriesCells(entries) = [i \in 1..Len(entries) |-> EntryCells(entries[i])]
    BY <1>1 DEF EntriesCells
  <1>. QED
    BY <1>1, <1>2, <1>3 DEF S

(* Entries a parser takes: legal, and in strictly ascending order.         *)
Ascending(entries) == \A i \in 2..Len(entries) : entries[i - 1].tag < entries[i].tag

LegalEntries(entries) ==
  /\ entries \in Seq(Entry) /\ Ascending(entries)
  /\ \A i \in 1..Len(entries) : validReservedMetadata(entries[i])

BodyOf(entries) == FlattenSeq(EntriesCells(entries))

(* The entries the loop has read by its k-th turn, and how far it came.    *)
OffsetOf(entries, k) == Len(Joined(EntriesCells(entries), k))
ReadUpto(entries, k) == ParsedTo(OffsetOf(entries, k), Upto(entries, k))

(* The loop finds the next entry where the last one ended.                 *)
FindsEntry(entries, k) ==
  LET body == BodyOf(entries)
      o    == OffsetOf(entries, k)
  IN  /\ o \in Nat /\ o < Len(body)
      /\ EntryEnd(body, o) = OffsetOf(entries, k + 1)
      /\ EntryAt(body, o) = entries[k + 1]
      /\ AcceptsEntry(body, o, Upto(entries, k))

LEMMA NextEntryIsFound ==
  ASSUME NEW entries, LegalEntries(entries), NEW k \in 0..Len(entries) - 1
  PROVE  FindsEntry(entries, k)
  <1>. DEFINE W == [t : {"num"}, n : Nat]
              cells == EntriesCells(entries)
              body == BodyOf(entries)
              o == OffsetOf(entries, k)
              e == entries[k + 1]
              n == Len(e.value)
              ec == EntryCells(e)
  <1>1. entries \in Seq(Entry) /\ e \in Entry /\ k \in Nat /\ k + 1 \in 1..Len(entries)
        /\ validReservedMetadata(e) /\ Len(entries) \in Nat
    BY DEF LegalEntries
  <1>2. cells \in Seq(Seq(W)) /\ Len(cells) = Len(entries) /\ cells[k + 1] = ec
    BY <1>1, EntriesAreSeqs
  <1>3. /\ StandsAt(ec, body, o) /\ body \in Seq(W)
        /\ OffsetOf(entries, k + 1) = o + Len(ec) /\ o \in Nat
    <2>. HIDE DEF ec, e, W
    <2>1. k \in 0..Len(cells) - 1
      BY <1>2
    <2>2. /\ StandsAt(cells[k + 1], FlattenSeq(cells), Len(Joined(cells, k)))
          /\ Joined(cells, k) \in Seq(W)
          /\ Len(Joined(cells, k + 1)) = Len(Joined(cells, k)) + Len(cells[k + 1])
          /\ FlattenSeq(cells) \in Seq(W)
      <3>. HIDE DEF cells
      <3>. QED
        BY <1>2, <2>1, JoinedStands
    <2>3. Len(Joined(cells, k)) \in Nat
      <3>. HIDE DEF cells
      <3>. QED
        BY <2>2
    <2>. QED
      BY <1>2, <2>2, <2>3 DEF BodyOf, OffsetOf
  <1>4. /\ n \in Nat /\ Len(ec) = 2 + n /\ ec[1] = Num(e.tag) /\ ec[2] = Num(n)
        /\ SubSeq(ec, 3, 2 + n) = e.value /\ e = [tag |-> e.tag, value |-> e.value]
        /\ ec \in Seq(W)
    BY <1>1, EntryLayout, EntryIsNumbers
  <1>. HIDE DEF body, o, ec, n, e
  <1>20. o \in Nat /\ n \in Nat /\ Len(ec) = 2 + n /\ ec \in Seq(W)
    BY <1>3, <1>4, Zenon
  <1>21. 2 + 1 = 3 /\ 2 \in Nat /\ 2 + n \in 2..Len(ec) /\ o + (2 + n) = o + 2 + n
         /\ o + 2 + n = o + Len(ec)
    BY <1>20
  <1>5. o + (2 + n) <= Len(body) /\ body[o + 1] = Num(e.tag) /\ body[o + 2] = Num(n) /\ Len(body) \in Nat
    <2>1. 1 \in 1..Len(ec) /\ 2 \in 1..Len(ec)
      BY <1>20
    <2>2. /\ o + Len(ec) \in 0..Len(body) /\ body \in Seq(W)
          /\ \A i \in 1..Len(ec) : body[o + i] = ec[i]
      BY <1>3, Zenon DEF StandsAt
    <2>3. body[o + 1] = ec[1] /\ body[o + 2] = ec[2]
      BY <2>1, <2>2, Zenon
    <2>4. Len(body) \in Nat /\ o + (2 + n) <= Len(body)
      <3>1. Len(body) \in Nat
        BY <2>2
      <3>2. o + (2 + n) \in 0..Len(body)
        BY <1>20, <2>2, Zenon
      <3>. QED
        BY <1>20, <3>1, <3>2
    <2>. QED
      BY <1>4, <2>3, <2>4, Zenon
  <1>6. U32(body[o + 1]) = e.tag /\ U32(body[o + 2]) = n
    BY <1>5, NumberReads
  <1>7. EntryEnd(body, o) = o + 2 + n
    BY <1>6 DEF EntryEnd, EntryPrefix
  <1>8. SubSeq(body, o + 2 + 1, o + (2 + n)) = e.value
    <2>1. SamePart(ec, body, o, 2, 2 + n)
      BY <1>3, <1>20, <1>21, PartStands
    <2>2. SubSeq(body, o + 2 + 1, o + (2 + n)) = SubSeq(ec, 2 + 1, 2 + n)
      BY <2>1, Zenon DEF SamePart
    <2>. QED
      BY <1>4, <1>21, <2>2, Zenon
  <1>9. EntryAt(body, o) = e
    <2>1. EntryAt(body, o) = [tag |-> e.tag, value |-> SubSeq(body, o + 2 + 1, o + 2 + n)]
      BY <1>6, <1>7, Zenon DEF EntryAt, EntryPrefix
    <2>. QED
      BY <1>4, <1>8, <1>21, <2>1, Zenon
  <1>10. Ascends(LastTag(Upto(entries, k)), e.tag)
    <2>1. e.tag \in Nat
      BY <1>1, WidthAssumption DEF Entry
    <2>2. Upto(entries, k) \in Seq(Entry) /\ Len(Upto(entries, k)) = k
          /\ \A i \in 1..k : Upto(entries, k)[i] = entries[i]
      BY <1>1, UptoIsSeq
    <2>3. CASE k = 0
      <3>1. Upto(entries, k) = <<>>
        BY <2>2, <2>3
      <3>. QED
        BY <2>1, <3>1 DEF LastTag, Ascends
    <2>4. CASE k # 0
      <3>1. Upto(entries, k) # <<>> /\ k \in 1..k /\ k + 1 \in 2..Len(entries) /\ (k + 1) - 1 = k
        BY <1>1, <2>2, <2>4
      <3>2. entries[k].tag < entries[k + 1].tag
        BY <3>1 DEF LegalEntries, Ascending
      <3>3. LastTag(Upto(entries, k)) = entries[k].tag
        BY <2>2, <3>1 DEF LastTag
      <3>. QED
        BY <3>2, <3>3, Zenon DEF Ascends, e
    <2>. QED
      BY <2>3, <2>4
  <1>11. AcceptsEntry(body, o, Upto(entries, k))
    <2>1. Len(body) \in Nat /\ o + (2 + n) <= Len(body)
      BY <1>5, Zenon
    <2>2. Len(body) - o >= 2 /\ o + 2 + n <= Len(body)
      BY <1>20, <2>1
    <2>. QED
      BY <1>1, <1>6, <1>7, <1>9, <1>10, <2>2, Zenon DEF AcceptsEntry, EntryPrefix
  <1>12. o < Len(body) /\ o + 2 + n = o + Len(ec)
    <2>1. Len(body) \in Nat /\ o + (2 + n) <= Len(body)
      BY <1>5, Zenon
    <2>. QED
      BY <1>20, <2>1
  <1>. QED
    <2>1. EntryEnd(body, o) = OffsetOf(entries, k + 1)
      BY <1>3, <1>7, <1>12, Zenon
    <2>. QED
      BY <1>9, <1>11, <1>12, <1>20, <2>1, Zenon DEF FindsEntry, body, o, e

LEMMA WrittenIsRead ==
  ASSUME NEW entries, LegalEntries(entries), BodyOf(entries) \in Seq(Cells)
  PROVE  ParseFrom(BodyOf(entries))[ParsedTo(0, <<>>)] = Parsed(entries)
  <1>. DEFINE body == BodyOf(entries)
              p == ParseFrom(body)
              r(k) == ReadUpto(entries, k)
              Good(k) == r(k) \in ParseStates(body) /\ p[r(0)] = p[r(k)]
              T == {k \in Nat : k <= Len(entries) /\ ~Good(k)}
  <1>1. entries \in Seq(Entry) /\ Len(entries) \in Nat /\ body \in Seq(Cells)
    BY DEF LegalEntries
  <1>2. /\ EntriesCells(entries) \in Seq(Seq([t : {"num"}, n : Nat]))
        /\ Len(EntriesCells(entries)) = Len(entries)
    BY <1>1, EntriesAreSeqs
  <1>3. r(0) = ParsedTo(0, <<>>)
    <2>1. Upto(entries, 0) = <<>>
      <3>1. 0 \in 0..Len(entries)
        BY <1>1
      <3>2. Upto(entries, 0) \in Seq(Entry) /\ Len(Upto(entries, 0)) = 0
        BY <1>1, <3>1, UptoIsSeq
      <3>. QED
        BY <3>2
    <2>2. OffsetOf(entries, 0) = 0
      <3>1. Joined(EntriesCells(entries), 0) = <<>>
        BY <1>2, JoinedNone
      <3>. QED
        BY <3>1 DEF OffsetOf
    <2>. QED
      BY <2>1, <2>2 DEF ReadUpto
  <1>4. ParsedTo(0, <<>>) \in ParseStates(body)
    BY EmptySeq DEF ParsedTo, ParseStates
  <1>5. ASSUME NEW k \in Nat, k < Len(entries), r(k) \in ParseStates(body)
        PROVE  r(k + 1) \in ParseStates(body) /\ p[r(k)] = p[r(k + 1)]
    <2>1. k \in 0..Len(entries) - 1
      BY <1>1, <1>5
    <2>2. /\ r(k).offset = OffsetOf(entries, k) /\ r(k).entries = Upto(entries, k)
      BY DEF ReadUpto, ParsedTo
    <2>3. /\ r(k).offset \in Nat /\ r(k).offset < Len(body)
          /\ EntryEnd(body, r(k).offset) = OffsetOf(entries, k + 1)
          /\ EntryAt(body, r(k).offset) = entries[k + 1]
          /\ AcceptsEntry(body, r(k).offset, r(k).entries)
      BY <2>1, <2>2, NextEntryIsFound, Zenon DEF FindsEntry
    <2>4. Append(Upto(entries, k), entries[k + 1]) = Upto(entries, k + 1)
      <3>1. k \in 0..Len(entries) /\ k + 1 \in 0..Len(entries) /\ entries[k + 1] \in Entry
        BY <1>1, <2>1
      <3>2. /\ Upto(entries, k) \in Seq(Entry) /\ Len(Upto(entries, k)) = k
            /\ \A i \in 1..k : Upto(entries, k)[i] = entries[i]
        BY <1>1, <3>1, UptoIsSeq
      <3>3. /\ Upto(entries, k + 1) \in Seq(Entry) /\ Len(Upto(entries, k + 1)) = k + 1
            /\ \A i \in 1..k + 1 : Upto(entries, k + 1)[i] = entries[i]
        BY <1>1, <3>1, UptoIsSeq
      <3>. DEFINE a == Append(Upto(entries, k), entries[k + 1])
      <3>4. /\ a \in Seq(Entry) /\ Len(a) = k + 1
            /\ \A i \in 1..k + 1 : a[i] = IF i <= k THEN Upto(entries, k)[i] ELSE entries[k + 1]
        BY <3>1, <3>2, AppendProperties
      <3>5. \A i \in 1..k + 1 : a[i] = entries[i]
        <4>. SUFFICES ASSUME NEW i \in 1..k + 1
                      PROVE  a[i] = entries[i]
          OBVIOUS
        <4>. HIDE DEF a
        <4>1. CASE i <= k
          BY <3>2, <3>4, <4>1
        <4>2. CASE ~(i <= k)
          BY <3>4, <4>2
        <4>. QED
          BY <4>1, <4>2
      <3>. HIDE DEF a
      <3>6. a = Upto(entries, k + 1)
        BY <3>3, <3>4, <3>5, SeqsAreEqual
      <3>. QED
        BY <3>6 DEF a
    <2>5. ParsedTo(EntryEnd(body, r(k).offset), Append(r(k).entries, EntryAt(body, r(k).offset))) = r(k + 1)
      BY <2>2, <2>3, <2>4, Zenon DEF ReadUpto
    <2>. HIDE DEF r, p, body
    <2>6. r(k + 1) \in ParseStates(body)
      BY <1>1, <1>5, <2>3, <2>5, EntryFits, Zenon
    <2>7. p[r(k)] = EntryTurn(p, body, r(k))
      BY <1>1, <1>5, ParseSteps DEF p
    <2>8. ~(r(k).offset >= Len(body))
      <3>1. Len(body) \in Nat
        BY <1>1
      <3>. QED
        BY <2>3, <3>1
    <2>9. EntryTurn(p, body, r(k)) = p[r(k + 1)]
      BY <2>3, <2>5, <2>8, Zenon DEF EntryTurn
    <2>. QED
      BY <2>6, <2>7, <2>9
  <1>6. Good(Len(entries))
    <2>1. T = {}
      <3>. SUFFICES ASSUME T # {}
                    PROVE  FALSE
        OBVIOUS
      <3>1. PICK x \in T : \A y \in T : x <= y
        <4>1. T \in SUBSET Nat
          OBVIOUS
        <4>. QED
          BY <4>1, LeastOf
      <3>. HIDE DEF r, p, body
      <3>2. x # 0
        BY <1>3, <1>4, <3>1
      <3>3. x \in Nat /\ x - 1 \in Nat /\ x - 1 < Len(entries) /\ (x - 1) + 1 = x /\ ~Good(x)
            /\ x - 1 \notin T /\ x - 1 <= Len(entries)
        BY <1>1, <3>1, <3>2
      <3>4. Good(x - 1)
        BY <3>3
      <3>5. Good((x - 1) + 1)
        BY <1>5, <3>3, <3>4
      <3>. QED
        BY <3>3, <3>5
    <2>. HIDE DEF Good
    <2>. QED
      BY <1>1, <2>1
  <1>7. r(Len(entries)) = ParsedTo(Len(body), entries)
    <2>1. Upto(entries, Len(entries)) = entries
      <3>1. Len(entries) \in 0..Len(entries)
        BY <1>1
      <3>2. /\ Upto(entries, Len(entries)) \in Seq(Entry) /\ Len(Upto(entries, Len(entries))) = Len(entries)
            /\ \A i \in 1..Len(entries) : Upto(entries, Len(entries))[i] = entries[i]
        BY <1>1, <3>1, UptoIsSeq
      <3>. QED
        BY <1>1, <3>2, SeqsAreEqual
    <2>2. OffsetOf(entries, Len(entries)) = Len(body)
      BY <1>2, JoinedAll DEF OffsetOf, BodyOf
    <2>. QED
      BY <2>1, <2>2 DEF ReadUpto
  <1>. HIDE DEF r, p, body
  <1>8. ParsedTo(Len(body), entries) \in ParseStates(body)
    BY <1>6, <1>7
  <1>9. p[ParsedTo(Len(body), entries)] = EntryTurn(p, body, ParsedTo(Len(body), entries))
    BY <1>1, <1>8, ParseSteps DEF p
  <1>10. EntryTurn(p, body, ParsedTo(Len(body), entries)) = Parsed(entries)
    <2>1. Len(body) >= Len(body)
      BY <1>1
    <2>. QED
      BY <2>1 DEF EntryTurn, ParsedTo
  <1>. QED
    BY <1>3, <1>6, <1>7, <1>9, <1>10 DEF p, body

(* Sorting leaves the entries of a legal list in strictly ascending order. *)
RegionFor(region, sorted) ==
  /\ LegalEntries(sorted)
  /\ BodyOf(sorted) \in Seq(NumCells) /\ Len(BodyOf(sorted)) \in 1..MaxU32
  /\ region = <<Num(Len(BodyOf(sorted)))>> \o BodyOf(sorted)

LEMMA TagsAreNumbers ==
  \A entry \in Entry : entry.tag \in Nat
  BY WidthAssumption DEF Entry

LEMMA EncodedIsLegal ==
  ASSUME NEW entries \in Seq(Entry), EncodeMetadata(entries).ok, entries # <<>>
  PROVE  RegionFor(EncodeMetadata(entries).region, Sorted(entries))
  <1>. DEFINE s == Sorted(entries)
              cells == [i \in DOMAIN s |-> EntryCells(s[i])]
              body == BodyOf(s)
              legal == /\ Len(body) <= MaxU32
                       /\ \A i \in DOMAIN s : /\ validReservedMetadata(s[i])
                                              /\ i > 1 => s[i-1].tag # s[i].tag
  <1>1. s \in Seq(Entry) /\ Len(s) = Len(entries) /\ Len(s) \in Nat /\ DOMAIN s = 1..Len(s)
    BY SortedIsSeq
  <1>2. EncodeMetadata(entries) = IF legal THEN [ok |-> TRUE, region |-> <<Num(Len(body))>> \o body]
                                  ELSE [ok |-> FALSE, region |-> <<>>]
    BY Zenon DEF EncodeMetadata, BodyOf, EntriesCells
  <1>3. legal /\ EncodeMetadata(entries).region = <<Num(Len(body))>> \o body
    <2>. HIDE DEF legal, body
    <2>. QED
      BY <1>2
  <1>4. \A i, j \in 1..Len(s) : i < j => s[i].tag <= s[j].tag
    <2>. DEFINE order == CHOOSE p \in Orders(entries) : TRUE
    <2>1. order \in Orders(entries)
      BY OrderExists
    <2>2. s = [i \in DOMAIN entries |-> entries[order[i]]]
      BY DEF Sorted
    <2>. HIDE DEF order, s
    <2>3. /\ order \in [1..Len(entries) -> 1..Len(entries)] /\ DOMAIN entries = 1..Len(entries)
          /\ \A i, j \in 1..Len(entries) : i < j => ~TagBefore(entries[order[j]], entries[order[i]])
      BY <2>1 DEF Orders
    <2>4. \A i \in 1..Len(s) : s[i] \in Entry
      BY <1>1
    <2>5. \A i \in 1..Len(s) : s[i].tag \in Nat
      BY <2>4, TagsAreNumbers
    <2>6. \A i \in 1..Len(s) : s[i] = entries[order[i]]
      BY <1>1, <2>2, <2>3
    <2>7. \A i, j \in 1..Len(s) : i < j => ~(s[j].tag < s[i].tag)
      BY <1>1, <2>3, <2>6, Zenon DEF TagBefore
    <2>. QED
      BY <2>5, <2>7
  <1>5. Ascending(s)
    <2>. SUFFICES ASSUME NEW i \in 2..Len(s)
                  PROVE  s[i - 1].tag < s[i].tag
      BY DEF Ascending
    <2>1. i - 1 \in 1..Len(s) /\ i \in 1..Len(s) /\ i - 1 < i /\ i > 1
      BY <1>1
    <2>2. s[i - 1].tag <= s[i].tag
      BY <1>4, <2>1
    <2>3. s[i - 1].tag # s[i].tag
      BY <1>1, <1>3, <2>1
    <2>4. s[i - 1].tag \in Nat /\ s[i].tag \in Nat
      <3>. HIDE DEF s
      <3>1. s[i - 1] \in Entry /\ s[i] \in Entry
        BY <1>1, <2>1
      <3>. QED
        BY <3>1, TagsAreNumbers
    <2>. QED
      BY <2>2, <2>3, <2>4
  <1>6. LegalEntries(s)
    BY <1>1, <1>3, <1>5 DEF LegalEntries
  <1>7. /\ EncodeMetadata(entries).region \in Seq(NumCells)
    BY RegionIsNumbers
  <1>. DEFINE W == [t : {"num"}, n : Nat]
  <1>8. EntriesCells(s) \in Seq(Seq(W)) /\ Len(EntriesCells(s)) = Len(s)
        /\ EntriesCells(s)[1] = EntryCells(s[1])
    <2>1. 1 \in 1..Len(s)
      BY <1>1
    <2>. QED
      BY <1>1, <2>1, EntriesAreSeqs
  <1>9. body \in Seq(W)
    BY <1>8, FlattenIsSeq DEF BodyOf
  <1>10. Len(body) \in 1..MaxU32
    <2>1. 1 \in 1..Len(EntriesCells(s)) /\ s[1] \in Entry
      BY <1>1, <1>8
    <2>2. Len(EntriesCells(s)[1]) \in 0..Len(body)
      BY <1>8, <2>1, PartIsShorter DEF BodyOf
    <2>3. Len(EntryCells(s[1])) >= 2
      BY <2>1, EntryLayout
    <2>4. Len(body) \in Nat /\ Len(body) <= MaxU32
      BY <1>3, <1>9
    <2>. QED
      BY <1>8, <2>2, <2>3, <2>4, WidthAssumption
  <1>11. body \in Seq(NumCells)
    <2>. DEFINE first == <<Num(Len(body))>>
                region == EncodeMetadata(entries).region
    <2>1. first \in Seq(W) /\ Len(first) = 1
      BY <1>9 DEF Num
    <2>2. region \in Seq(NumCells) /\ region = first \o body /\ body \in Seq(W)
      BY <1>3, <1>7, <1>9
    <2>. HIDE DEF first, region, body, W
    <2>3. \A i \in 1..Len(body) : body[i] \in NumCells
      <3>. SUFFICES ASSUME NEW i \in 1..Len(body)
                    PROVE  body[i] \in NumCells
        OBVIOUS
      <3>0. Len(region) = Len(first) + Len(body) /\ Len(body) \in Nat
        <4>2. body \in Seq(W) /\ region = first \o body /\ first \in Seq(W)
          BY <2>1, <2>2, Zenon
        <4>1. Len(first \o body) = Len(first) + Len(body)
          BY <4>2, ConcatProperties, Zenon
        <4>. QED
          BY <4>1, <4>2
      <3>1. /\ Len(region) = 1 + Len(body) /\ 1 + i \in 1..Len(region)
            /\ 1 + i \in 1..Len(first) + Len(body) /\ ~(1 + i <= Len(first)) /\ (1 + i) - Len(first) = i
        BY <2>1, <3>0
      <3>2. region[1 + i] = body[i]
        BY <2>1, <2>2, <3>1, ConcatProperties
      <3>. QED
        BY <2>2, <3>1, <3>2
    <2>. QED
      BY <2>2, <2>3, SeqInto
  <1>. QED
    BY <1>3, <1>6, <1>10, <1>11 DEF RegionFor

(* The region of a list of entries, and its list, read back.               *)
ReadBack(region, sorted) ==
  /\ region \in Seq(NumCells) /\ Len(region) \in 2..MaxU32 + 1
  /\ U32(region[1]) = Len(region) - 1
  /\ ParseMetadata(region) = Parsed(sorted)

LEMMA RegionIsRead ==
  ASSUME NEW region, NEW sorted, RegionFor(region, sorted)
  PROVE  ReadBack(region, sorted)
  <1>. DEFINE body == BodyOf(sorted)
              n == Len(body)
              first == <<Num(n)>>
  <1>1. LegalEntries(sorted) /\ body \in Seq(NumCells) /\ n \in 1..MaxU32 /\ region = first \o body
    BY DEF RegionFor
  <1>2. first \in Seq(NumCells) /\ Len(first) = 1 /\ first[1] = Num(n)
    <2>. HIDE DEF n
    <2>1. Num(n) \in NumCells
      BY <1>1, WidthAssumption DEF Num, NumCells
    <2>. QED
      BY <2>1
  <1>. HIDE DEF body, first
  <1>3. n \in Nat /\ n >= 1
    BY <1>1, WidthAssumption
  <1>4. first \o body \in Seq(NumCells) /\ Len(first \o body) = 1 + n
    <2>1. first \o body \in Seq(NumCells) /\ Len(first \o body) = Len(first) + Len(body)
      BY <1>1, <1>2, ConcatProperties
    <2>. QED
      BY <1>2, <2>1
  <1>5. (first \o body)[1] = Num(n)
    <2>1. 1 \in 1..Len(first) + Len(body) /\ 1 <= Len(first)
      BY <1>2, <1>3
    <2>. QED
      BY <1>1, <1>2, <2>1, ConcatProperties
  <1>6. SubSeq(first \o body, 2, 1 + n) = body
    <2>1. <<>> \in Seq(NumCells) /\ (first \o body) \o <<>> = first \o body
      BY <1>4, EmptySeq, ConcatEmptySeq
    <2>2. StandsAt(body, (first \o body) \o <<>>, Len(first))
      BY <1>1, <1>2, <2>1, MiddleStands
    <2>3. StandsAt(body, first \o body, 1)
      BY <1>2, <2>1, <2>2, Zenon
    <2>4. SubSeq(first \o body, 1 + 1, 1 + n) = body
      BY <1>1, <1>4, <2>3, WholeStands
    <2>5. 1 + 1 = 2
      OBVIOUS
    <2>. QED
      BY <2>4, <2>5, Zenon
  <1>. HIDE DEF n
  <1>7. region \in Seq(NumCells) /\ Len(region) = 1 + n /\ region[1] = Num(n) /\ SubSeq(region, 2, 1 + n) = body
    BY <1>1, <1>4, <1>5, <1>6, Zenon
  <1>8. U32(region[1]) = n
    BY <1>7, NumberReads
  <1>9. region # <<>> /\ n # 0 /\ ~(n > Len(region) - 1) /\ Len(region) - 1 = n /\ Len(region) \in 2..MaxU32 + 1
    <2>1. n \in 1..MaxU32
      BY <1>1
    <2>. QED
      BY <1>3, <1>7, <2>1, WidthAssumption
  <1>10. ParseMetadata(region) = ParseFrom(body)[ParsedTo(0, <<>>)]
    BY <1>7, <1>8, <1>9, ParsedByLoop, Zenon
  <1>11. body \in Seq(Cells)
    <2>1. NumCells \subseteq Cells
      BY DEF Cells
    <2>. QED
      BY <1>1, <2>1
  <1>12. ParseFrom(body)[ParsedTo(0, <<>>)] = Parsed(sorted)
    BY <1>1, <1>11, WrittenIsRead DEF body
  <1>. QED
    BY <1>7, <1>8, <1>9, <1>10, <1>12 DEF ReadBack

LEMMA EncodedIsRead ==
  \A entries \in Seq(Entry) :
    EncodeMetadata(entries).ok /\ entries # <<>> =>
      ReadBack(EncodeMetadata(entries).region, Sorted(entries))
  BY EncodedIsLegal, RegionIsRead

(* The order of sorting leaves no entry out.                               *)
LEMMA OrderIsOnto ==
  ASSUME NEW entries, NEW n \in Nat, DOMAIN entries = 1..n, NEW order \in Orders(entries)
  PROVE  \A k \in 1..n : \E i \in 1..n : order[i] = k
  <1>1. /\ order \in [1..n -> 1..n]
        /\ \A i, j \in 1..n : i < j => order[i] # order[j]
    BY DEF Orders
  <1>2. order \in Injection(1..n, 1..n)
    <2>1. \A i, j \in 1..n : order[i] = order[j] => i = j
      <3>. SUFFICES ASSUME NEW i \in 1..n, NEW j \in 1..n, order[i] = order[j], i # j
                    PROVE  FALSE
        OBVIOUS
      <3>1. i < j \/ j < i
        OBVIOUS
      <3>. QED
        BY <1>1, <3>1
    <2>. QED
      BY <1>1, <2>1 DEF Injection, IsInjective
  <1>3. order \in Surjection(1..n, 1..n)
    BY <1>2, FS_Interval, FS_Injection
  <1>. QED
    BY <1>3 DEF Surjection

(* Sorting keeps the entries.                                              *)
LEMMA SortedHasAll ==
  ASSUME NEW entries \in Seq(Entry)
  PROVE  Range(Sorted(entries)) = Range(entries)
  <1>. DEFINE order == CHOOSE p \in Orders(entries) : TRUE
              n == Len(entries)
  <1>1. order \in Orders(entries) /\ n \in Nat /\ DOMAIN entries = 1..n
    BY OrderExists
  <1>2. Sorted(entries) = [i \in DOMAIN entries |-> entries[order[i]]]
    BY DEF Sorted
  <1>. HIDE DEF order, n
  <1>3. order \in [1..n -> 1..n]
    BY <1>1 DEF Orders
  <1>7. \A k \in 1..n : \E i \in 1..n : order[i] = k
    BY <1>1, OrderIsOnto
  <1>8. DOMAIN Sorted(entries) = 1..n /\ \A i \in 1..n : Sorted(entries)[i] = entries[order[i]]
    BY <1>1, <1>2
  <1>9. ASSUME NEW e
        PROVE  e \in Range(Sorted(entries)) <=> e \in Range(entries)
    <2>1. e \in Range(Sorted(entries)) <=> \E i \in 1..n : e = entries[order[i]]
      BY <1>8 DEF Range
    <2>2. e \in Range(entries) <=> \E k \in 1..n : e = entries[k]
      BY <1>1 DEF Range
    <2>. QED
      BY <1>3, <1>7, <2>1, <2>2
  <1>. QED
    BY <1>9

-----------------------------------------------------------------------------
(* The chunks of a text make it up.                                        *)
AdjacentParts(data, m, n) ==
  SubSeq(data, 1, m) \o SubSeq(data, m + 1, n) = SubSeq(data, 1, n)

LEMMA PartsAreAdjacent ==
  ASSUME NEW S, NEW data \in Seq(S), NEW m \in Nat, NEW n \in Nat, m <= n, n <= Len(data)
  PROVE  AdjacentParts(data, m, n)
  <1>1. 1 \in 1..Len(data) + 1 /\ m \in 1 - 1..Len(data) /\ n \in m..Len(data)
    <2>1. Len(data) \in Nat
      OBVIOUS
    <2>. QED
      BY <2>1
  <1>. QED
    BY <1>1, ConcatAdjacentSubSeq DEF AdjacentParts

JoinsTo(chunks, data, k, m) ==
  /\ m \in 0..Len(data) /\ Joined(chunks, k) = SubSeq(data, 1, m)

LEMMA ChunksJoin ==
  \A data \in Seq(NumCells), size \in Nat \ {0} :
    \A k \in 0..Len(ChunksOf(data, size)) :
      JoinsTo(ChunksOf(data, size), data, k, Lesser(k * size, Len(data)))
  <1>. SUFFICES ASSUME NEW data \in Seq(NumCells), NEW size \in Nat \ {0},
                       NEW k \in 0..Len(ChunksOf(data, size))
                PROVE  JoinsTo(ChunksOf(data, size), data, k, Lesser(k * size, Len(data)))
    OBVIOUS
  <1>. DEFINE chunks == ChunksOf(data, size)
              L == Len(data)
              n == Len(chunks)
              Good(i) == JoinsTo(chunks, data, i, Lesser(i * size, L))
              T == {i \in Nat : i <= n /\ ~Good(i)}
  <1>1. CutOf(chunks, data, size) /\ L \in Nat /\ size \in Nat \ {0}
    BY TextIsCut
  <1>. HIDE DEF chunks, L
  <1>2. /\ chunks \in Seq(Seq(NumCells)) /\ n = (L + size - 1) \div size
        /\ \A i \in 1..n : chunks[i] = SubSeq(data, (i - 1) * size + 1,
                                              (i - 1) * size + Lesser(size, L - (i - 1) * size))
    BY <1>1 DEF CutOf, L
  <1>3. n \in Nat
    BY <1>2
  <1>. HIDE DEF n
  <1>4. n * size <= L + size - 1
    BY <1>1, <1>2, DivisionBounds
  <1>5. Good(0)
    <2>1. Joined(chunks, 0) = <<>>
      BY <1>2, JoinedNone
    <2>2. 0 * size = 0
      BY <1>1
    <2>3. Lesser(0, L) = 0
      BY <1>1 DEF Lesser
    <2>4. SubSeq(data, 1, 0) = <<>>
      <3>1. 1 \in Nat /\ 0 \in Nat /\ 1 >= 1 /\ 0 <= Len(data) /\ ~(1 <= 0)
        BY <1>1 DEF L
      <3>2. SubSeq(data, 1, 0) \in Seq(NumCells) /\ Len(SubSeq(data, 1, 0)) = 0
        BY <3>1, PartOf
      <3>. QED
        BY <3>2
    <2>5. Lesser(0 * size, L) = 0 /\ 0 \in 0..L
      BY <1>1, <2>2, <2>3
    <2>. QED
      BY <2>1, <2>4, <2>5, Zenon DEF JoinsTo, L
  <1>6. ASSUME NEW i \in Nat, i < n, Good(i)
        PROVE  Good(i + 1)
    <2>. DEFINE m == i * size
                j == Lesser(size, L - m)
    <2>1. m \in Nat /\ (i + 1) * size = m + size /\ m + size <= n * size
      <3>1. (i + 1) * size = i * size + size /\ i * size \in Nat
        BY <1>1
      <3>2. (i + 1) * size <= n * size
        BY <1>1, <1>3, <1>6
      <3>. QED
        BY <3>1, <3>2
    <2>. HIDE DEF m
    <2>2. m <= L - 1
      <3>1. n * size \in Nat
        BY <1>1, <1>3
      <3>. QED
        BY <1>1, <1>4, <2>1, <3>1
    <2>3. Lesser(m, L) = m /\ j \in Nat /\ m + j <= L /\ Lesser(m + size, L) = m + j
      BY <1>1, <2>1, <2>2 DEF Lesser
    <2>. HIDE DEF j
    <2>4. Joined(chunks, i) = SubSeq(data, 1, m)
      BY <1>6, <2>3, Zenon DEF JoinsTo, m
    <2>5. chunks[i + 1] = SubSeq(data, m + 1, m + j)
      <3>1. i + 1 \in 1..n /\ (i + 1) - 1 = i
        BY <1>3, <1>6
      <3>. QED
        BY <1>2, <3>1, Zenon DEF m, j
    <2>6. Joined(chunks, i + 1) = Joined(chunks, i) \o chunks[i + 1]
      <3>1. i \in 0..Len(chunks) - 1
        BY <1>3, <1>6 DEF n
      <3>. QED
        BY <1>2, <3>1, JoinedNext
    <2>7. AdjacentParts(data, m, m + j)
      <3>1. m \in Nat /\ m + j \in Nat /\ m <= m + j /\ m + j <= Len(data)
        BY <2>1, <2>3 DEF L
      <3>. QED
        BY <3>1, PartsAreAdjacent
    <2>8. Joined(chunks, i + 1) = SubSeq(data, 1, m + j)
      BY <2>4, <2>5, <2>6, <2>7, Zenon DEF AdjacentParts
    <2>9. Lesser((i + 1) * size, L) = m + j /\ m + j \in 0..L
      BY <1>1, <2>1, <2>3
    <2>. QED
      BY <2>8, <2>9, Zenon DEF JoinsTo, L
  <1>7. T = {}
    <2>. SUFFICES ASSUME T # {}
                  PROVE  FALSE
      OBVIOUS
    <2>1. PICK x \in T : \A y \in T : x <= y
      <3>1. T \in SUBSET Nat
        OBVIOUS
      <3>. QED
        BY <3>1, LeastOf
    <2>. HIDE DEF Good
    <2>2. x # 0
      BY <1>5, <2>1
    <2>3. x \in Nat /\ x - 1 \in Nat /\ x - 1 < n /\ (x - 1) + 1 = x /\ ~Good(x)
          /\ x - 1 \notin T /\ x - 1 <= n
      BY <1>3, <2>1, <2>2
    <2>4. Good(x - 1)
      BY <2>3
    <2>5. Good((x - 1) + 1)
      BY <1>6, <2>3, <2>4
    <2>. QED
      BY <2>3, <2>5
  <1>8. Good(k)
    <2>. HIDE DEF Good
    <2>1. k \in Nat /\ k <= n
      BY <1>3 DEF n, chunks
    <2>. QED
      BY <1>7, <2>1
  <1>. QED
    BY <1>8, Zenon DEF chunks, L

LEMMA ChunksAreText ==
  ASSUME NEW data \in Seq(NumCells), NEW size \in Nat \ {0}
  PROVE  Joined(ChunksOf(data, size), Len(ChunksOf(data, size))) = data
  <1>. DEFINE n == Len(ChunksOf(data, size))
              L == Len(data)
  <1>1. L \in Nat /\ n = (L + size - 1) \div size /\ n \in Nat
    BY TextIsCut DEF CutOf
  <1>2. L + size - 1 < n * size + size
    BY <1>1, DivisionBounds
  <1>3. n * size \in Nat
    BY <1>1
  <1>4. Lesser(n * size, L) = L
    <2>. HIDE DEF n, L
    <2>. QED
      BY <1>1, <1>2, <1>3 DEF Lesser
  <1>5. JoinsTo(ChunksOf(data, size), data, n, Lesser(n * size, L))
    <2>1. n \in 0..n
      <3>. HIDE DEF n
      <3>. QED
        BY <1>1
    <2>. QED
      BY <2>1, ChunksJoin, Zenon
  <1>6. SubSeq(data, 1, L) = data
    OBVIOUS
  <1>. QED
    BY <1>4, <1>5, <1>6, Zenon DEF JoinsTo

-----------------------------------------------------------------------------
(* What is sealed opens, under the same key and bindings, to what it was.  *)
OpensTo(key, base, header, digest, index, body, plain) ==
  /\ Opens(key, base, header, digest, index, body)
  /\ openChunk(body) = plain
  /\ Len(body) = Len(plain) + TagLen

LEMMA SealOpens ==
  \A key \in Seq(Nat), base \in Nat, header \in HeaderCells, digest \in Seq(NumCells),
     index \in Nat, plain \in Seq(NumCells) :
    OpensTo(key, base, header, digest, index,
            sealChunk(key, base, header, digest, index, plain), plain)
  <1>. SUFFICES ASSUME NEW key \in Seq(Nat), NEW base \in Nat, NEW header \in HeaderCells,
                       NEW digest \in Seq(NumCells), NEW index \in Nat, NEW plain \in Seq(NumCells)
                PROVE  OpensTo(key, base, header, digest, index,
                               sealChunk(key, base, header, digest, index, plain), plain)
    OBVIOUS
  <1>. DEFINE nonce == chunkNonce(base, index)
              ct == [i \in DOMAIN plain |-> CtCell(key, nonce, plain[i].n)]
              tag == TagCell(key, nonce, chunkAAD(header, digest, index), ct)
              body == Append(ct, tag)
              S == {ct[i] : i \in DOMAIN ct} \cup {tag}
  <1>1. sealChunk(key, base, header, digest, index, plain) = body
    BY DEF sealChunk
  <1>2. /\ Len(plain) \in Nat /\ DOMAIN plain = 1..Len(plain)
        /\ \A i \in 1..Len(plain) : plain[i] \in NumCells
    OBVIOUS
  <1>3. ct \in Seq(S) /\ Len(ct) = Len(plain)
        /\ \A i \in 1..Len(plain) : ct[i] = CtCell(key, nonce, plain[i].n)
    <2>1. DOMAIN ct = 1..Len(plain)
      BY <1>2
    <2>2. \A i \in 1..Len(plain) : ct[i] \in S
      BY <2>1
    <2>3. ct = [i \in 1..Len(plain) |-> ct[i]]
      BY <2>1
    <2>4. \A i \in 1..Len(plain) : ct[i] = CtCell(key, nonce, plain[i].n)
      BY <1>2
    <2>. HIDE DEF ct, S
    <2>5. ct \in [1..Len(plain) -> S]
      BY <2>2, <2>3
    <2>. QED
      BY <1>2, <2>4, <2>5
  <1>4. tag \in S
    OBVIOUS
  <1>. HIDE DEF ct, tag, S
  <1>5. /\ body \in Seq(S) /\ Len(body) = Len(plain) + 1
        /\ \A i \in 1..Len(plain) : body[i] = ct[i]
        /\ body[Len(plain) + 1] = tag
    BY <1>2, <1>3, <1>4, AppendProperties
  <1>6. Front(body) = ct
    <2>. HIDE DEF body
    <2>1. Front(body) = SubSeq(body, 1, Len(plain))
      BY <1>2, <1>5 DEF Front
    <2>2. 1 \in Nat /\ 1 >= 1 /\ Len(plain) <= Len(body) /\ Len(plain) - 1 + 1 = Len(plain)
          /\ \A i \in 1..Len(plain) : 1 + i - 1 = i
      BY <1>2, <1>5
    <2>3. /\ SubSeq(body, 1, Len(plain)) \in Seq(S) /\ Len(SubSeq(body, 1, Len(plain))) = Len(plain)
          /\ \A i \in 1..Len(plain) : SubSeq(body, 1, Len(plain))[i] = body[i]
      <3>1. /\ SubSeq(body, 1, Len(plain)) \in Seq(S)
            /\ Len(SubSeq(body, 1, Len(plain))) = IF 1 <= Len(plain) THEN Len(plain) - 1 + 1 ELSE 0
            /\ \A i \in 1..Len(plain) - 1 + 1 : SubSeq(body, 1, Len(plain))[i] = body[1 + i - 1]
        BY <1>2, <1>5, <2>2, PartOf
      <3>. QED
        BY <1>2, <2>2, <3>1
    <2>. QED
      BY <1>3, <1>5, <2>1, <2>3, SeqsAreEqual
  <1>7. Last(body) = tag
    BY <1>5 DEF Last
  <1>. HIDE DEF body
  <1>8. Len(body) >= TagLen /\ Len(body) - TagLen = Len(plain)
    BY <1>2, <1>5 DEF TagLen
  <1>9. Opens(key, base, header, digest, index, body)
    BY <1>6, <1>7, <1>8 DEF Opens, tag, nonce
  <1>10. openChunk(body) = plain
    <2>1. openChunk(body) = [i \in 1..Len(plain) |-> decrypt(body[i])]
      BY <1>8 DEF openChunk
    <2>2. ASSUME NEW i \in 1..Len(plain)
          PROVE  decrypt(body[i]) = plain[i]
      <3>1. body[i] = CtCell(key, nonce, plain[i].n)
        BY <1>3, <1>5
      <3>2. decrypt(CtCell(key, nonce, plain[i].n)) = Num(plain[i].n)
        BY DEF decrypt, CtCell
      <3>3. Num(plain[i].n) = plain[i]
        BY <1>2 DEF Num, NumCells
      <3>. QED
        BY <3>1, <3>2, <3>3
    <2>3. plain = [i \in 1..Len(plain) |-> plain[i]]
      OBVIOUS
    <2>. QED
      BY <2>1, <2>2, <2>3
  <1>. QED
    BY <1>1, <1>5, <1>9, <1>10 DEF OpensTo, TagLen

-----------------------------------------------------------------------------
(* A framed body is read back.                                             *)
FrameAt(whole, at, body) ==
  /\ at \in Nat /\ at + 1 + Len(body) \in 0..Len(whole)
  /\ U32(whole[at + 1]) = Len(body)
  /\ SubSeq(whole, at + 2, at + 1 + Len(body)) = body

LEMMA FrameIsRead ==
  ASSUME NEW whole \in Seq(Cells), NEW body \in Seq(BodyCells), Len(body) <= MaxU32,
         NEW at, StandsAt(Framed(body), whole, at)
  PROVE  FrameAt(whole, at, body)
  <1>. DEFINE first == <<Num(Len(body))>>
              n == Len(body)
              frame == first \o body
  <1>1. Framed(body) = frame /\ n \in Nat
    BY DEF Framed
  <1>2. body \in Seq(Cells)
    <2>1. BodyCells \subseteq Cells
      BY DEF BodyCells, Cells
    <2>. QED
      BY <2>1
  <1>3. first \in Seq(Cells) /\ Len(first) = 1 /\ first[1] = Num(n)
    <2>1. Num(n) \in Cells
      <3>. HIDE DEF n
      <3>1. n \in 0..MaxU32
        BY <1>1, WidthAssumption DEF n
      <3>. QED
        BY <3>1 DEF Num, NumCells, Cells
    <2>. HIDE DEF n
    <2>. QED
      BY <2>1 DEF n
  <1>. HIDE DEF first
  <1>4. frame \in Seq(Cells) /\ Len(frame) = 1 + n /\ frame[1] = Num(n)
    <2>1. 1 \in 1..Len(first) + Len(body) /\ 1 <= Len(first)
      BY <1>1, <1>3
    <2>2. frame \in Seq(Cells) /\ Len(frame) = Len(first) + Len(body) /\ frame[1] = first[1]
      BY <1>2, <1>3, <2>1, ConcatProperties
    <2>. QED
      BY <1>3, <2>2
  <1>5. SubSeq(frame, 1 + 1, 1 + n) = body
    <2>1. <<>> \in Seq(Cells) /\ frame \o <<>> = frame
      BY <1>4, EmptySeq, ConcatEmptySeq
    <2>2. StandsAt(body, (first \o body) \o <<>>, Len(first))
      BY <1>2, <1>3, <2>1, MiddleStands
    <2>3. StandsAt(body, frame, 1)
      BY <1>3, <2>1, <2>2, Zenon
    <2>. QED
      BY <1>2, <1>4, <2>3, WholeStands
  <1>. HIDE DEF frame
  <1>6. /\ at \in Nat /\ at + Len(frame) \in 0..Len(whole)
        /\ \A i \in 1..Len(frame) : whole[at + i] = frame[i]
    BY <1>1 DEF StandsAt
  <1>7. whole[at + 1] = Num(n)
    <2>1. 1 \in 1..Len(frame)
      BY <1>1, <1>4
    <2>. QED
      BY <1>4, <1>6, <2>1
  <1>8. SubSeq(whole, at + 1 + 1, at + (1 + n)) = SubSeq(frame, 1 + 1, 1 + n)
    <2>1. 1 \in Nat /\ 1 + n \in 1..Len(frame)
      BY <1>1, <1>4
    <2>2. StandsAt(frame, whole, at)
      BY <1>1
    <2>3. SamePart(frame, whole, at, 1, 1 + n)
      BY <1>4, <2>1, <2>2, PartStands
    <2>. QED
      BY <2>3, Zenon DEF SamePart
  <1>9. at + 1 + 1 = at + 2 /\ at + (1 + n) = at + 1 + n /\ at + Len(frame) = at + 1 + n
    BY <1>1, <1>4, <1>6
  <1>10. U32(whole[at + 1]) = n
    BY <1>7, NumberReads
  <1>11. SubSeq(whole, at + 2, at + 1 + n) = body
    BY <1>5, <1>8, <1>9, Zenon
  <1>12. at + 1 + n \in 0..Len(whole)
    BY <1>6, <1>9, Zenon
  <1>. QED
    BY <1>6, <1>10, <1>11, <1>12, Zenon DEF FrameAt

-----------------------------------------------------------------------------
(* A container as an encoder makes it of `data`, `bodies` being its chunks *)
(* as they are written and `sorted` the metadata in it.                    *)
AreBodies(key, header, meta, chunks, bodies) ==
  /\ bodies \in Seq(Seq(BodyCells)) /\ Len(bodies) = Len(chunks)
  /\ \A i \in 1..Len(bodies) :
       /\ Len(bodies[i]) <= MaxU32
       /\ IF header.h.encrypted
          THEN OpensTo(key, header.h.baseNonce, header, meta, i - 1, bodies[i], chunks[i])
          ELSE bodies[i] = chunks[i]

Describes(header, key, meta, data, bodies) ==
  /\ header \in HeaderCells /\ ParseHeader(header) = NoError
  /\ header.h.hasMetadata = (meta # <<>>)
  /\ header.h.chunkCount = Len(bodies) /\ header.h.totalSize = Len(data)
  /\ header.h.encrypted => Len(key) = KeyLen

RootKeyOf(key, header) ==
  IF header.h.encrypted THEN rootKey(key, header.h.baseNonce) ELSE NoKey

Honest(container, key, header, meta, sorted, data, size, bodies) ==
  /\ Describes(header, key, meta, data, bodies)
  /\ key \in Seq(Nat) /\ data \in Seq(NumCells) /\ size \in Nat \ {0}
  /\ meta \in Seq(NumCells) /\ (meta # <<>> => ReadBack(meta, sorted))
  /\ AreBodies(key, header, meta, ChunksOf(data, size), bodies)
  /\ container = Container(RootKeyOf(key, header), header, meta, bodies)

Laid(container, header, meta, sorted) ==
  /\ container \in Seq(Cells) /\ container # <<>> /\ container[1] = header
  /\ MetaEnd(container) = 1 + Len(meta) /\ RegionOf(container) = meta
  /\ 1 + Len(meta) \in 0..Len(container)
  /\ meta # <<>> => parse_metadata(container, MaxU32) = Parsed(sorted)

LEMMA RootKeyFits ==
  ASSUME NEW key \in Seq(Nat), NEW header \in HeaderCells
  PROVE  RootKeyOf(key, header) \in {NoKey} \cup (Seq(Nat) \X Nat)
  <1>1. header.h.baseNonce \in Nat
    BY DEF HeaderCells, Header
  <1>. QED
    BY <1>1 DEF RootKeyOf, rootKey

LEMMA HonestIsLaid ==
  ASSUME NEW container, NEW key, NEW header, NEW meta, NEW sorted, NEW data, NEW size, NEW bodies,
         Honest(container, key, header, meta, sorted, data, size, bodies)
  PROVE  Laid(container, header, meta, sorted)
  <1>1. /\ header \in HeaderCells /\ header.h.hasMetadata = (meta # <<>>)
        /\ meta \in Seq(NumCells) /\ (meta # <<>> => ReadBack(meta, sorted))
        /\ bodies \in Seq(Seq(BodyCells)) /\ \A i \in 1..Len(bodies) : Len(bodies[i]) <= MaxU32
        /\ container = Container(RootKeyOf(key, header), header, meta, bodies)
        /\ RootKeyOf(key, header) \in {NoKey} \cup (Seq(Nat) \X Nat)
    BY RootKeyFits DEF Honest, Describes, AreBodies
  <1>2. container \in Seq(Cells)
    BY <1>1, ContainerIsWritten
  <1>. DEFINE first == <<header>>
              n == Len(meta)
  <1>3. PICK rest \in Seq(Cells) : container = (first \o meta) \o rest
    <2>1. 0 \in 0..Len(bodies)
      <3>1. Len(bodies) \in Nat
        BY <1>1
      <3>. QED
        BY <3>1
    <2>2. Begins(Written(header, meta, bodies, 0), Container(RootKeyOf(key, header), header, meta, bodies), Cells)
      BY <1>1, <2>1, WrittenBegins
    <2>3. Written(header, meta, bodies, 0) = <<header>> \o meta
      BY <1>1, NothingWritten
    <2>. QED
      BY <1>1, <2>2, <2>3, Zenon DEF Begins
  <1>4. first \in Seq(Cells) /\ meta \in Seq(Cells) /\ first \o meta \in Seq(Cells)
    BY <1>1, PrologueIsCells
  <1>5. Len(first) = 1 /\ first[1] = header /\ n \in Nat
    BY <1>1
  <1>. HIDE DEF first
  <1>6. StandsAt(meta, container, 1)
    BY <1>3, <1>4, <1>5, MiddleStands, Zenon
  <1>7. 1 + n \in 0..Len(container) /\ \A i \in 1..n : container[1 + i] = meta[i]
    BY <1>6, Zenon DEF StandsAt
  <1>8. SubSeq(container, 1 + 1, 1 + n) = meta
    BY <1>2, <1>4, <1>6, WholeStands
  <1>9. container[1] = header /\ container # <<>>
    <2>1. Len(first \o meta) = 1 + n /\ (first \o meta)[1] = first[1]
      <3>1. 1 \in 1..Len(first) + Len(meta) /\ 1 <= Len(first)
        BY <1>5
      <3>2. /\ Len(first \o meta) = Len(first) + Len(meta)
            /\ \A i \in 1..Len(first) + Len(meta) :
                 (first \o meta)[i] = IF i <= Len(first) THEN first[i] ELSE meta[i - Len(first)]
        BY <1>4, ConcatProperties, Zenon
      <3>. QED
        BY <1>5, <3>1, <3>2
    <2>2. 1 \in 1..Len(first \o meta) + Len(rest) /\ 1 <= Len(first \o meta)
      BY <1>3, <1>5, <2>1
    <2>3. container[1] = (first \o meta)[1]
      BY <1>3, <1>4, <2>2, ConcatProperties
    <2>4. Len(container) >= 1
      BY <1>2, <1>5, <1>7
    <2>. QED
      BY <1>2, <1>5, <2>1, <2>3, <2>4
  <1>10. 1 + 1 = 2
    OBVIOUS
  <1>11. ASSUME meta # <<>>
         PROVE  U32(container[2]) = n - 1 /\ n \in 2..MaxU32 + 1 /\ ParseMetadata(meta) = Parsed(sorted)
    <2>1. n \in 2..MaxU32 + 1 /\ U32(meta[1]) = n - 1 /\ ParseMetadata(meta) = Parsed(sorted)
      BY <1>1, <1>11 DEF ReadBack
    <2>2. 1 \in 1..n
      BY <1>5, <2>1, WidthAssumption
    <2>3. container[1 + 1] = meta[1]
      BY <1>7, <2>2, Zenon
    <2>. QED
      BY <1>10, <2>1, <2>3, Zenon
  <1>. HIDE DEF n
  <1>12. MetaEnd(container) = 1 + n
    <2>1. CASE meta = <<>>
      <3>1. n = 0
        BY <2>1 DEF n
      <3>2. MetaEnd(container) = 1
        BY <1>1, <1>9, <2>1 DEF MetaEnd
      <3>. QED
        BY <3>1, <3>2
    <2>2. CASE meta # <<>>
      <3>1. MetaEnd(container) = 2 + U32(container[2])
        BY <1>1, <1>9, <2>2 DEF MetaEnd
      <3>. QED
        BY <1>5, <1>11, <2>2, <3>1
    <2>. QED
      BY <2>1, <2>2
  <1>13. RegionOf(container) = meta
    BY <1>8, <1>10, <1>12, Zenon DEF RegionOf
  <1>14. ASSUME meta # <<>>
         PROVE  parse_metadata(container, MaxU32) = Parsed(sorted)
    <2>. DEFINE m == U32(container[2])
    <2>1. m = n - 1 /\ n \in 2..MaxU32 + 1 /\ ParseMetadata(meta) = Parsed(sorted)
      BY <1>11, <1>14
    <2>. HIDE DEF m
    <2>2. Len(container) \in Nat /\ 1 + n <= Len(container)
      BY <1>2, <1>7
    <2>3. 2 + m = 1 + n /\ m # 0 /\ ~(m > MaxU32) /\ ~(Len(container) < 2) /\ ~(m > Len(container) - 2)
      BY <1>5, <2>1, <2>2, WidthAssumption
    <2>4. SubSeq(container, 2, 2 + m) = meta
      BY <1>8, <1>10, <2>3, Zenon
    <2>5. parse_metadata(container, MaxU32)
            = IF Len(container) < 2 THEN Malformed
              ELSE IF m = 0 \/ m > MaxU32 \/ m > Len(container) - 2 THEN Malformed
              ELSE ParseMetadata(SubSeq(container, 2, 2 + m))
      BY Zenon DEF parse_metadata, m
    <2>. QED
      BY <2>1, <2>3, <2>4, <2>5, Zenon
  <1>. QED
    BY <1>2, <1>7, <1>9, <1>12, <1>13, <1>14, Zenon DEF Laid, n

(* Every body stands in its frame after the ones before it.                *)
LEMMA HonestIsFramed ==
  ASSUME NEW container, NEW key, NEW header, NEW meta, NEW sorted, NEW data, NEW size, NEW bodies,
         Honest(container, key, header, meta, sorted, data, size, bodies),
         NEW k \in 0..Len(bodies) - 1
  PROVE  FrameAt(container, Len(Written(header, meta, bodies, k)), bodies[k + 1])
  <1>1. /\ header \in HeaderCells /\ meta \in Seq(NumCells)
        /\ bodies \in Seq(Seq(BodyCells)) /\ \A i \in 1..Len(bodies) : Len(bodies[i]) <= MaxU32
        /\ container = Container(RootKeyOf(key, header), header, meta, bodies)
        /\ RootKeyOf(key, header) \in {NoKey} \cup (Seq(Nat) \X Nat)
    BY RootKeyFits DEF Honest, Describes, AreBodies
  <1>2. k + 1 \in 1..Len(bodies) /\ k \in 0..Len(bodies) /\ k + 1 \in 0..Len(bodies)
    <2>1. Len(bodies) \in Nat
      BY <1>1
    <2>. QED
      BY <2>1
  <1>3. bodies[k + 1] \in Seq(BodyCells) /\ Len(bodies[k + 1]) <= MaxU32
    BY <1>1, <1>2
  <1>4. container \in Seq(Cells)
    BY <1>1, ContainerIsWritten
  <1>. DEFINE w(i) == Written(header, meta, bodies, i)
              f == Framed(bodies[k + 1])
  <1>5. w(k) \in Seq(Cells) /\ w(k + 1) = w(k) \o f /\ f \in Seq(Cells)
    <2>1. w(k) \in Seq(Cells)
      BY <1>1, <1>2, WrittenIsCells
    <2>2. w(k + 1) = w(k) \o f /\ f \in Seq(Cells)
      BY <1>1, ChunkWritten
    <2>. QED
      BY <2>1, <2>2
  <1>6. PICK rest \in Seq(Cells) : container = w(k + 1) \o rest
    <2>1. Begins(w(k + 1), Container(RootKeyOf(key, header), header, meta, bodies), Cells)
      BY <1>1, <1>2, WrittenBegins
    <2>. QED
      BY <1>1, <2>1, Zenon DEF Begins
  <1>7. StandsAt(f, container, Len(w(k)))
    <2>. HIDE DEF w, f
    <2>1. StandsAt(f, (w(k) \o f) \o rest, Len(w(k)))
      BY <1>5, <1>6, MiddleStands
    <2>. QED
      BY <1>5, <1>6, <2>1, Zenon
  <1>. QED
    BY <1>3, <1>4, <1>7, FrameIsRead

(* Caps that are none.                                                     *)
AmpleCaps(caps) ==
  /\ caps.maxMetaBytes = MaxU32 /\ caps.maxChunkLen = MaxU32
  /\ caps.maxChunkCount = MaxU64 /\ caps.maxTotalSize = MaxU64

(* What its loop has after k chunks of an honest container.                *)
Stage(header, meta, data, size, bodies, k) ==
  [err |-> NoError, offset |-> Len(Written(header, meta, bodies, k)),
   plain |-> Joined(ChunksOf(data, size), k), leaves |-> Upto(Leaves(bodies), k), inBody |-> FALSE]

LEMMA HonestChunkIsRead ==
  ASSUME NEW container, NEW key, NEW header, NEW meta, NEW sorted, NEW data, NEW size, NEW bodies,
         Honest(container, key, header, meta, sorted, data, size, bodies),
         NEW caps, AmpleCaps(caps), NEW k \in 0..Len(bodies) - 1,
         TurnShape(container, Stage(header, meta, data, size, bodies, k))
  PROVE  Turn(container, key, caps, Stage(header, meta, data, size, bodies, k), k)
           = Stage(header, meta, data, size, bodies, k + 1)
  <1>. DEFINE s == Stage(header, meta, data, size, bodies, k)
              o == Len(Written(header, meta, bodies, k))
              chunks == ChunksOf(data, size)
              body == bodies[k + 1]
              chunk == chunks[k + 1]
              got == Len(Joined(chunks, k))
  <1>1. /\ header \in HeaderCells /\ meta \in Seq(NumCells)
        /\ bodies \in Seq(Seq(BodyCells)) /\ \A i \in 1..Len(bodies) : Len(bodies[i]) <= MaxU32
        /\ Len(bodies) = Len(chunks) /\ data \in Seq(NumCells) /\ size \in Nat \ {0}
        /\ header.h.totalSize = Len(data) /\ Len(bodies) \in Nat
    <2>1. bodies \in Seq(Seq(BodyCells))
      BY DEF Honest, AreBodies
    <2>2. Len(bodies) \in Nat
      BY <2>1
    <2>. QED
      BY <2>2, Zenon DEF Honest, Describes, AreBodies
  <1>2. k \in Nat /\ k + 1 \in 1..Len(bodies) /\ k \in 0..Len(bodies) /\ k + 1 \in 0..Len(bodies) /\ (k + 1) - 1 = k
    BY <1>1
  <1>3. /\ Len(body) <= MaxU32
        /\ IF header.h.encrypted
           THEN OpensTo(key, header.h.baseNonce, header, meta, k, body, chunk)
           ELSE body = chunk
    BY <1>2, Zenon DEF Honest, AreBodies
  <1>4. Laid(container, header, meta, sorted)
    BY HonestIsLaid
  <1>5. FrameAt(container, o, body)
    BY HonestIsFramed
  <1>6. /\ chunks \in Seq(Seq(NumCells)) /\ Joined(chunks, k) \in Seq(NumCells)
        /\ Joined(chunks, k + 1) = Joined(chunks, k) \o chunk
        /\ got + Len(chunk) <= Len(data) /\ got \in Nat /\ Len(chunk) \in Nat
        /\ chunk \in Seq(NumCells)
    <2>1. CutOf(chunks, data, size)
      BY <1>1, TextIsCut
    <2>2. chunks \in Seq(Seq(NumCells))
      BY <2>1 DEF CutOf
    <2>3. k \in 0..Len(chunks) - 1 /\ k \in 0..Len(chunks) /\ k + 1 \in 0..Len(chunks) /\ k + 1 \in 1..Len(chunks)
      BY <1>1, <1>2, Zenon
    <2>4. JoinsTo(chunks, data, k + 1, Lesser((k + 1) * size, Len(data)))
      BY <1>1, <2>3, ChunksJoin, Zenon
    <2>. HIDE DEF chunks
    <2>5. Joined(chunks, k) \in Seq(NumCells) /\ Joined(chunks, k + 1) = Joined(chunks, k) \o chunk
          /\ chunk \in Seq(NumCells)
      BY <2>2, <2>3, JoinedIsSeq, JoinedNext
    <2>6. Len(Joined(chunks, k + 1)) <= Len(data)
      <3>. DEFINE m == Lesser((k + 1) * size, Len(data))
      <3>1. m \in 0..Len(data) /\ Joined(chunks, k + 1) = SubSeq(data, 1, m)
        BY <2>4, Zenon DEF JoinsTo
      <3>. HIDE DEF m
      <3>2. Len(data) \in Nat /\ m \in Nat /\ m <= Len(data)
        BY <1>1, <3>1
      <3>3. Len(SubSeq(data, 1, m)) = m
        BY <1>1, <3>1, PartsJoin
      <3>. QED
        BY <3>1, <3>2, <3>3
    <2>7. Len(Joined(chunks, k) \o chunk) = got + Len(chunk) /\ got \in Nat /\ Len(chunk) \in Nat
      BY <2>5, ConcatProperties
    <2>. QED
      BY <2>2, <2>5, <2>6, <2>7
  <1>7. s.err = NoError /\ s.offset = o /\ s.plain = Joined(chunks, k) /\ s.leaves = Upto(Leaves(bodies), k)
        /\ s.inBody = FALSE
    BY DEF Stage
  <1>. HIDE DEF s, chunks, chunk, body, got, o
  <1>8. /\ container \in Seq(Cells) /\ container[1] = header /\ RegionOf(container) = meta
    BY <1>4 DEF Laid
  <1>9. /\ o \in Nat /\ o + 1 + Len(body) \in 0..Len(container) /\ U32(container[o + 1]) = Len(body)
        /\ SubSeq(container, o + 2, o + 1 + Len(body)) = body
    BY <1>5, Zenon DEF FrameAt
  <1>10. body \in Seq(BodyCells) /\ Len(body) \in Nat
    BY <1>1, <1>2 DEF body
  <1>11. Len(container) \in Nat /\ ~(Len(container) - o < 1) /\ ~(Len(body) > Len(container) - o - 1)
         /\ ~(Len(body) > caps.maxChunkLen) /\ o + 1 + Len(body) = o + 1 + Len(body)
    <2>1. caps.maxChunkLen = MaxU32
      BY DEF AmpleCaps
    <2>2. Len(container) \in Nat
      BY <1>8
    <2>. QED
      BY <1>3, <1>9, <1>10, <2>1, <2>2, WidthAssumption
  <1>12. Len(body) - (IF header.h.encrypted THEN TagLen ELSE 0) = Len(chunk)
    <2>1. CASE header.h.encrypted
      <3>1. Len(body) = Len(chunk) + TagLen
        BY <1>3, <2>1 DEF OpensTo
      <3>. QED
        BY <1>6, <2>1, <3>1 DEF TagLen
    <2>2. CASE ~header.h.encrypted
      <3>1. body = chunk
        BY <1>3, <2>2
      <3>. QED
        BY <1>10, <2>2, <3>1
    <2>. QED
      BY <2>1, <2>2
  <1>13. ~(got + Len(body) - (IF header.h.encrypted THEN TagLen ELSE 0) > header.h.totalSize)
    <2>. DEFINE t == IF header.h.encrypted THEN TagLen ELSE 0
    <2>1. t \in Nat
      BY DEF TagLen
    <2>2. Len(body) - t = Len(chunk)
      BY <1>12
    <2>. HIDE DEF t
    <2>3. Len(data) \in Nat
      <3>1. data \in Seq(NumCells)
        BY <1>1, Zenon
      <3>. QED
        BY <3>1
    <2>4. ~(got + Len(body) - t > Len(data))
      <3>1. got \in Nat /\ Len(chunk) \in Nat /\ got + Len(chunk) <= Len(data) /\ Len(body) \in Nat
        BY <1>6, <1>10, Zenon
      <3>2. got + Len(body) - t = got + (Len(body) - t)
        BY <2>1, <3>1
      <3>. QED
        BY <2>2, <2>3, <3>1, <3>2
    <2>5. header.h.totalSize = Len(data)
      BY <1>1, Zenon
    <2>6. ~(got + Len(body) - t > header.h.totalSize)
      BY <2>4, <2>5, Zenon
    <2>. QED
      BY <2>6 DEF t
  <1>14. header.h.encrypted => Opens(key, header.h.baseNonce, header, meta, k, body)
    BY <1>3, Zenon DEF OpensTo
  <1>15. ChunkError(container, key, caps, k, o, got) = NoError
    <2>1. ChunkError(container, key, caps, k, o, got)
            = IF Len(container) - o < 1 THEN Truncated
              ELSE IF Len(body) > caps.maxChunkLen \/ Len(body) > Len(container) - o - 1 THEN Truncated
              ELSE IF /\ header.h.encrypted
                      /\ ~Opens(key, header.h.baseNonce, header, meta, k, body)
              THEN ChunkAuth
              ELSE IF got + Len(body) - (IF header.h.encrypted THEN TagLen ELSE 0) > header.h.totalSize
              THEN RootMismatch
              ELSE NoError
      BY <1>8, <1>9, Zenon DEF ChunkError
    <2>. QED
      BY <1>11, <1>13, <1>14, <2>1, Zenon
  <1>16. TakesChunk(container, key, caps, k, s)
    <2>1. ChunkError(container, key, caps, k, s.offset, Len(s.plain)) = NoError
      BY <1>7, <1>15, Zenon DEF got
    <2>2. TurnShape(container, s)
      BY DEF s
    <2>. QED
      BY <1>7, <1>8, <2>1, <2>2, GoodTurn
  <1>17. TurnBody(container, o) = body
    BY <1>9, Zenon DEF TurnBody
  <1>18. TurnOpened(container, o) = chunk
    <2>1. CASE header.h.encrypted
      BY <1>3, <1>8, <1>17, <2>1, Zenon DEF TurnOpened, OpensTo
    <2>2. CASE ~header.h.encrypted
      BY <1>3, <1>8, <1>17, <2>2, Zenon DEF TurnOpened
    <2>. QED
      BY <2>1, <2>2
  <1>19. Turn(container, key, caps, s, k)
           = [err |-> NoError, offset |-> o + 1 + Len(body), plain |-> Joined(chunks, k) \o chunk,
              leaves |-> Append(Upto(Leaves(bodies), k), Leaf(body)), inBody |-> FALSE]
    <2>1. Turn(container, key, caps, s, k)
           = [err |-> NoError, offset |-> s.offset + 1 + U32(container[s.offset + 1]),
              plain |-> s.plain \o TurnOpened(container, s.offset),
              leaves |-> Append(s.leaves, Leaf(TurnBody(container, s.offset))), inBody |-> s.inBody]
      BY <1>16, Zenon DEF TakesChunk
    <2>. QED
      BY <1>7, <1>9, <1>17, <1>18, <2>1, Zenon
  <1>20. Len(Written(header, meta, bodies, k + 1)) = o + 1 + Len(body)
    <2>. DEFINE w == Written(header, meta, bodies, k)
                f == Framed(body)
    <2>1. w \in Seq(Cells) /\ Written(header, meta, bodies, k + 1) = w \o f /\ f \in Seq(Cells)
      <3>1. w \in Seq(Cells)
        BY <1>1, <1>2, WrittenIsCells
      <3>2. /\ Written(header, meta, bodies, k + 1) = w \o f /\ f \in Seq(Cells)
        BY <1>1, ChunkWritten DEF body
      <3>. QED
        BY <3>1, <3>2
    <2>2. Len(f) = 1 + Len(body)
      <3>1. <<Num(Len(body))>> \in Seq({Num(Len(body))} \cup BodyCells) /\ Len(<<Num(Len(body))>>) = 1
            /\ body \in Seq({Num(Len(body))} \cup BodyCells)
        <4>. DEFINE c == Num(Len(body))
        <4>. HIDE DEF c
        <4>1. <<c>> \in Seq({c} \cup BodyCells) /\ Len(<<c>>) = 1 /\ body \in Seq({c} \cup BodyCells)
          BY <1>10
        <4>. QED
          BY <4>1 DEF c
      <3>. QED
        BY <3>1, ConcatProperties DEF Framed
    <2>. HIDE DEF w, f
    <2>3. Len(w \o f) = Len(w) + Len(f) /\ Len(w) \in Nat
      BY <2>1, ConcatProperties
    <2>. QED
      BY <1>9, <1>10, <2>1, <2>2, <2>3 DEF o, w
  <1>21. Append(Upto(Leaves(bodies), k), Leaf(body)) = Upto(Leaves(bodies), k + 1)
    <2>. DEFINE leaves == Leaves(bodies)
                a == Append(Upto(leaves, k), Leaf(body))
    <2>1. leaves \in Seq(LeafCells) /\ Len(leaves) = Len(bodies) /\ leaves[k + 1] = Leaf(body)
      BY <1>1, <1>2, LeavesAreSeq DEF body
    <2>2. leaves[k + 1] \in LeafCells
      BY <1>2, <2>1
    <2>. HIDE DEF leaves
    <2>3. /\ Upto(leaves, k) \in Seq(LeafCells) /\ Len(Upto(leaves, k)) = k
          /\ \A i \in 1..k : Upto(leaves, k)[i] = leaves[i]
      BY <1>2, <2>1, UptoIsSeq
    <2>4. /\ Upto(leaves, k + 1) \in Seq(LeafCells) /\ Len(Upto(leaves, k + 1)) = k + 1
          /\ \A i \in 1..k + 1 : Upto(leaves, k + 1)[i] = leaves[i]
      BY <1>2, <2>1, UptoIsSeq
    <2>5. /\ a \in Seq(LeafCells) /\ Len(a) = k + 1
          /\ \A i \in 1..k + 1 : a[i] = IF i <= k THEN Upto(leaves, k)[i] ELSE leaves[k + 1]
      BY <1>2, <2>1, <2>2, <2>3, AppendProperties
    <2>6. \A i \in 1..k + 1 : a[i] = leaves[i]
      <3>. SUFFICES ASSUME NEW i \in 1..k + 1
                    PROVE  a[i] = leaves[i]
        OBVIOUS
      <3>. HIDE DEF a
      <3>1. CASE i <= k
        BY <1>2, <2>3, <2>5, <3>1
      <3>2. CASE ~(i <= k)
        BY <1>2, <2>5, <3>2
      <3>. QED
        BY <3>1, <3>2
    <2>. HIDE DEF a
    <2>7. a = Upto(leaves, k + 1)
      BY <2>4, <2>5, <2>6, SeqsAreEqual
    <2>. QED
      BY <2>7 DEF a, leaves
  <1>. QED
    BY <1>6, <1>19, <1>20, <1>21, Zenon DEF Stage, s, chunks

-----------------------------------------------------------------------------
HasParts(header, meta, bodies, data, size) ==
  /\ header \in HeaderCells /\ meta \in Seq(NumCells)
  /\ bodies \in Seq(Seq(BodyCells)) /\ \A i \in 1..Len(bodies) : Len(bodies[i]) <= MaxU32
  /\ Len(bodies) = Len(ChunksOf(data, size)) /\ Len(bodies) \in Nat
  /\ data \in Seq(NumCells) /\ size \in Nat \ {0}

LEMMA HonestIsBounded ==
  ASSUME NEW container, NEW key, NEW header, NEW meta, NEW sorted, NEW data, NEW size, NEW bodies,
         Honest(container, key, header, meta, sorted, data, size, bodies)
  PROVE  HasParts(header, meta, bodies, data, size)
  <1>1. bodies \in Seq(Seq(BodyCells))
    BY DEF Honest, AreBodies
  <1>2. Len(bodies) \in Nat
    BY <1>1
  <1>. QED
    BY <1>1, <1>2, Zenon DEF HasParts, Honest, Describes, AreBodies

(* After every chunk of an honest container the loop is where it should    *)
(* be.                                                                     *)
LEMMA HonestStages ==
  ASSUME NEW container, NEW key, NEW header, NEW meta, NEW sorted, NEW data, NEW size, NEW bodies,
         Honest(container, key, header, meta, sorted, data, size, bodies),
         NEW caps, AmpleCaps(caps), NEW k \in 0..Len(bodies)
  PROVE  AfterTurns(container, key, caps, k) = Stage(header, meta, data, size, bodies, k)
  <1>. DEFINE s(i) == AfterTurns(container, key, caps, i)
              stage(i) == Stage(header, meta, data, size, bodies, i)
              n == Len(bodies)
              T == {i \in Nat : i <= n /\ s(i) # stage(i)}
  <1>1. HasParts(header, meta, bodies, data, size)
    BY HonestIsBounded
  <1>2. n \in Nat
    BY <1>1 DEF HasParts
  <1>3. Laid(container, header, meta, sorted)
    BY HonestIsLaid
  <1>4. \A i \in Nat : TurnShape(container, s(i))
    <2>1. container \in Seq(Cells) /\ MetaEnd(container) \in 0..Len(container)
      BY <1>3, Zenon DEF Laid
    <2>. QED
      BY <2>1, TurnsShaped
  <1>5. s(0) = Start(container) /\ \A i \in Nat : s(i + 1) = Turn(container, key, caps, s(i), i)
    BY AfterTurnsValues
  <1>6. s(0) = stage(0)
    <2>1. MetaEnd(container) = Len(Written(header, meta, bodies, 0))
      <3>1. Written(header, meta, bodies, 0) = <<header>> \o meta
        BY <1>1, NothingWritten DEF HasParts
      <3>2. <<header>> \in Seq(Cells) /\ meta \in Seq(Cells) /\ Len(<<header>>) = 1
        BY <1>1, PrologueIsCells DEF HasParts
      <3>3. Len(<<header>> \o meta) = 1 + Len(meta)
        BY <3>2, ConcatProperties
      <3>4. MetaEnd(container) = 1 + Len(meta)
        BY <1>3, Zenon DEF Laid
      <3>. QED
        BY <3>1, <3>3, <3>4, Zenon
    <2>2. Joined(ChunksOf(data, size), 0) = <<>>
      <3>1. CutOf(ChunksOf(data, size), data, size)
        BY <1>1, TextIsCut DEF HasParts
      <3>2. ChunksOf(data, size) \in Seq(Seq(NumCells))
        BY <3>1 DEF CutOf
      <3>. QED
        BY <3>2, JoinedNone
    <2>3. Upto(Leaves(bodies), 0) = <<>>
      BY DEF Upto
    <2>. QED
      BY <1>5, <2>1, <2>2, <2>3, Zenon DEF Start, Stage
  <1>7. ASSUME NEW i \in Nat, i < n, s(i) = stage(i)
        PROVE  s(i + 1) = stage(i + 1)
    <2>1. i \in 0..Len(bodies) - 1
      BY <1>2, <1>7
    <2>2. TurnShape(container, stage(i))
      BY <1>4, <1>7, Zenon
    <2>3. Turn(container, key, caps, stage(i), i) = stage(i + 1)
      BY <2>1, <2>2, HonestChunkIsRead
    <2>. QED
      BY <1>5, <1>7, <2>3, Zenon
  <1>. HIDE DEF s, stage, n
  <1>8. T = {}
    <2>. SUFFICES ASSUME T # {}
                  PROVE  FALSE
      OBVIOUS
    <2>1. PICK x \in T : \A y \in T : x <= y
      <3>1. T \in SUBSET Nat
        OBVIOUS
      <3>. QED
        BY <3>1, LeastOf
    <2>2. x # 0
      BY <1>6, <2>1
    <2>3. x \in Nat /\ x - 1 \in Nat /\ x - 1 < n /\ (x - 1) + 1 = x /\ s(x) # stage(x)
          /\ x - 1 \notin T /\ x - 1 <= n
      BY <1>2, <2>1, <2>2
    <2>4. s(x - 1) = stage(x - 1)
      BY <2>3
    <2>5. s((x - 1) + 1) = stage((x - 1) + 1)
      BY <1>7, <2>3, <2>4
    <2>. QED
      BY <2>3, <2>5
  <1>9. k \in Nat /\ k <= n
    BY <1>2 DEF n
  <1>. QED
    BY <1>8, <1>9, Zenon DEF s, stage

(* Nothing is wrong with its prefix, ...                                   *)
LEMMA HonestPreamble ==
  ASSUME NEW container, NEW key, NEW header, NEW meta, NEW sorted, NEW data, NEW size, NEW bodies,
         Honest(container, key, header, meta, sorted, data, size, bodies),
         NEW caps, AmpleCaps(caps)
  PROVE  PreambleError(container, key, caps) = NoError
  <1>1. Laid(container, header, meta, sorted)
    BY HonestIsLaid
  <1>2. /\ header \in HeaderCells /\ ParseHeader(header) = NoError
        /\ header.h.hasMetadata = (meta # <<>>) /\ (header.h.encrypted => Len(key) = KeyLen)
    BY DEF Honest, Describes
  <1>3. container # <<>> /\ container[1] = header /\ (meta # <<>> => parse_metadata(container, MaxU32) = Parsed(sorted))
    BY <1>1, Zenon DEF Laid
  <1>4. inspectError(container, caps.maxMetaBytes) = NoError
    <2>1. caps.maxMetaBytes = MaxU32
      BY DEF AmpleCaps
    <2>2. meta # <<>> => parse_metadata(container, MaxU32).ok
      BY <1>3 DEF Parsed
    <2>3. inspectError(container, MaxU32) = NoError
      BY <1>2, <1>3, <2>2, Zenon DEF inspectError
    <2>. QED
      BY <2>1, <2>3, Zenon
  <1>5. ~(header.h.chunkCount > caps.maxChunkCount) /\ ~(header.h.totalSize > caps.maxTotalSize)
    <2>1. header.h \in Header
      BY <1>2 DEF HeaderCells
    <2>2. header.h.chunkCount \in 0..MaxU64 /\ header.h.totalSize \in 0..MaxU64
      BY <2>1 DEF Header
    <2>3. caps.maxChunkCount = MaxU64 /\ caps.maxTotalSize = MaxU64
      BY DEF AmpleCaps
    <2>4. MaxU64 \in Nat
      BY WidthAssumption
    <2>. QED
      BY <2>2, <2>3, <2>4
  <1>. QED
    BY <1>2, <1>3, <1>4, <1>5, Zenon DEF PreambleError

(* ... and nothing with its end.                                           *)
LEMMA HonestEnd ==
  ASSUME NEW container, NEW key, NEW header, NEW meta, NEW sorted, NEW data, NEW size, NEW bodies,
         Honest(container, key, header, meta, sorted, data, size, bodies)
  PROVE  EndError(container, key, Stage(header, meta, data, size, bodies, Len(bodies))) = NoError
  <1>. DEFINE n == Len(bodies)
              w == Written(header, meta, bodies, n)
              root == RootCell(RootKeyOf(key, header), Hashed(header, meta, bodies, n))
              s == Stage(header, meta, data, size, bodies, n)
  <1>1. HasParts(header, meta, bodies, data, size)
    BY HonestIsBounded
  <1>2. Laid(container, header, meta, sorted)
    BY HonestIsLaid
  <1>3. container[1] = header /\ RegionOf(container) = meta
    BY <1>2, Zenon DEF Laid
  <1>4. container = w \o <<root, MagicEnd>> /\ w \in Seq(Cells) /\ <<root, MagicEnd>> \in Seq(Cells)
    <2>1. /\ key \in Seq(Nat) /\ header \in HeaderCells
          /\ container = Container(RootKeyOf(key, header), header, meta, bodies)
      BY DEF Honest, Describes
    <2>2. RootKeyOf(key, header) \in {NoKey} \cup (Seq(Nat) \X Nat)
      BY <2>1, RootKeyFits
    <2>3. /\ header \in HeaderCells /\ meta \in Seq(NumCells)
          /\ bodies \in Seq(Seq(BodyCells)) /\ \A i \in 1..Len(bodies) : Len(bodies[i]) <= MaxU32
      BY <1>1, Zenon DEF HasParts
    <2>. QED
      BY <2>1, <2>2, <2>3, ContainerIsWritten, Zenon
  <1>5. /\ Len(container) - Len(w) = 2 /\ container[Len(w) + 1] = root
        /\ container[Len(w) + 2] = MagicEnd
    <2>. DEFINE e == <<root, MagicEnd>>
    <2>0. Len(e) = 2 /\ e[1] = root /\ e[2] = MagicEnd
      <3>. HIDE DEF root, MagicEnd
      <3>. QED
        OBVIOUS
    <2>. HIDE DEF e, w, root
    <2>1. w \in Seq(Cells) /\ e \in Seq(Cells) /\ container = w \o e
      BY <1>4 DEF e
    <2>2. Len(w) \in Nat
      BY <2>1
    <2>3. /\ Len(w) + 1 \in 1..Len(w) + Len(e) /\ ~(Len(w) + 1 <= Len(w)) /\ (Len(w) + 1) - Len(w) = 1
          /\ Len(w) + 2 \in 1..Len(w) + Len(e) /\ ~(Len(w) + 2 <= Len(w)) /\ (Len(w) + 2) - Len(w) = 2
      BY <2>0, <2>2
    <2>4. (w \o e)[Len(w) + 1] = e[1] /\ (w \o e)[Len(w) + 2] = e[2] /\ Len(w \o e) = Len(w) + Len(e)
      BY <2>1, <2>3, ConcatProperties
    <2>5. Len(container) = Len(w) + Len(e)
      BY <2>1, <2>4, Zenon
    <2>6. container[Len(w) + 1] = e[1] /\ container[Len(w) + 2] = e[2]
      <3>1. container = w \o e /\ (w \o e)[Len(w) + 1] = e[1] /\ (w \o e)[Len(w) + 2] = e[2]
        BY <2>1, <2>4, Zenon
      <3>. DEFINE c == w \o e
      <3>2. container = c /\ c[Len(w) + 1] = e[1] /\ c[Len(w) + 2] = e[2]
        BY <3>1, Zenon
      <3>. HIDE DEF c
      <3>. QED
        BY <3>2, Zenon
    <2>7. Len(container) - Len(w) = 2
      BY <2>0, <2>2, <2>5
    <2>. QED
      BY <2>0, <2>6, <2>7, Zenon
  <1>6. Joined(ChunksOf(data, size), n) = data
    BY <1>1, ChunksAreText DEF HasParts
  <1>7. s.offset = Len(w) /\ s.plain = data /\ s.leaves = Upto(Leaves(bodies), n)
    BY <1>6 DEF Stage
  <1>8. header.h.totalSize = Len(data)
    BY DEF Honest, Describes
  <1>9. root = RootCell(IF header.h.encrypted THEN rootKey(key, header.h.baseNonce) ELSE NoKey,
                        (<<header>> \o meta) \o Upto(Leaves(bodies), n))
    BY DEF RootKeyOf, Hashed
  <1>. DEFINE left == Len(container) - s.offset
  <1>. HIDE DEF s, w, root, n
  <1>10. left = 2 /\ container[s.offset + 1] = root /\ container[s.offset + 2] = MagicEnd
    BY <1>5, <1>7, Zenon
  <1>11. EndError(container, key, s)
           = IF left < 2 THEN Truncated
             ELSE IF container[s.offset + 2] # MagicEnd THEN Truncated
             ELSE IF Len(s.plain) # header.h.totalSize \/ container[s.offset + 1] # root THEN RootMismatch
             ELSE IF left # 2 THEN TrailingData
             ELSE NoError
    BY <1>3, <1>7, <1>9, Zenon DEF EndError
  <1>12. ~(left < 2)
    <2>1. ~(2 < 2)
      OBVIOUS
    <2>. HIDE DEF left
    <2>. QED
      BY <1>10, <2>1
  <1>13. Len(s.plain) = header.h.totalSize
    BY <1>7, <1>8, Zenon
  <1>14. EndError(container, key, s) = NoError
    BY <1>10, <1>11, <1>12, <1>13, Zenon
  <1>. QED
    BY <1>14 DEF s, n

(* So an honest container decodes to what was put in it.                   *)
DecodesTo(container, key, caps, data, entries) ==
  LET d == decodeBytes(container, key, caps)
  IN  d.err = NoError /\ d.plain = data /\ d.entries = entries

LEMMA HonestDecodes ==
  ASSUME NEW container, NEW key, NEW header, NEW meta, NEW sorted, NEW data, NEW size, NEW bodies,
         Honest(container, key, header, meta, sorted, data, size, bodies),
         NEW caps, AmpleCaps(caps)
  PROVE  DecodesTo(container, key, caps, data, IF meta # <<>> THEN sorted ELSE <<>>)
  <1>. DEFINE n == Len(bodies)
              s == Stage(header, meta, data, size, bodies, n)
              d == decodeBytes(container, key, caps)
  <1>1. HasParts(header, meta, bodies, data, size)
    BY HonestIsBounded
  <1>2. Laid(container, header, meta, sorted)
    BY HonestIsLaid
  <1>3. PreambleError(container, key, caps) = NoError
    BY HonestPreamble
  <1>4. container[1] = header /\ header.h.chunkCount = n /\ header.h.hasMetadata = (meta # <<>>)
    <2>1. header.h.chunkCount = n /\ header.h.hasMetadata = (meta # <<>>)
      BY DEF Honest, Describes
    <2>. QED
      BY <1>2, <2>1, Zenon DEF Laid
  <1>5. AfterTurns(container, key, caps, n) = s
    <2>1. n \in 0..Len(bodies)
      BY <1>1 DEF HasParts
    <2>. QED
      BY <2>1, HonestStages
  <1>6. s.err = NoError /\ s.plain = data
    <2>1. Joined(ChunksOf(data, size), n) = data
      BY <1>1, ChunksAreText DEF HasParts
    <2>. QED
      BY <2>1 DEF Stage
  <1>7. EndError(container, key, s) = NoError
    BY HonestEnd
  <1>8. d.entries = IF header.h.hasMetadata
                    THEN parse_metadata(container, caps.maxMetaBytes).entries ELSE <<>>
    <2>. DEFINE w == Walk(container, key, caps)
                err == IF w.err # NoError THEN w.err ELSE EndError(container, key, w)
                entries == IF container[1].h.hasMetadata
                           THEN parse_metadata(container, caps.maxMetaBytes).entries ELSE <<>>
    <2>1. d = Result(err, w.plain, entries, w.inBody)
      BY <1>3, Zenon DEF decodeBytes
    <2>. HIDE DEF err, w, entries, d
    <2>2. d.entries = entries
      BY <2>1 DEF Result
    <2>. QED
      BY <1>4, <2>2, Zenon DEF entries
  <1>9. meta # <<>> => parse_metadata(container, caps.maxMetaBytes).entries = sorted
    <2>1. caps.maxMetaBytes = MaxU32
      BY DEF AmpleCaps
    <2>2. meta # <<>> => parse_metadata(container, MaxU32) = Parsed(sorted)
      BY <1>2, Zenon DEF Laid
    <2>3. Parsed(sorted).entries = sorted
      BY DEF Parsed
    <2>. QED
      BY <2>1, <2>2, <2>3, Zenon
  <1>10. d.err = EndError(container, key, s) /\ d.plain = s.plain
    <2>1. s = AfterTurns(container, key, caps, container[1].h.chunkCount)
      BY <1>4, <1>5, Zenon
    <2>. HIDE DEF s
    <2>. QED
      BY <1>3, <1>6, <2>1, LoopEnds
  <1>. HIDE DEF s, d, n
  <1>. QED
    BY <1>4, <1>6, <1>7, <1>8, <1>9, <1>10, Zenon DEF DecodesTo, d

(* The region that an encoder writes, if any, is read back.                *)
LEMMA MetadataIsThere ==
  \A entries \in Seq(Entry) :
    EncodeMetadata(entries).ok =>
      /\ EncodeMetadata(entries).region \in Seq(NumCells)
      /\ (EncodeMetadata(entries).region = <<>>) = (entries = <<>>)
      /\ EncodeMetadata(entries).region # <<>> => ReadBack(EncodeMetadata(entries).region, Sorted(entries))
  <1>. SUFFICES ASSUME NEW entries \in Seq(Entry), EncodeMetadata(entries).ok
                PROVE  /\ EncodeMetadata(entries).region \in Seq(NumCells)
                       /\ (EncodeMetadata(entries).region = <<>>) = (entries = <<>>)
                       /\ EncodeMetadata(entries).region # <<>>
                            => ReadBack(EncodeMetadata(entries).region, Sorted(entries))
    OBVIOUS
  <1>1. EncodeMetadata(entries).region \in Seq(NumCells)
    BY RegionIsNumbers
  <1>2. CASE entries = <<>>
    <2>1. EncodeMetadata(entries).region = <<>>
      BY <1>2 DEF EncodeMetadata
    <2>. QED
      BY <1>1, <1>2, <2>1
  <1>3. CASE entries # <<>>
    <2>1. ReadBack(EncodeMetadata(entries).region, Sorted(entries))
      BY <1>3, EncodedIsRead
    <2>2. EncodeMetadata(entries).region # <<>>
      <3>. DEFINE r == EncodeMetadata(entries).region
      <3>1. Len(r) \in 2..MaxU32 + 1
        BY <2>1 DEF ReadBack
      <3>. HIDE DEF r
      <3>2. r # <<>>
        BY <3>1, WidthAssumption
      <3>. QED
        BY <3>2 DEF r
    <2>. QED
      BY <1>1, <1>3, <2>1, <2>2
  <1>. QED
    BY <1>2, <1>3

-----------------------------------------------------------------------------
(* What the one-shot encoders make is honest.                              *)
HeaderSays(h, encrypted, size, total, hasMeta, base) ==
  /\ h.encrypted = encrypted /\ h.hasMetadata = hasMeta /\ h.chunkSize = size
  /\ h.chunkCount = (total + size - 1) \div size /\ h.totalSize = total
  /\ encrypted => h.baseNonce = base

LEMMA HeadersSay ==
  ASSUME NEW size, NEW total, NEW hasMeta, NEW base
  PROVE  /\ HeaderSays(PlainHeader(size, total, hasMeta), FALSE, size, total, hasMeta, base)
         /\ HeaderSays(EncryptedHeader(size, total, hasMeta, base), TRUE, size, total, hasMeta, base)
  <1>. DEFINE n == (total + size - 1) \div size
  <1>. HIDE DEF n
  <1>1. PlainHeader(size, total, hasMeta)
          = [version |-> 1, encrypted |-> FALSE, hasMetadata |-> hasMeta, reserved |-> FALSE,
             hashAlgo |-> 0, aeadAlgo |-> 0, chunkSize |-> size,
             chunkCount |-> n, totalSize |-> total, baseNonce |-> 0]
    BY DEF PlainHeader, HashSHA256, AEADNone, ZeroNonce, n
  <1>2. EncryptedHeader(size, total, hasMeta, base)
          = [version |-> 1, encrypted |-> TRUE, hasMetadata |-> hasMeta, reserved |-> FALSE,
             hashAlgo |-> 1, aeadAlgo |-> 1, chunkSize |-> size,
             chunkCount |-> n, totalSize |-> total, baseNonce |-> base]
    <2>. DEFINE plain == PlainHeader(size, total, hasMeta)
    <2>1. EncryptedHeader(size, total, hasMeta, base)
            = [plain EXCEPT !.encrypted = TRUE, !.hashAlgo = 1, !.aeadAlgo = 1, !.baseNonce = base]
      BY DEF EncryptedHeader, HashHMACSHA256, AEADAESGCM
    <2>. HIDE DEF plain
    <2>2. plain = [version |-> 1, encrypted |-> FALSE, hasMetadata |-> hasMeta, reserved |-> FALSE,
                   hashAlgo |-> 0, aeadAlgo |-> 0, chunkSize |-> size,
                   chunkCount |-> n, totalSize |-> total, baseNonce |-> 0]
      BY <1>1 DEF plain
    <2>. QED
      BY <2>1, <2>2
  <1>. DEFINE p == PlainHeader(size, total, hasMeta)
              e == EncryptedHeader(size, total, hasMeta, base)
  <1>3. p.encrypted = FALSE /\ p.hasMetadata = hasMeta /\ p.chunkSize = size /\ p.chunkCount = n /\ p.totalSize = total
    BY <1>1
  <1>4. e.encrypted = TRUE /\ e.hasMetadata = hasMeta /\ e.chunkSize = size /\ e.chunkCount = n /\ e.totalSize = total
        /\ e.baseNonce = base
    BY <1>2
  <1>. HIDE DEF p, e
  <1>5. HeaderSays(p, FALSE, size, total, hasMeta, base)
    BY <1>3, Zenon DEF HeaderSays, n
  <1>6. HeaderSays(e, TRUE, size, total, hasMeta, base)
    BY <1>4, Zenon DEF HeaderSays, n
  <1>. QED
    BY <1>5, <1>6 DEF p, e

LEMMA PlainIsHonest ==
  ASSUME NEW data \in Seq(NumCells), Len(data) <= MaxU64, NEW entries \in Seq(Entry),
         NEW size \in 0..MaxU32, NEW key \in Seq(Nat),
         EncodePlain(data, entries, size).err = NoError
  PROVE  /\ EncodeMetadata(entries).ok
         /\ Honest(EncodePlain(data, entries, size).out, key,
                   HeaderCell(PlainHeader(size, Len(data), EncodeMetadata(entries).region # <<>>)),
                   EncodeMetadata(entries).region, Sorted(entries), data, size, ChunksOf(data, size))
  <1>. DEFINE meta == EncodeMetadata(entries).region
              header == PlainHeader(size, Len(data), meta # <<>>)
              cell == HeaderCell(header)
              bodies == ChunksOf(data, size)
              r == EncodePlain(data, entries, size)
  <1>1. r = IF size = 0 THEN Rejected(ReservedBits)
            ELSE IF ~EncodeMetadata(entries).ok THEN Rejected(MetaMalformed)
            ELSE IF validate(header) # NoError THEN Rejected(validate(header))
            ELSE Encoded(Container(NoKey, cell, meta, bodies))
    BY DEF EncodePlain
  <1>2. Rejected(ReservedBits).err # NoError /\ Rejected(MetaMalformed).err # NoError
        /\ (validate(header) # NoError => Rejected(validate(header)).err # NoError)
    <2>. HIDE DEF header
    <2>. QED
      BY DEF Rejected, ReservedBits, MetaMalformed, NoError
  <1>. HIDE DEF meta, header, cell, bodies
  <1>3. size # 0 /\ EncodeMetadata(entries).ok /\ validate(header) = NoError
        /\ r = Encoded(Container(NoKey, cell, meta, bodies))
    <2>1. r.err = NoError
      OBVIOUS
    <2>. HIDE DEF r
    <2>. QED
      BY <1>1, <1>2, <2>1, Zenon
  <1>4. r.out = Container(NoKey, cell, meta, bodies)
    BY <1>3 DEF Encoded
  <1>5. size \in 1..MaxU32 /\ size \in Nat \ {0} /\ Len(data) \in 0..MaxU64 /\ (meta # <<>>) \in BOOLEAN
    BY <1>3, WidthAssumption
  <1>6. cell \in HeaderCells
    <2>1. 0 \in Nat
      OBVIOUS
    <2>. QED
      BY <1>5, <2>1, HeadersAreCells, Zenon DEF cell, header
  <1>7. /\ meta \in Seq(NumCells) /\ (meta # <<>> => ReadBack(meta, Sorted(entries)))
    BY <1>3, MetadataIsThere DEF meta
  <1>8. HeaderSays(header, FALSE, size, Len(data), meta # <<>>, 0)
    BY HeadersSay DEF header
  <1>9. cell.h = header /\ ParseHeader(cell) = NoError
    BY <1>3 DEF cell, HeaderCell, ParseHeader
  <1>10. bodies \in Seq(Seq(BodyCells)) /\ \A i \in 1..Len(bodies) : Len(bodies[i]) <= MaxU32
    BY <1>5, BodiesArePlain DEF bodies
  <1>11. Len(bodies) = (Len(data) + size - 1) \div size
    <2>1. CutOf(bodies, data, size)
      BY <1>5, TextIsCut DEF bodies
    <2>. QED
      BY <2>1, Zenon DEF CutOf
  <1>. HIDE DEF r
  <1>12. ~cell.h.encrypted
    BY <1>8, <1>9, Zenon DEF HeaderSays
  <1>13. AreBodies(key, cell, meta, bodies, bodies)
    BY <1>10, <1>12, Zenon DEF AreBodies
  <1>14. Describes(cell, key, meta, data, bodies)
    BY <1>6, <1>8, <1>9, <1>11, <1>12, Zenon DEF Describes, HeaderSays
  <1>15. RootKeyOf(key, cell) = NoKey
    BY <1>12, Zenon DEF RootKeyOf
  <1>16. Honest(r.out, key, cell, meta, Sorted(entries), data, size, bodies)
    BY <1>4, <1>5, <1>7, <1>13, <1>14, <1>15, Zenon DEF Honest, bodies
  <1>. QED
    BY <1>3, <1>16 DEF r, cell, header, meta, bodies

LEMMA EncryptedIsSealed ==
  ASSUME NEW data \in Seq(NumCells), Len(data) <= MaxU64, NEW entries \in Seq(Entry),
         NEW size \in 0..MaxU32, NEW key \in Seq(Nat), NEW base \in Nat,
         EncodeEncryptedWithFixedNonce(data, key, base, entries, size).err = NoError
  PROVE  /\ EncodeMetadata(entries).ok
         /\ LET meta == EncodeMetadata(entries).region
                cell == HeaderCell(EncryptedHeader(size, Len(data), meta # <<>>, base))
            IN  /\ Honest(EncodeEncryptedWithFixedNonce(data, key, base, entries, size).out, key,
                          cell, meta, Sorted(entries), data, size,
                          SealedChunks(key, base, cell, meta, ChunksOf(data, size)))
                /\ cell.h.encrypted
  <1>. DEFINE meta == EncodeMetadata(entries).region
              header == EncryptedHeader(size, Len(data), meta # <<>>, base)
              cell == HeaderCell(header)
              chunks == ChunksOf(data, size)
              bodies == SealedChunks(key, base, cell, meta, chunks)
              r == EncodeEncryptedWithFixedNonce(data, key, base, entries, size)
  <1>1. r = IF Len(key) # KeyLen \/ size = 0 THEN Rejected(ReservedBits)
            ELSE IF ~EncodeMetadata(entries).ok THEN Rejected(MetaMalformed)
            ELSE IF validate(header) # NoError THEN Rejected(validate(header))
            ELSE Encoded(Container(rootKey(key, base), cell, meta, bodies))
    BY Zenon DEF EncodeEncryptedWithFixedNonce, SealedChunks
  <1>2. Rejected(ReservedBits).err # NoError /\ Rejected(MetaMalformed).err # NoError
        /\ (validate(header) # NoError => Rejected(validate(header)).err # NoError)
    <2>. HIDE DEF header
    <2>. QED
      BY DEF Rejected, ReservedBits, MetaMalformed, NoError
  <1>. HIDE DEF meta, header, cell, bodies, chunks
  <1>3. Len(key) = KeyLen /\ size # 0 /\ EncodeMetadata(entries).ok /\ validate(header) = NoError
        /\ r = Encoded(Container(rootKey(key, base), cell, meta, bodies))
    <2>1. r.err = NoError
      OBVIOUS
    <2>. HIDE DEF r
    <2>. QED
      BY <1>1, <1>2, <2>1, Zenon
  <1>4. r.out = Container(rootKey(key, base), cell, meta, bodies)
    BY <1>3 DEF Encoded
  <1>5. size \in 1..MaxU32 /\ size \in Nat \ {0} /\ Len(data) \in 0..MaxU64 /\ (meta # <<>>) \in BOOLEAN
    BY <1>3, WidthAssumption
  <1>6. cell \in HeaderCells
    BY <1>5, HeadersAreCells, Zenon DEF cell, header
  <1>7. /\ meta \in Seq(NumCells) /\ (meta # <<>> => ReadBack(meta, Sorted(entries)))
    BY <1>3, MetadataIsThere DEF meta
  <1>8. HeaderSays(header, TRUE, size, Len(data), meta # <<>>, base)
    BY HeadersSay DEF header
  <1>9. cell.h = header /\ ParseHeader(cell) = NoError
    BY <1>3 DEF cell, HeaderCell, ParseHeader
  <1>10. header.encrypted /\ header.chunkSize = size /\ header.baseNonce = base
    BY <1>8, Zenon DEF HeaderSays
  <1>11. size \in 1..MaxU32 - TagLen
    <2>1. ~(header.chunkSize > MaxU32 - TagLen)
      BY <1>3, <1>10 DEF validate, ReservedBits, UnsupportedVer, UnsupportedAlgo, NoError
    <2>. QED
      BY <1>5, <1>10, <2>1, WidthAssumption DEF TagLen
  <1>12. /\ bodies \in Seq(Seq(BodyCells)) /\ Len(bodies) = Len(chunks)
         /\ \A i \in 1..Len(bodies) : /\ Len(bodies[i]) <= MaxU32
                                      /\ bodies[i] = sealChunk(key, base, cell, meta, i - 1, chunks[i])
    BY <1>6, <1>7, <1>11, BodiesAreSealed DEF bodies, chunks
  <1>13. Len(chunks) = (Len(data) + size - 1) \div size /\ chunks \in Seq(Seq(NumCells))
    <2>1. CutOf(chunks, data, size)
      BY <1>5, TextIsCut DEF chunks
    <2>. QED
      BY <2>1, Zenon DEF CutOf
  <1>14. ASSUME NEW i \in 1..Len(bodies)
         PROVE  OpensTo(key, base, cell, meta, i - 1, bodies[i], chunks[i])
    <2>. DEFINE j == i - 1
                plain == chunks[i]
    <2>1. j \in Nat /\ plain \in Seq(NumCells)
      BY <1>12, <1>13
    <2>2. bodies[i] = sealChunk(key, base, cell, meta, j, plain)
      BY <1>12
    <2>. HIDE DEF j, plain
    <2>3. OpensTo(key, base, cell, meta, j, sealChunk(key, base, cell, meta, j, plain), plain)
      BY <1>6, <1>7, <2>1, SealOpens, Zenon
    <2>. QED
      BY <2>2, <2>3, Zenon DEF j, plain
  <1>. HIDE DEF r
  <1>15. AreBodies(key, cell, meta, chunks, bodies)
    BY <1>9, <1>10, <1>12, <1>14, Zenon DEF AreBodies
  <1>16. Describes(cell, key, meta, data, bodies)
    BY <1>3, <1>6, <1>8, <1>9, <1>12, <1>13, Zenon DEF Describes, HeaderSays
  <1>17. RootKeyOf(key, cell) = rootKey(key, base)
    BY <1>9, <1>10, Zenon DEF RootKeyOf
  <1>18. Honest(r.out, key, cell, meta, Sorted(entries), data, size, bodies)
    BY <1>4, <1>5, <1>7, <1>15, <1>16, <1>17, Zenon DEF Honest, chunks
  <1>19. cell.h.encrypted
    BY <1>9, <1>10, Zenon
  <1>. QED
    BY <1>3, <1>18, <1>19, Zenon DEF r, meta, cell, header, bodies, chunks

LEMMA EncryptedIsHonest ==
  ASSUME NEW data \in Seq(NumCells), Len(data) <= MaxU64, NEW entries \in Seq(Entry),
         NEW size \in 0..MaxU32, NEW key \in Seq(Nat), NEW base \in Nat,
         EncodeEncryptedWithFixedNonce(data, key, base, entries, size).err = NoError
  PROVE  /\ EncodeMetadata(entries).ok
         /\ \E header, bodies :
              Honest(EncodeEncryptedWithFixedNonce(data, key, base, entries, size).out, key,
                     header, EncodeMetadata(entries).region, Sorted(entries), data, size, bodies)
  BY EncryptedIsSealed, Zenon

-----------------------------------------------------------------------------
(* What the one-shot encoders make decodes to what they were given.        *)
LEMMA SortedNothing == Sorted(<<>>) = <<>>
  <1>1. <<>> \in Seq(Entry)
    OBVIOUS
  <1>2. Sorted(<<>>) \in Seq(Entry) /\ Len(Sorted(<<>>)) = Len(<<>>)
    BY <1>1, SortedIsSeq
  <1>. QED
    BY <1>2

LEMMA SortedInOrder ==
  \A entries \in Seq(Entry) :
    EncodeMetadata(entries).ok => InTagOrder(Sorted(entries), entries)
  <1>. SUFFICES ASSUME NEW entries \in Seq(Entry), EncodeMetadata(entries).ok
                PROVE  InTagOrder(Sorted(entries), entries)
    OBVIOUS
  <1>1. Len(Sorted(entries)) = Len(entries)
    BY SortedIsSeq
  <1>2. Range(Sorted(entries)) = Range(entries)
    BY SortedHasAll
  <1>3. \A i \in 2..Len(Sorted(entries)) : TagBefore(Sorted(entries)[i - 1], Sorted(entries)[i])
    <2>1. CASE entries = <<>>
      BY <2>1, SortedNothing
    <2>2. CASE entries # <<>>
      <3>1. Ascending(Sorted(entries))
        BY <2>2, EncodedIsLegal DEF RegionFor, LegalEntries
      <3>. QED
        BY <3>1, Zenon DEF Ascending, TagBefore
    <2>. QED
      BY <2>1, <2>2
  <1>. QED
    BY <1>1, <1>2, <1>3 DEF InTagOrder

-----------------------------------------------------------------------------
(* Entries have one order in which their tags ascend.                      *)
LEMMA TagsAscend ==
  ASSUME NEW s \in Seq(Entry), Ascending(s)
  PROVE  \A i, j \in 1..Len(s) : i < j => s[i].tag < s[j].tag
  <1>. SUFFICES ASSUME NEW i \in 1..Len(s), \E j \in 1..Len(s) : i < j /\ ~(s[i].tag < s[j].tag)
                PROVE  FALSE
    OBVIOUS
  <1>. DEFINE T == {j \in 1..Len(s) : i < j /\ ~(s[i].tag < s[j].tag)}
  <1>1. T \in SUBSET Nat /\ T # {}
    OBVIOUS
  <1>2. PICK x \in T : \A y \in T : x <= y
    BY <1>1, LeastOf
  <1>3. /\ x \in 2..Len(s) /\ i < x /\ ~(s[i].tag < s[x].tag)
        /\ x - 1 \in 1..Len(s) /\ x \in 1..Len(s) /\ ~(x <= x - 1) /\ (i = x - 1 \/ i < x - 1)
    <2>1. Len(s) \in Nat
      OBVIOUS
    <2>. QED
      BY <1>2, <2>1
  <1>4. s[x - 1].tag < s[x].tag
    BY <1>3 DEF Ascending
  <1>5. s[i].tag \in Nat /\ s[x - 1].tag \in Nat /\ s[x].tag \in Nat
    <2>1. s[i] \in Entry /\ s[x - 1] \in Entry /\ s[x] \in Entry
      BY <1>3
    <2>. QED
      BY <2>1, TagsAreNumbers
  <1>6. CASE i = x - 1
    BY <1>3, <1>4, <1>6
  <1>7. CASE i < x - 1
    <2>1. x - 1 \notin T
      BY <1>2, <1>3
    <2>2. s[i].tag < s[x - 1].tag
      BY <1>3, <1>7, <2>1
    <2>. QED
      BY <1>3, <1>4, <1>5, <2>2
  <1>. QED
    BY <1>3, <1>6, <1>7

(* Of two such orders of the same entries neither has the smaller tag      *)
(* where they first differ.                                                *)
LEMMA FirstIsSmaller ==
  ASSUME NEW s \in Seq(Entry), NEW t \in Seq(Entry), Ascending(s), Ascending(t),
         Len(s) = Len(t), Range(s) = Range(t), NEW x \in 1..Len(s), s[x] # t[x],
         \A y \in 1..Len(s) : y < x => s[y] = t[y]
  PROVE  t[x].tag < s[x].tag
  <1>1. PICK j \in 1..Len(t) : s[x] = t[j]
    <2>1. s[x] \in Range(s)
      BY DEF Range
    <2>2. s[x] \in Range(t)
      BY <2>1
    <2>. QED
      BY <2>2 DEF Range
  <1>2. x \in Nat /\ j \in Nat /\ j # x
    BY <1>1
  <1>3. CASE j < x
    <2>1. j \in 1..Len(s) /\ s[j] = t[j] /\ s[j].tag < s[x].tag
      BY <1>3, TagsAscend
    <2>2. s[j] \in Entry
      BY <2>1
    <2>3. s[j].tag \in Nat /\ s[j].tag < s[j].tag
      BY <1>1, <2>1, <2>2, TagsAreNumbers
    <2>. QED
      BY <2>3
  <1>4. CASE x < j
    BY <1>1, <1>4, TagsAscend
  <1>. QED
    BY <1>2, <1>3, <1>4

LEMMA OrderIsUnique ==
  ASSUME NEW s \in Seq(Entry), NEW t \in Seq(Entry), Ascending(s), Ascending(t),
         Len(s) = Len(t), Range(s) = Range(t)
  PROVE  s = t
  <1>. SUFFICES ASSUME \E i \in 1..Len(s) : s[i] # t[i]
                PROVE  FALSE
    BY SeqsAreEqual
  <1>. DEFINE T == {i \in 1..Len(s) : s[i] # t[i]}
  <1>1. T \in SUBSET Nat /\ T # {}
    OBVIOUS
  <1>2. PICK x \in T : \A y \in T : x <= y
    BY <1>1, LeastOf
  <1>3. x \in 1..Len(s) /\ x \in 1..Len(t) /\ s[x] # t[x]
    OBVIOUS
  <1>4. \A y \in 1..Len(s) : y < x => s[y] = t[y]
    BY <1>2, <1>3
  <1>5. t[x].tag < s[x].tag
    BY <1>3, <1>4, FirstIsSmaller
  <1>6. s[x].tag < t[x].tag
    BY <1>3, <1>4, FirstIsSmaller
  <1>7. s[x].tag \in Nat /\ t[x].tag \in Nat
    <2>1. s[x] \in Entry /\ t[x] \in Entry
      BY <1>3
    <2>. QED
      BY <2>1, TagsAreNumbers
  <1>. QED
    BY <1>5, <1>6, <1>7

(* Which is the one that entries of different tags are sorted into.        *)
Distinct(entries) == \A i, j \in 1..Len(entries) : i # j => entries[i].tag # entries[j].tag

LEMMA DistinctAscend ==
  ASSUME NEW entries \in Seq(Entry), Distinct(entries)
  PROVE  Ascending(Sorted(entries))
  <1>. DEFINE order == CHOOSE p \in Orders(entries) : TRUE
              s == Sorted(entries)
              n == Len(entries)
  <1>1. order \in Orders(entries)
    BY OrderExists
  <1>2. s \in Seq(Entry) /\ Len(s) = n /\ n \in Nat /\ DOMAIN entries = 1..n
    BY SortedIsSeq
  <1>3. s = [i \in DOMAIN entries |-> entries[order[i]]]
    BY DEF Sorted
  <1>. HIDE DEF order, s, n
  <1>4. /\ order \in [1..n -> 1..n]
        /\ \A i, j \in 1..n : i < j => order[i] # order[j] /\ ~TagBefore(entries[order[j]], entries[order[i]])
    BY <1>1, <1>2 DEF Orders
  <1>5. ASSUME NEW i \in 2..n
        PROVE  s[i - 1].tag < s[i].tag
    <2>1. i - 1 \in 1..n /\ i \in 1..n /\ i - 1 < i
      BY <1>2
    <2>2. s[i - 1] = entries[order[i - 1]] /\ s[i] = entries[order[i]]
      BY <1>2, <1>3, <2>1
    <2>3. order[i - 1] \in 1..n /\ order[i] \in 1..n /\ order[i - 1] # order[i] /\ ~TagBefore(s[i], s[i - 1])
      BY <1>4, <2>1, <2>2
    <2>4. s[i - 1].tag # s[i].tag
      BY <2>2, <2>3 DEF Distinct, n
    <2>5. s[i - 1] \in Entry /\ s[i] \in Entry
      BY <1>2, <2>1
    <2>6. s[i - 1].tag \in Nat /\ s[i].tag \in Nat
      BY <2>5, TagsAreNumbers
    <2>. QED
      BY <2>3, <2>4, <2>6 DEF TagBefore
  <1>. QED
    BY <1>2, <1>5 DEF Ascending, s

LEMMA AscendingIsDistinct ==
  ASSUME NEW entries \in Seq(Entry), Ascending(entries)
  PROVE  Distinct(entries)
  <1>. SUFFICES ASSUME NEW i \in 1..Len(entries), NEW j \in 1..Len(entries), i # j
                PROVE  entries[i].tag # entries[j].tag
    BY DEF Distinct
  <1>1. entries[i] \in Entry /\ entries[j] \in Entry /\ (i < j \/ j < i)
    OBVIOUS
  <1>2. entries[i].tag \in Nat /\ entries[j].tag \in Nat
    BY <1>1, TagsAreNumbers
  <1>3. entries[i].tag < entries[j].tag \/ entries[j].tag < entries[i].tag
    BY <1>1, TagsAscend
  <1>. QED
    BY <1>2, <1>3

LEMMA AscendingIsSorted ==
  ASSUME NEW entries \in Seq(Entry), Ascending(entries)
  PROVE  Sorted(entries) = entries
  <1>1. Sorted(entries) \in Seq(Entry) /\ Len(Sorted(entries)) = Len(entries)
        /\ Range(Sorted(entries)) = Range(entries)
    BY SortedIsSeq, SortedHasAll
  <1>2. Ascending(Sorted(entries))
    BY AscendingIsDistinct, DistinctAscend
  <1>. QED
    BY <1>1, <1>2, OrderIsUnique

LEMMA EncodedIsDistinct ==
  ASSUME NEW entries \in Seq(Entry), EncodeMetadata(entries).ok
  PROVE  Distinct(entries)
  <1>. DEFINE order == CHOOSE p \in Orders(entries) : TRUE
              s == Sorted(entries)
              n == Len(entries)
  <1>1. order \in Orders(entries) /\ n \in Nat /\ DOMAIN entries = 1..n
    BY OrderExists
  <1>2. s \in Seq(Entry) /\ Len(s) = n /\ Ascending(s)
    <2>1. InTagOrder(s, entries)
      BY SortedInOrder
    <2>. QED
      BY <2>1, SortedIsSeq DEF InTagOrder, Ascending, TagBefore
  <1>3. s = [i \in DOMAIN entries |-> entries[order[i]]]
    BY DEF Sorted
  <1>4. Distinct(s)
    BY <1>2, AscendingIsDistinct
  <1>. HIDE DEF order, s, n
  <1>5. \A k \in 1..n : \E i \in 1..n : order[i] = k
    BY <1>1, OrderIsOnto
  <1>6. \A i \in 1..n : s[i] = entries[order[i]]
    BY <1>1, <1>3
  <1>7. ASSUME NEW k \in 1..n, NEW l \in 1..n, k # l
        PROVE  entries[k].tag # entries[l].tag
    <2>1. PICK i \in 1..n : order[i] = k
      BY <1>5
    <2>2. PICK j \in 1..n : order[j] = l
      BY <1>5
    <2>3. i # j /\ s[i] = entries[k] /\ s[j] = entries[l]
      BY <1>6, <1>7, <2>1, <2>2
    <2>4. s[i].tag # s[j].tag
      BY <1>2, <1>4, <2>3, Zenon DEF Distinct
    <2>. QED
      BY <2>3, <2>4
  <1>. QED
    BY <1>7 DEF Distinct, n

(* What is encoded is made of the sorted entries alone, ...                *)
EncodedInOrder(s) ==
  LET legal == /\ Len(BodyOf(s)) <= MaxU32
               /\ \A i \in DOMAIN s : /\ validReservedMetadata(s[i])
                                      /\ i > 1 => s[i-1].tag # s[i].tag
  IN  IF legal THEN [ok |-> TRUE, region |-> <<Num(Len(BodyOf(s)))>> \o BodyOf(s)]
      ELSE [ok |-> FALSE, region |-> <<>>]

LEMMA EncodesSorted ==
  ASSUME NEW entries, entries # <<>>
  PROVE  EncodeMetadata(entries) = EncodedInOrder(Sorted(entries))
  BY Zenon DEF EncodeMetadata, EncodedInOrder, BodyOf, EntriesCells

(* ... so that the order in which they are listed makes no difference.     *)
LEMMA ReversedEntries ==
  ASSUME NEW entries \in Seq(Entry), Distinct(entries)
  PROVE  /\ Reverse(entries) \in Seq(Entry) /\ Len(Reverse(entries)) = Len(entries)
         /\ Range(Reverse(entries)) = Range(entries)
         /\ Distinct(Reverse(entries))
  <1>. DEFINE n == Len(entries)
              r == Reverse(entries)
  <1>1. n \in Nat /\ DOMAIN entries = 1..n
    OBVIOUS
  <1>2. r = [i \in 1..n |-> entries[(n - i) + 1]]
    BY DEF Reverse
  <1>. HIDE DEF r, n
  <1>3. \A i \in 1..n : (n - i) + 1 \in 1..n /\ n - ((n - i) + 1) + 1 = i
    BY <1>1
  <1>4. \A i \in 1..n : r[i] = entries[(n - i) + 1]
    BY <1>2
  <1>5. \A i \in 1..n : entries[i] \in Entry
    BY <1>1
  <1>6. r \in Seq(Entry) /\ Len(r) = n /\ DOMAIN r = 1..n
    <2>1. r \in [1..n -> Entry]
      BY <1>2, <1>3, <1>5
    <2>. QED
      BY <1>1, <2>1, SeqDef
  <1>7. ASSUME NEW e
        PROVE  e \in Range(r) <=> e \in Range(entries)
    <2>1. ASSUME NEW i \in 1..n, e = r[i]
          PROVE  \E j \in 1..n : e = entries[j]
      BY <1>3, <1>4, <2>1
    <2>2. ASSUME NEW j \in 1..n, e = entries[j]
          PROVE  \E i \in 1..n : e = r[i]
      <3>. DEFINE i == (n - j) + 1
      <3>1. i \in 1..n /\ (n - i) + 1 = j
        BY <1>3
      <3>. HIDE DEF i
      <3>. QED
        BY <1>4, <2>2, <3>1
    <2>. QED
      BY <1>1, <1>6, <2>1, <2>2 DEF Range
  <1>8. Distinct(r)
    <2>. SUFFICES ASSUME NEW i \in 1..n, NEW j \in 1..n, i # j
                  PROVE  r[i].tag # r[j].tag
      BY <1>6 DEF Distinct
    <2>1. (n - i) + 1 # (n - j) + 1
      BY <1>1
    <2>2. entries[(n - i) + 1].tag # entries[(n - j) + 1].tag
      BY <1>3, <2>1 DEF Distinct, n
    <2>. QED
      BY <1>4, <2>2
  <1>. QED
    BY <1>6, <1>7, <1>8 DEF r, n

LEMMA ReversedIsEncoded ==
  ASSUME NEW entries \in Seq(Entry), EncodeMetadata(entries).ok
  PROVE  EncodeMetadata(Reverse(entries)) = EncodeMetadata(entries)
  <1>. DEFINE r == Reverse(entries)
  <1>1. Distinct(entries)
    BY EncodedIsDistinct
  <1>2. r \in Seq(Entry) /\ Len(r) = Len(entries) /\ Range(r) = Range(entries) /\ Distinct(r)
    BY <1>1, ReversedEntries
  <1>. HIDE DEF r
  <1>3. Sorted(r) = Sorted(entries)
    <2>1. Ascending(Sorted(r)) /\ Ascending(Sorted(entries))
      BY <1>1, <1>2, DistinctAscend
    <2>2. /\ Sorted(r) \in Seq(Entry) /\ Sorted(entries) \in Seq(Entry)
          /\ Len(Sorted(r)) = Len(Sorted(entries)) /\ Range(Sorted(r)) = Range(Sorted(entries))
      BY <1>2, SortedIsSeq, SortedHasAll
    <2>. QED
      BY <2>1, <2>2, OrderIsUnique
  <1>4. CASE entries = <<>>
    <2>1. r = <<>>
      BY <1>2, <1>4
    <2>. QED
      BY <1>4, <2>1 DEF r
  <1>5. CASE entries # <<>>
    <2>1. r # <<>>
      BY <1>2, <1>5
    <2>. QED
      BY <1>3, <1>5, <2>1, EncodesSorted DEF r
  <1>. QED
    BY <1>4, <1>5

-----------------------------------------------------------------------------
(* What the parser accepts, the encoder writes.  An entry that it takes    *)
(* is the cells it was read from.                                          *)
TakesEntry(body, at) ==
  LET e == EntryAt(body, at)
  IN  /\ e \in Entry /\ validReservedMetadata(e)
      /\ EntryEnd(body, at) \in Nat /\ at < EntryEnd(body, at) /\ EntryEnd(body, at) <= Len(body)
      /\ EntryCells(e) = SubSeq(body, at + 1, EntryEnd(body, at))

LEMMA NumberIsItself ==
  ASSUME NEW c \in NumCells
  PROVE  U32(c) \in 0..MaxU32 /\ c = Num(U32(c))
  BY DEF NumCells, U32, Num

LEMMA EntryIsTaken ==
  ASSUME NEW body \in Seq(NumCells), NEW at \in Nat, NEW entries, AcceptsEntry(body, at, entries)
  PROVE  TakesEntry(body, at)
  <1>. DEFINE e == EntryAt(body, at)
              end == EntryEnd(body, at)
              tag == U32(body[at + 1])
              n == U32(body[at + 2])
              v == SubSeq(body, (at + 2) + 1, (at + 2) + n)
              W == [t : {"num"}, n : Nat]
  <1>1. Len(body) \in Nat /\ Len(body) - at >= 2 /\ end <= Len(body) /\ validReservedMetadata(e)
    BY DEF AcceptsEntry, EntryPrefix
  <1>2. at + 1 \in 1..Len(body) /\ at + 2 \in 1..Len(body)
    BY <1>1
  <1>3. body[at + 1] \in NumCells /\ body[at + 2] \in NumCells
    BY <1>2
  <1>4. /\ tag \in 0..MaxU32 /\ n \in 0..MaxU32 /\ body[at + 1] = Num(tag) /\ body[at + 2] = Num(n)
    BY <1>3, NumberIsItself
  <1>5. n \in Nat
    BY <1>4, WidthAssumption
  <1>6. end = at + 2 + n
    BY DEF EntryEnd, EntryPrefix
  <1>7. at + 2 + n = (at + 2) + n /\ at + 2 + 1 = (at + 2) + 1 /\ (at + 2) + n = at + (2 + n)
        /\ at + 2 \in Nat /\ 2 + n \in Nat
    BY <1>5
  <1>8. e = [tag |-> tag, value |-> v]
    BY <1>6, <1>7, Zenon DEF EntryAt, EntryPrefix
  <1>. HIDE DEF end, tag, n
  <1>9. end \in Nat /\ at < end
    BY <1>5, <1>6
  <1>10. (at + 2) + n <= Len(body) /\ at + (2 + n) <= Len(body)
    BY <1>1, <1>5, <1>6
  <1>11. v \in Seq(NumCells) /\ Len(v) = n /\ \A i \in 1..n : v[i] = body[(at + 2) + i]
    <2>. DEFINE m == at + 2
    <2>1. m \in Nat /\ m + n <= Len(body) /\ body \in Seq(NumCells)
      BY <1>7, <1>10
    <2>. HIDE DEF m
    <2>2. /\ SubSeq(body, m + 1, m + n) \in Seq(NumCells) /\ Len(SubSeq(body, m + 1, m + n)) = n
          /\ \A i \in 1..n : SubSeq(body, m + 1, m + n)[i] = body[m + i]
      <3>1. n \in Nat /\ m \in Nat /\ body \in Seq(NumCells) /\ m + n <= Len(body)
        BY <1>5, <2>1, Zenon
      <3>2. SubSeq(body, m + 1, m + n) \in Seq(NumCells)
        BY <3>1, PartAfter, Zenon
      <3>3. Len(SubSeq(body, m + 1, m + n)) = n
        BY <3>1, PartAfter, Zenon
      <3>4. \A i \in 1..n : SubSeq(body, m + 1, m + n)[i] = body[m + i]
        BY <3>1, PartAfter
      <3>. QED
        BY <3>2, <3>3, <3>4, Zenon
    <2>. QED
      BY <2>2, Zenon DEF m
  <1>. HIDE DEF v
  <1>12. e \in Entry
    BY <1>4, <1>8, <1>11 DEF Entry
  <1>. DEFINE part == SubSeq(body, at + 1, at + (2 + n))
              cells == EntryCells(e)
              prefix == <<Num(tag), Num(n)>>
  <1>13. part \in Seq(NumCells) /\ Len(part) = 2 + n /\ \A i \in 1..2 + n : part[i] = body[at + i]
    <2>. DEFINE m == 2 + n
    <2>1. m \in Nat /\ at + m <= Len(body)
      BY <1>7, <1>10
    <2>. HIDE DEF m
    <2>2. /\ SubSeq(body, at + 1, at + m) \in Seq(NumCells) /\ Len(SubSeq(body, at + 1, at + m)) = m
          /\ \A i \in 1..m : SubSeq(body, at + 1, at + m)[i] = body[at + i]
      BY <2>1, PartAfter
    <2>. QED
      BY <2>2, Zenon DEF m
  <1>14. cells = prefix \o v
    BY <1>8, <1>11 DEF EntryCells
  <1>15. NumCells \subseteq W /\ Num(tag) \in W /\ Num(n) \in W
    BY <1>4, <1>5, WidthAssumption DEF NumCells, Num
  <1>. HIDE DEF part, W, e, end
  <1>16. prefix \in Seq(W) /\ Len(prefix) = 2 /\ prefix[1] = Num(tag) /\ prefix[2] = Num(n)
    BY <1>15
  <1>17. v \in Seq(W) /\ part \in Seq(W)
    BY <1>11, <1>13, <1>15
  <1>. HIDE DEF prefix
  <1>18. /\ prefix \o v \in Seq(W) /\ Len(prefix \o v) = Len(prefix) + Len(v)
         /\ \A i \in 1..Len(prefix) + Len(v) :
              (prefix \o v)[i] = IF i <= Len(prefix) THEN prefix[i] ELSE v[i - Len(prefix)]
    BY <1>16, <1>17, ConcatProperties
  <1>. DEFINE c == prefix \o v
  <1>19. c \in Seq(W) /\ Len(c) = 2 + n /\ \A i \in 1..2 + n : c[i] = IF i <= 2 THEN prefix[i] ELSE v[i - 2]
    BY <1>11, <1>16, <1>18
  <1>. HIDE DEF c
  <1>20. ASSUME NEW i \in 1..2 + n
         PROVE  c[i] = part[i]
    <2>1. part[i] = body[at + i]
      BY <1>13
    <2>2. CASE i = 1
      <3>1. c[1] = prefix[1]
        BY <1>5, <1>19
      <3>. QED
        BY <1>4, <1>16, <2>1, <2>2, <3>1
    <2>3. CASE i = 2
      <3>1. c[2] = prefix[2]
        BY <1>5, <1>19
      <3>. QED
        BY <1>4, <1>16, <2>1, <2>3, <3>1
    <2>4. CASE i # 1 /\ i # 2
      <3>1. i - 2 \in 1..n /\ ~(i <= 2) /\ (at + 2) + (i - 2) = at + i
        BY <1>5, <2>4
      <3>2. c[i] = v[i - 2]
        BY <1>19, <3>1
      <3>. QED
        BY <1>11, <2>1, <3>1, <3>2
    <2>. QED
      BY <2>2, <2>3, <2>4
  <1>21. c = part
    BY <1>13, <1>17, <1>19, <1>20, SeqsAreEqual
  <1>22. EntryCells(e) = SubSeq(body, at + 1, end)
    BY <1>6, <1>7, <1>14, <1>21, Zenon DEF c, part
  <1>. QED
    BY <1>1, <1>9, <1>12, <1>22, Zenon DEF TakesEntry, e, end

(* One entry more is its cells more.                                       *)
LEMMA OneEntryMore ==
  ASSUME NEW entries \in Seq(Entry), NEW e \in Entry
  PROVE  BodyOf(Append(entries, e)) = BodyOf(entries) \o EntryCells(e)
  <1>. DEFINE more == Append(entries, e)
              W == [t : {"num"}, n : Nat]
              s == EntriesCells(entries)
              t == EntriesCells(more)
  <1>1. /\ more \in Seq(Entry) /\ Len(more) = Len(entries) + 1 /\ Len(entries) \in Nat
        /\ more[Len(more)] = e /\ \A i \in 1..Len(entries) : more[i] = entries[i]
    <2>1. /\ more \in Seq(Entry) /\ Len(more) = Len(entries) + 1 /\ Len(entries) \in Nat
          /\ \A i \in 1..Len(entries) + 1 : more[i] = IF i <= Len(entries) THEN entries[i] ELSE e
      BY AppendProperties
    <2>. HIDE DEF more
    <2>2. Len(more) \in 1..Len(entries) + 1 /\ ~(Len(more) <= Len(entries))
      BY <2>1
    <2>3. more[Len(more)] = e
      BY <2>1, <2>2
    <2>4. \A i \in 1..Len(entries) : i \in 1..Len(entries) + 1 /\ i <= Len(entries)
      BY <2>1
    <2>. QED
      BY <2>1, <2>3, <2>4
  <1>. HIDE DEF more
  <1>2. /\ s \in Seq(Seq(W)) /\ Len(s) = Len(entries)
        /\ \A i \in 1..Len(entries) : s[i] = EntryCells(entries[i])
    BY EntriesAreSeqs
  <1>3. /\ t \in Seq(Seq(W)) /\ Len(t) = Len(more)
        /\ \A i \in 1..Len(more) : t[i] = EntryCells(more[i])
    BY <1>1, EntriesAreSeqs
  <1>. HIDE DEF s, t, W
  <1>4. \A i \in 1..Len(s) : t[i] = s[i]
    <2>1. \A i \in 1..Len(entries) : i \in 1..Len(more)
      BY <1>1
    <2>. QED
      BY <1>1, <1>2, <1>3, <2>1
  <1>5. t[Len(t)] = EntryCells(e)
    <2>1. Len(t) \in 1..Len(more)
      BY <1>1, <1>3
    <2>. QED
      BY <1>1, <1>3, <2>1
  <1>6. Len(t) = Len(s) + 1
    BY <1>1, <1>2, <1>3
  <1>7. FlattenSeq(t) = FlattenSeq(s) \o t[Len(t)]
    BY <1>2, <1>3, <1>4, <1>6, FlattenOneMore
  <1>. QED
    BY <1>5, <1>7 DEF BodyOf, s, t, more

(* And it may come after those of smaller tags.                            *)
LEMMA LegalWithNext ==
  ASSUME NEW entries, LegalEntries(entries), NEW e \in Entry, validReservedMetadata(e),
         Ascends(LastTag(entries), e.tag)
  PROVE  LegalEntries(Append(entries, e))
  <1>. DEFINE more == Append(entries, e)
              n == Len(entries)
  <1>1. entries \in Seq(Entry) /\ n \in Nat /\ Ascending(entries)
        /\ \A i \in 1..n : validReservedMetadata(entries[i])
    BY DEF LegalEntries
  <1>2. /\ more \in Seq(Entry) /\ Len(more) = n + 1
        /\ \A i \in 1..n + 1 : more[i] = IF i <= n THEN entries[i] ELSE e
    BY <1>1, AppendProperties
  <1>. HIDE DEF more
  <1>3. ASSUME NEW i \in 1..n + 1 PROVE validReservedMetadata(more[i])
    <2>1. CASE i <= n
      <3>1. i \in 1..n /\ more[i] = entries[i]
        BY <1>1, <1>2, <2>1
      <3>. QED
        BY <1>1, <3>1
    <2>2. CASE ~(i <= n)
      BY <1>2, <2>2
    <2>. QED
      BY <2>1, <2>2
  <1>4. ASSUME NEW i \in 2..n + 1 PROVE more[i - 1].tag < more[i].tag
    <2>1. i - 1 \in 1..n /\ i \in 1..n + 1 /\ i - 1 <= n /\ i - 1 \in 1..n + 1
      BY <1>1
    <2>2. more[i - 1] = entries[i - 1]
      BY <1>2, <2>1
    <2>3. CASE i <= n
      <3>1. i \in 2..n /\ more[i] = entries[i]
        BY <1>1, <1>2, <2>1, <2>3
      <3>. QED
        BY <1>1, <2>2, <3>1 DEF Ascending
    <2>4. CASE ~(i <= n)
      <3>1. i - 1 = n /\ entries # <<>> /\ more[i] = e
        BY <1>1, <1>2, <2>1, <2>4
      <3>2. LastTag(entries) = entries[n].tag
        BY <3>1 DEF LastTag
      <3>. QED
        BY <2>2, <3>1, <3>2 DEF Ascends
    <2>. QED
      BY <2>3, <2>4
  <1>5. Ascending(more)
    BY <1>2, <1>4 DEF Ascending
  <1>. QED
    BY <1>2, <1>3, <1>5 DEF LegalEntries, more

(* The loop has read legal entries, which are the cells before its offset. *)
ReadSoFar(body, r) ==
  /\ r \in ParseStates(body) /\ r.offset <= Len(body) /\ LegalEntries(r.entries)
  /\ BodyOf(r.entries) = SubSeq(body, 1, r.offset)

NextOf(body, r) == ParsedTo(EntryEnd(body, r.offset), Append(r.entries, EntryAt(body, r.offset)))

LEMMA NextIsRead ==
  ASSUME NEW body \in Seq(NumCells), NEW r, ReadSoFar(body, r), r.offset < Len(body),
         AcceptsEntry(body, r.offset, r.entries)
  PROVE  ReadSoFar(body, NextOf(body, r)) /\ r.offset < NextOf(body, r).offset
  <1>. DEFINE o == r.offset
              es == r.entries
              e == EntryAt(body, o)
              end == EntryEnd(body, o)
              more == Append(es, e)
  <1>1. o \in Nat /\ r \in ParseStates(body) /\ LegalEntries(es) /\ es \in Seq(Entry)
        /\ BodyOf(es) = SubSeq(body, 1, o) /\ Len(body) \in Nat
    BY DEF ReadSoFar, ParseStates, LegalEntries
  <1>2. TakesEntry(body, o)
    BY <1>1, EntryIsTaken
  <1>3. /\ e \in Entry /\ validReservedMetadata(e) /\ end \in Nat /\ o < end /\ end <= Len(body)
        /\ EntryCells(e) = SubSeq(body, o + 1, end)
    BY <1>2, Zenon DEF TakesEntry
  <1>4. body \in Seq(Cells)
    <2>1. NumCells \subseteq Cells
      BY DEF Cells
    <2>. QED
      BY <2>1
  <1>5. NextOf(body, r) \in ParseStates(body)
    BY <1>1, <1>4, EntryFits, Zenon DEF NextOf
  <1>6. NextOf(body, r).offset = end /\ NextOf(body, r).entries = more
    BY DEF NextOf, ParsedTo
  <1>7. Ascends(LastTag(es), e.tag)
    <2>1. e.tag = U32(body[o + 1])
      BY DEF EntryAt
    <2>. QED
      BY <2>1, Zenon DEF AcceptsEntry
  <1>8. LegalEntries(more)
    <2>. HIDE DEF es, e
    <2>. QED
      BY <1>1, <1>3, <1>7, LegalWithNext
  <1>9. BodyOf(more) = SubSeq(body, 1, end)
    <2>1. BodyOf(more) = BodyOf(es) \o EntryCells(e)
      <3>. HIDE DEF es, e
      <3>. QED
        BY <1>1, <1>3, OneEntryMore
    <2>2. SubSeq(body, 1, o) \o SubSeq(body, o + 1, end) = SubSeq(body, 1, end)
      <3>. HIDE DEF o, end
      <3>1. 1 \in 1..Len(body) + 1 /\ o \in 1 - 1..Len(body) /\ end \in o..Len(body)
        BY <1>1, <1>3
      <3>. QED
        BY <3>1, ConcatAdjacentSubSeq
    <2>. QED
      BY <1>1, <1>3, <2>1, <2>2, Zenon
  <1>. HIDE DEF o, es, e, end, more
  <1>. QED
    BY <1>3, <1>5, <1>6, <1>8, <1>9 DEF ReadSoFar, o

(* So are the entries it ends with, and there is nothing after them.       *)
IsWritten(body, p) ==
  p.ok => p = Parsed(p.entries) /\ LegalEntries(p.entries) /\ BodyOf(p.entries) = body

LEMMA RestIsWritten ==
  ASSUME NEW body \in Seq(NumCells), NEW r, ReadSoFar(body, r)
  PROVE  IsWritten(body, ParseFrom(body)[r])
  <1>. DEFINE p == ParseFrom(body)
              Left(m) == \E q : ReadSoFar(body, q) /\ m = Len(body) - q.offset /\ ~IsWritten(body, p[q])
              T == {m \in Nat : Left(m)}
  <1>0. \A q : ReadSoFar(body, q) =>
          q \in ParseStates(body) /\ q.offset \in Nat /\ Len(body) - q.offset \in Nat /\ q.offset <= Len(body)
    BY DEF ReadSoFar, ParseStates
  <1>1. body \in Seq(Cells)
    <2>1. NumCells \subseteq Cells
      BY DEF Cells
    <2>. QED
      BY <2>1
  <1>. HIDE DEF p
  <1>2. SUFFICES ASSUME T # {}
                 PROVE  FALSE
    BY <1>0 DEF p
  <1>3. PICK x \in T : \A y \in T : x <= y
    <2>1. T \in SUBSET Nat
      OBVIOUS
    <2>. HIDE DEF T
    <2>. QED
      BY <1>2, <2>1, LeastOf
  <1>4. PICK q : ReadSoFar(body, q) /\ x = Len(body) - q.offset /\ ~IsWritten(body, p[q])
    BY <1>3
  <1>5. p[q] = EntryTurn(p, body, q) /\ q.offset \in Nat /\ q.offset <= Len(body) /\ Len(body) \in Nat
    BY <1>0, <1>1, <1>4, ParseSteps DEF p
  <1>6. CASE q.offset >= Len(body)
    <2>1. p[q] = Parsed(q.entries)
      BY <1>5, <1>6, Zenon DEF EntryTurn
    <2>2. Parsed(q.entries).entries = q.entries
      BY DEF Parsed
    <2>3. q.offset = Len(body) /\ SubSeq(body, 1, Len(body)) = body
      BY <1>5, <1>6
    <2>4. LegalEntries(q.entries) /\ BodyOf(q.entries) = body
      BY <1>4, <2>3 DEF ReadSoFar
    <2>. QED
      BY <1>4, <2>1, <2>2, <2>4, Zenon DEF IsWritten
  <1>7. CASE ~(q.offset >= Len(body)) /\ ~AcceptsEntry(body, q.offset, q.entries)
    <2>1. p[q] = Malformed
      BY <1>5, <1>7, Zenon DEF EntryTurn
    <2>2. ~Malformed.ok
      BY DEF Malformed
    <2>. QED
      BY <1>4, <2>1, <2>2, Zenon DEF IsWritten
  <1>8. CASE ~(q.offset >= Len(body)) /\ AcceptsEntry(body, q.offset, q.entries)
    <2>. DEFINE z == NextOf(body, q)
    <2>1. p[q] = p[z]
      BY <1>5, <1>8, Zenon DEF EntryTurn, NextOf
    <2>2. q.offset < Len(body)
      BY <1>5, <1>8
    <2>3. ReadSoFar(body, z) /\ q.offset < z.offset
      BY <1>4, <1>8, <2>2, NextIsRead
    <2>. HIDE DEF z
    <2>4. z.offset \in Nat /\ Len(body) - z.offset \in Nat /\ ~(x <= Len(body) - z.offset)
      BY <1>0, <1>4, <1>5, <2>3
    <2>5. Left(Len(body) - z.offset)
      BY <1>4, <2>1, <2>3
    <2>. QED
      BY <1>3, <2>4, <2>5
  <1>. QED
    BY <1>6, <1>7, <1>8

LEMMA NothingRead ==
  ASSUME NEW body \in Seq(NumCells)
  PROVE  ReadSoFar(body, ParsedTo(0, <<>>))
  <1>1. ParsedTo(0, <<>>) \in ParseStates(body) /\ ParsedTo(0, <<>>).offset = 0
        /\ ParsedTo(0, <<>>).entries = <<>>
    BY EmptySeq DEF ParsedTo, ParseStates
  <1>2. <<>> \in Seq(Entry) /\ Len(<<>>) = 0
    OBVIOUS
  <1>3. LegalEntries(<<>>)
    BY <1>2 DEF LegalEntries, Ascending
  <1>4. BodyOf(<<>>) = <<>>
    <2>1. Len(EntriesCells(<<>>)) = 0 /\ EntriesCells(<<>>) \in Seq(Seq([t : {"num"}, n : Nat]))
      BY <1>2, EntriesAreSeqs
    <2>2. FlattenSeq(EntriesCells(<<>>)) = EntriesCells(<<>>)
      BY <2>1, FlattenNothing
    <2>. QED
      BY <2>1, <2>2 DEF BodyOf
  <1>5. SubSeq(body, 1, 0) = <<>> /\ 0 <= Len(body)
    OBVIOUS
  <1>. QED
    BY <1>1, <1>3, <1>4, <1>5 DEF ReadSoFar

LEMMA OnlyElement ==
  ASSUME NEW S, NEW s \in Seq(S), Len(s) = 1
  PROVE  s = <<s[1]>>
  <1>1. 1 \in 1..1 /\ s[1] \in S
    OBVIOUS
  <1>. DEFINE t == <<s[1]>>
  <1>2. t \in Seq(S) /\ Len(t) = 1 /\ t[1] = s[1]
    BY <1>1
  <1>3. \A i \in 1..Len(s) : s[i] = t[i]
    <2>. HIDE DEF t
    <2>1. \A i \in 1..1 : i = 1
      OBVIOUS
    <2>. QED
      BY <1>2, <2>1
  <1>. HIDE DEF t
  <1>4. s = t
    BY <1>2, <1>3, SeqsAreEqual
  <1>. QED
    BY <1>4 DEF t

LEMMA AcceptedIsWritten ==
  ASSUME NEW data \in Seq(NumCells), ParseMetadata(data).ok
  PROVE  EncodeMetadata(ParseMetadata(data).entries) =
           [ok |-> TRUE, region |-> SubSeq(data, 1, 1 + U32(data[1]))]
  <1>. DEFINE n == U32(data[1])
              body == SubSeq(data, 2, 1 + n)
              p == ParseMetadata(data)
              s == p.entries
  <1>1. data # <<>> /\ n # 0 /\ ~(n > Len(data) - 1)
    <2>1. ~Malformed.ok
      BY DEF Malformed
    <2>2. data = <<>> => ParseMetadata(data) = Malformed
      BY Zenon DEF ParseMetadata
    <2>3. (data # <<>> /\ (n = 0 \/ n > Len(data) - 1)) => ParseMetadata(data) = Malformed
      BY Zenon DEF ParseMetadata
    <2>. QED
      BY <2>1, <2>2, <2>3, Zenon
  <1>2. Len(data) \in Nat /\ 1 \in 1..Len(data) /\ data[1] \in NumCells
    BY <1>1
  <1>3. n \in 0..MaxU32 /\ data[1] = Num(n)
    BY <1>2, NumberIsItself
  <1>4. n \in Nat /\ n <= MaxU32 /\ 1 + n \in Nat /\ 1 + n <= Len(data)
    BY <1>1, <1>2, <1>3, WidthAssumption
  <1>5. p = ParseFrom(body)[ParsedTo(0, <<>>)]
    BY <1>1, ParsedByLoop
  <1>. HIDE DEF n
  <1>6. body \in Seq(NumCells) /\ Len(body) = n
    <2>1. 1 + 1 = 2 /\ 1 \in Nat
      OBVIOUS
    <2>2. SubSeq(data, 1 + 1, 1 + n) \in Seq(NumCells) /\ Len(SubSeq(data, 1 + 1, 1 + n)) = n
      BY <1>4, <2>1, PartAfter
    <2>. QED
      BY <2>1, <2>2
  <1>7. LegalEntries(s) /\ BodyOf(s) = body
    <2>. HIDE DEF body
    <2>1. IsWritten(body, ParseFrom(body)[ParsedTo(0, <<>>)])
      BY <1>6, NothingRead, RestIsWritten
    <2>. QED
      BY <1>5, <2>1, Zenon DEF IsWritten
  <1>8. s \in Seq(Entry) /\ Ascending(s) /\ \A i \in 1..Len(s) : validReservedMetadata(s[i])
    BY <1>7, Zenon DEF LegalEntries
  <1>. HIDE DEF p, s
  <1>9. Sorted(s) = s
    BY <1>8, AscendingIsSorted
  <1>10. s # <<>>
    <2>1. BodyOf(<<>>) = <<>>
      <3>1. ReadSoFar(body, ParsedTo(0, <<>>))
        BY <1>6, NothingRead
      <3>2. ParsedTo(0, <<>>).entries = <<>> /\ ParsedTo(0, <<>>).offset = 0 /\ SubSeq(body, 1, 0) = <<>>
        BY <1>6 DEF ParsedTo
      <3>. QED
        BY <3>1, <3>2 DEF ReadSoFar
    <2>. HIDE DEF body
    <2>. QED
      BY <1>1, <1>6, <1>7, <2>1
  <1>11. \A i \in DOMAIN s : validReservedMetadata(s[i]) /\ (i > 1 => s[i-1].tag # s[i].tag)
    <2>. SUFFICES ASSUME NEW i \in 1..Len(s)
                  PROVE  validReservedMetadata(s[i]) /\ (i > 1 => s[i-1].tag # s[i].tag)
      BY <1>8
    <2>1. ASSUME i > 1 PROVE s[i - 1].tag # s[i].tag
      <3>1. i - 1 \in 1..Len(s) /\ i - 1 # i
        BY <2>1
      <3>. QED
        BY <1>8, <3>1, AscendingIsDistinct DEF Distinct
    <2>. QED
      BY <1>8, <2>1
  <1>12. EncodedInOrder(s) = [ok |-> TRUE, region |-> <<Num(n)>> \o body]
    <2>. HIDE DEF body
    <2>1. Len(BodyOf(s)) <= MaxU32 /\ Len(BodyOf(s)) = n
      BY <1>4, <1>6, <1>7
    <2>. QED
      BY <1>7, <1>11, <2>1, Zenon DEF EncodedInOrder
  <1>13. <<Num(n)>> \o body = SubSeq(data, 1, 1 + n)
    <2>1. SubSeq(data, 1, 1) = <<data[1]>>
      <3>. DEFINE part == SubSeq(data, 1, 1)
      <3>1. 1 \in Nat /\ 1 <= Len(data) /\ 1 \in 1..1 - 1 + 1 /\ 1 + 1 - 1 = 1
        BY <1>2
      <3>2. part \in Seq(NumCells) /\ Len(part) = 1 /\ part[1] = data[1]
        BY <3>1, PartOf
      <3>. HIDE DEF part
      <3>3. part = <<part[1]>>
        BY <3>2, OnlyElement
      <3>. QED
        BY <3>2, <3>3, Zenon DEF part
    <2>2. SubSeq(data, 1, 1) \o SubSeq(data, 1 + 1, 1 + n) = SubSeq(data, 1, 1 + n)
      <3>1. 1 \in 1..Len(data) + 1 /\ 1 \in 1 - 1..Len(data) /\ 1 + n \in 1..Len(data)
        BY <1>2, <1>4
      <3>. QED
        BY <3>1, ConcatAdjacentSubSeq
    <2>3. 1 + 1 = 2
      OBVIOUS
    <2>. QED
      BY <1>3, <2>1, <2>2, <2>3, Zenon
  <1>14. EncodeMetadata(s) = EncodedInOrder(s)
    BY <1>9, <1>10, EncodesSorted
  <1>. QED
    BY <1>12, <1>13, <1>14, Zenon DEF s, p, n

-----------------------------------------------------------------------------
(* Decoded with the entries in order.                                      *)
DecodesBack(container, key, caps, data, entries) ==
  LET d == decodeBytes(container, key, caps)
  IN  d.err = NoError /\ d.plain = data /\ InTagOrder(d.entries, entries)

LEMMA DecodedInOrder ==
  \A container, key, caps, data : \A entries \in Seq(Entry) :
    EncodeMetadata(entries).ok /\ DecodesTo(container, key, caps, data, Sorted(entries)) =>
      DecodesBack(container, key, caps, data, entries)
  BY SortedInOrder DEF DecodesTo, DecodesBack

LEMMA EntriesDecode ==
  ASSUME NEW container, NEW key, NEW header, NEW data, NEW size, NEW bodies, NEW entries \in Seq(Entry),
         EncodeMetadata(entries).ok,
         Honest(container, key, header, EncodeMetadata(entries).region, Sorted(entries), data, size, bodies),
         NEW caps, AmpleCaps(caps)
  PROVE  DecodesTo(container, key, caps, data, Sorted(entries))
  <1>. DEFINE meta == EncodeMetadata(entries).region
  <1>1. (meta = <<>>) = (entries = <<>>)
    BY MetadataIsThere
  <1>2. (IF meta # <<>> THEN Sorted(entries) ELSE <<>>) = Sorted(entries)
    <2>. HIDE DEF meta
    <2>1. CASE entries = <<>>
      BY <1>1, <2>1, SortedNothing
    <2>2. CASE entries # <<>>
      BY <1>1, <2>2
    <2>. QED
      BY <2>1, <2>2
  <1>3. DecodesTo(container, key, caps, data, IF meta # <<>> THEN Sorted(entries) ELSE <<>>)
    BY HonestDecodes
  <1>. QED
    BY <1>2, <1>3, Zenon

LEMMA PlainDecodes ==
  ASSUME NEW data \in Seq(NumCells), Len(data) <= MaxU64, NEW entries \in Seq(Entry),
         NEW size \in 0..MaxU32, NEW key \in Seq(Nat), NEW caps, AmpleCaps(caps),
         EncodePlain(data, entries, size).err = NoError
  PROVE  DecodesBack(EncodePlain(data, entries, size).out, key, caps, data, entries)
  <1>. DEFINE r == EncodePlain(data, entries, size)
              header == HeaderCell(PlainHeader(size, Len(data), EncodeMetadata(entries).region # <<>>))
              bodies == ChunksOf(data, size)
  <1>1. /\ EncodeMetadata(entries).ok
        /\ Honest(r.out, key, header, EncodeMetadata(entries).region, Sorted(entries), data, size, bodies)
    BY PlainIsHonest
  <1>. HIDE DEF header, bodies, r
  <1>2. DecodesTo(r.out, key, caps, data, Sorted(entries))
    BY <1>1, EntriesDecode
  <1>. QED
    BY <1>1, <1>2, DecodedInOrder, Zenon DEF r

LEMMA EncryptedDecodes ==
  ASSUME NEW data \in Seq(NumCells), Len(data) <= MaxU64, NEW entries \in Seq(Entry),
         NEW size \in 0..MaxU32, NEW key \in Seq(Nat), NEW base \in Nat, NEW caps, AmpleCaps(caps),
         EncodeEncryptedWithFixedNonce(data, key, base, entries, size).err = NoError
  PROVE  DecodesBack(EncodeEncryptedWithFixedNonce(data, key, base, entries, size).out,
                     key, caps, data, entries)
  <1>. DEFINE r == EncodeEncryptedWithFixedNonce(data, key, base, entries, size)
  <1>1. /\ EncodeMetadata(entries).ok
        /\ \E header, bodies :
             Honest(r.out, key, header, EncodeMetadata(entries).region, Sorted(entries), data, size, bodies)
    BY EncryptedIsHonest
  <1>2. PICK header, bodies :
          Honest(r.out, key, header, EncodeMetadata(entries).region, Sorted(entries), data, size, bodies)
    BY <1>1
  <1>. HIDE DEF r
  <1>3. DecodesTo(r.out, key, caps, data, Sorted(entries))
    BY <1>1, <1>2, EntriesDecode
  <1>. QED
    BY <1>1, <1>3, DecodedInOrder, Zenon DEF r

-----------------------------------------------------------------------------
(* What a root and a tag tell of the container they stand in.              *)

(* What a reader feeds its hash of the chunks.                             *)
Leaflets == [t : {"leaf"}, body : Seq(Cells)]

LEMMA CellsAreNoLeaves ==
  \A c \in Cells : c.t # "leaf"
  BY DEF Cells, NumCells, HeaderCells, CtCells, TagCells, RootCells, MagicEnd, Junk

LEMMA InRange ==
  ASSUME NEW S, NEW s \in Seq(S), NEW x \in Range(s)
  PROVE  \E i \in 1..Len(s) : s[i] = x
  BY DEF Range

LEMMA IntoRange ==
  ASSUME NEW S, NEW s \in Seq(S), NEW i \in 1..Len(s)
  PROVE  s[i] \in Range(s)
  BY DEF Range

LEMMA InputParts ==
  ASSUME NEW S, NEW h \in S, NEW a \in Seq(S), NEW l \in Seq(S), NEW x, x = (<<h>> \o a) \o l
  PROVE  /\ Len(x) = 1 + Len(a) + Len(l) /\ x[1] = h
         /\ \A i \in 1..Len(a) : x[1 + i] = a[i]
         /\ \A i \in 1..Len(l) : x[1 + Len(a) + i] = l[i]
  <1>1. PICK k \in Nat, n \in Nat : k = Len(a) /\ n = Len(l)
    BY LenProperties
  <1>. DEFINE first == <<h>>
              p == first \o a
  <1>2. first \in Seq(S) /\ Len(first) = 1 /\ first[1] = h
    OBVIOUS
  <1>. HIDE DEF first
  <1>3. /\ p \in Seq(S) /\ Len(p) = 1 + k
        /\ \A i \in 1..1 + k : p[i] = IF i <= 1 THEN first[i] ELSE a[i - 1]
    <2>1. /\ p \in Seq(S) /\ Len(p) = Len(first) + Len(a)
          /\ \A i \in 1..Len(first) + Len(a) : p[i] = IF i <= Len(first) THEN first[i] ELSE a[i - Len(first)]
      BY <1>2, ConcatProperties
    <2>. HIDE DEF p
    <2>. QED
      BY <1>1, <1>2, <2>1
  <1>4. p[1] = h /\ \A i \in 1..k : p[1 + i] = a[i]
    <2>1. 1 \in 1..1 + k /\ 1 <= 1
      OBVIOUS
    <2>2. ASSUME NEW i \in 1..k PROVE p[1 + i] = a[i]
      <3>1. 1 + i \in 1..1 + k /\ ~(1 + i <= 1) /\ (1 + i) - 1 = i
        OBVIOUS
      <3>. QED
        BY <1>3, <3>1
    <2>. QED
      BY <1>2, <1>3, <2>1, <2>2
  <1>5. x = p \o l
    BY DEF p, first
  <1>. HIDE DEF p
  <1>6. /\ Len(x) = 1 + k + n
        /\ \A i \in 1..1 + k + n : x[i] = IF i <= 1 + k THEN p[i] ELSE l[i - (1 + k)]
    BY <1>1, <1>3, <1>5, ConcatProperties
  <1>7. x[1] = h
    <2>1. 1 \in 1..1 + k + n /\ 1 <= 1 + k
      OBVIOUS
    <2>. QED
      BY <1>4, <1>6, <2>1
  <1>8. ASSUME NEW i \in 1..k PROVE x[1 + i] = a[i]
    <2>1. 1 + i \in 1..1 + k + n /\ 1 + i <= 1 + k
      OBVIOUS
    <2>. QED
      BY <1>4, <1>6, <2>1
  <1>9. ASSUME NEW i \in 1..n PROVE x[1 + k + i] = l[i]
    <2>1. 1 + k + i \in 1..1 + k + n /\ ~(1 + k + i <= 1 + k) /\ (1 + k + i) - (1 + k) = i
      OBVIOUS
    <2>. QED
      BY <1>6, <2>1
  <1>. QED
    BY <1>1, <1>6, <1>7, <1>8, <1>9

LEMMA RegionsEndAlike ==
  ASSUME NEW h, NEW g, NEW a \in Seq(Cells), NEW b \in Seq(Cells),
         NEW l \in Seq(Leaflets), NEW m \in Seq(Leaflets),
         (<<h>> \o a) \o l = (<<g>> \o b) \o m
  PROVE  ~(Len(a) < Len(b))
  <1>. DEFINE S == {h, g} \cup Cells \cup Leaflets
              x == (<<h>> \o a) \o l
  <1>1. /\ h \in S /\ g \in S /\ a \in Seq(S) /\ b \in Seq(S) /\ l \in Seq(S) /\ m \in Seq(S)
    <2>1. Cells \subseteq S /\ Leaflets \subseteq S
      OBVIOUS
    <2>. HIDE DEF S
    <2>2. a \in Seq(S) /\ b \in Seq(S) /\ l \in Seq(S) /\ m \in Seq(S)
      BY <2>1
    <2>. QED
      BY <2>2 DEF S
  <1>. HIDE DEF S
  <1>2. /\ Len(x) = 1 + Len(a) + Len(l)
        /\ \A i \in 1..Len(l) : x[1 + Len(a) + i] = l[i]
    BY <1>1, InputParts
  <1>3. x = (<<g>> \o b) \o m
    OBVIOUS
  <1>. HIDE DEF x
  <1>4. /\ Len(x) = 1 + Len(b) + Len(m)
        /\ \A i \in 1..Len(b) : x[1 + i] = b[i]
    BY <1>1, <1>3, InputParts
  <1>5. PICK k \in Nat, n \in Nat, r \in Nat, s \in Nat : k = Len(a) /\ n = Len(b) /\ r = Len(l) /\ s = Len(m)
    BY LenProperties
  <1>. SUFFICES ASSUME k < n PROVE FALSE
    BY <1>5
  <1>6. 1 \in 1..r /\ k + 1 \in 1..n
    BY <1>2, <1>4, <1>5
  <1>7. x[1 + k + 1] = l[1] /\ x[1 + (k + 1)] = b[k + 1] /\ 1 + k + 1 = 1 + (k + 1)
    BY <1>2, <1>4, <1>5, <1>6
  <1>8. l[1] \in Leaflets /\ b[k + 1] \in Cells
    BY <1>5, <1>6
  <1>9. l[1].t = "leaf" /\ b[k + 1].t # "leaf"
    BY <1>8, CellsAreNoLeaves DEF Leaflets
  <1>. QED
    BY <1>7, <1>9

SameInputs(h, a, l, g, b, m) == h = g /\ a = b /\ l = m

LEMMA InputSplits ==
  ASSUME NEW h, NEW g, NEW a \in Seq(Cells), NEW b \in Seq(Cells),
         NEW l \in Seq(Leaflets), NEW m \in Seq(Leaflets),
         (<<h>> \o a) \o l = (<<g>> \o b) \o m
  PROVE  SameInputs(h, a, l, g, b, m)
  <1>. DEFINE S == {h, g} \cup Cells \cup Leaflets
              x == (<<h>> \o a) \o l
  <1>1. /\ h \in S /\ g \in S /\ a \in Seq(S) /\ b \in Seq(S) /\ l \in Seq(S) /\ m \in Seq(S)
    <2>1. Cells \subseteq S /\ Leaflets \subseteq S
      OBVIOUS
    <2>. HIDE DEF S
    <2>2. a \in Seq(S) /\ b \in Seq(S) /\ l \in Seq(S) /\ m \in Seq(S)
      BY <2>1
    <2>. QED
      BY <2>2 DEF S
  <1>. HIDE DEF S
  <1>2. ~(Len(a) < Len(b)) /\ ~(Len(b) < Len(a))
    BY RegionsEndAlike
  <1>3. /\ Len(x) = 1 + Len(a) + Len(l) /\ x[1] = h
        /\ \A i \in 1..Len(a) : x[1 + i] = a[i]
        /\ \A i \in 1..Len(l) : x[1 + Len(a) + i] = l[i]
    BY <1>1, InputParts
  <1>4. x = (<<g>> \o b) \o m
    OBVIOUS
  <1>. HIDE DEF x
  <1>5. /\ Len(x) = 1 + Len(b) + Len(m) /\ x[1] = g
        /\ \A i \in 1..Len(b) : x[1 + i] = b[i]
        /\ \A i \in 1..Len(m) : x[1 + Len(b) + i] = m[i]
    BY <1>1, <1>4, InputParts
  <1>6. Len(a) \in Nat /\ Len(b) \in Nat /\ Len(l) \in Nat /\ Len(m) \in Nat
    BY LenProperties
  <1>7. Len(a) = Len(b)
    BY <1>2, <1>6
  <1>8. Len(l) = Len(m)
    BY <1>3, <1>5, <1>6, <1>7
  <1>9. a = b
    <2>1. \A i \in 1..Len(a) : a[i] = b[i]
      BY <1>3, <1>5, <1>7
    <2>. QED
      BY <1>7, <2>1, SeqsAreEqual
  <1>10. l = m
    <2>1. \A i \in 1..Len(l) : l[i] = m[i]
      BY <1>3, <1>5, <1>7, <1>8
    <2>. QED
      BY <1>8, <2>1, SeqsAreEqual
  <1>. QED
    BY <1>3, <1>5, <1>9, <1>10 DEF SameInputs

-----------------------------------------------------------------------------
LEMMA WrittenIsOver ==
  ASSUME NEW S, NumCells \subseteq S, NEW header \in S, NEW meta \in Seq(S), NEW bodies \in Seq(Seq(S)),
         \A i \in 1..Len(bodies) : Len(bodies[i]) <= MaxU32, NEW k \in 0..Len(bodies)
  PROVE  Written(header, meta, bodies, k) \in Seq(S)
  <1>. DEFINE frames == Frames(bodies)
  <1>1. /\ DOMAIN bodies = 1..Len(bodies) /\ Len(bodies) \in Nat
        /\ \A i \in 1..Len(bodies) : bodies[i] \in Seq(S)
    BY LenProperties, ElementOfSeq
  <1>2. ASSUME NEW i \in 1..Len(bodies)
        PROVE  Framed(bodies[i]) \in Seq(S)
    <2>1. bodies[i] \in Seq(S) /\ Len(bodies[i]) \in Nat /\ Len(bodies[i]) <= MaxU32
      BY <1>1, LenProperties
    <2>2. Num(Len(bodies[i])) \in S
      BY <2>1, WidthAssumption DEF Num, NumCells
    <2>3. <<Num(Len(bodies[i]))>> \in Seq(S)
      BY <2>2
    <2>. QED
      BY <2>1, <2>3, ConcatProperties DEF Framed
  <1>3. frames \in Seq(Seq(S)) /\ Len(frames) = Len(bodies)
    <2>1. frames = [i \in 1..Len(bodies) |-> Framed(bodies[i])]
      BY <1>1 DEF Frames
    <2>. QED
      BY <1>1, <1>2, <2>1
  <1>. HIDE DEF frames
  <1>4. Joined(frames, k) \in Seq(S)
    BY <1>3, JoinedIsSeq
  <1>5. <<header>> \in Seq(S)
    OBVIOUS
  <1>6. (<<header>> \o meta) \o Joined(frames, k) \in Seq(S)
    BY <1>4, <1>5, ConcatProperties
  <1>. QED
    BY <1>6 DEF Written, frames

(* A container as a reader meets it.                                       *)
IsMade(key, header, meta, bodies) ==
  /\ header \in HeaderCells /\ meta \in Seq(NumCells) /\ bodies \in Seq(Seq(BodyCells))
  /\ \A i \in 1..Len(bodies) : Len(bodies[i]) <= MaxU32
  /\ key \in {NoKey} \cup (Seq(Nat) \X Nat)

LEMMA MadeCell ==
  ASSUME NEW key, NEW header, NEW meta, NEW bodies, IsMade(key, header, meta, bodies),
         NEW S, NumCells \subseteq S, header \in S, meta \in Seq(S), bodies \in Seq(Seq(S)),
         NEW c \in Range(Container(key, header, meta, bodies))
  PROVE  \/ c \in S
         \/ c = RootCell(key, Hashed(header, meta, bodies, Len(bodies)))
         \/ c = MagicEnd
  <1>. DEFINE w == Written(header, meta, bodies, Len(bodies))
              root == RootCell(key, Hashed(header, meta, bodies, Len(bodies)))
              T == S \cup {root, MagicEnd}
              e == <<root, MagicEnd>>
  <1>1. Container(key, header, meta, bodies) = w \o e
    BY ContainerIsWritten DEF IsMade
  <1>2. w \in Seq(S)
    <2>1. Len(bodies) \in 0..Len(bodies)
      BY LenProperties DEF IsMade
    <2>. QED
      BY <2>1, WrittenIsOver DEF IsMade
  <1>. HIDE DEF w, root
  <1>3. w \in Seq(T) /\ e \in Seq(T)
    <2>1. S \subseteq T /\ root \in T /\ MagicEnd \in T
      OBVIOUS
    <2>. HIDE DEF T, MagicEnd
    <2>. QED
      BY <1>2, <2>1
  <1>. HIDE DEF e
  <1>4. w \o e \in Seq(T)
    BY <1>3, ConcatProperties
  <1>5. c \in T
    <2>. HIDE DEF T
    <2>1. PICK i \in 1..Len(w \o e) : (w \o e)[i] = c
      BY <1>1, <1>4, InRange
    <2>. QED
      BY <1>4, <2>1
  <1>. QED
    BY <1>5 DEF root

LEMMA OnlyRoot ==
  ASSUME NEW key, NEW header, NEW meta, NEW bodies, IsMade(key, header, meta, bodies),
         NEW c \in Range(Container(key, header, meta, bodies)), c.t = "root"
  PROVE  c = RootCell(key, Hashed(header, meta, bodies, Len(bodies)))
  <1>. DEFINE S == HeaderCells \cup BodyCells
  <1>1. NumCells \subseteq S /\ header \in S /\ meta \in Seq(S) /\ bodies \in Seq(Seq(S))
    <2>1. NumCells \subseteq S /\ HeaderCells \subseteq S /\ BodyCells \subseteq S
      BY DEF BodyCells
    <2>. HIDE DEF S
    <2>2. Seq(BodyCells) \subseteq Seq(S)
      BY <2>1
    <2>. QED
      BY <2>1, <2>2 DEF IsMade
  <1>2. \A x \in S : x.t # "root"
    BY DEF HeaderCells, BodyCells, NumCells, CtCells, TagCells
  <1>3. MagicEnd.t # "root"
    BY DEF MagicEnd
  <1>. HIDE DEF S
  <1>. QED
    BY <1>1, <1>2, <1>3, MadeCell

(* The cells of the bodies.                                                *)
InBodies(c, bodies) == \E j \in 1..Len(bodies) : \E p \in 1..Len(bodies[j]) : bodies[j][p] = c

LEMMA OnlyTags ==
  ASSUME NEW key, NEW header, NEW meta, NEW bodies, IsMade(key, header, meta, bodies),
         NEW c \in Range(Container(key, header, meta, bodies)), c.t = "tag"
  PROVE  InBodies(c, bodies)
  <1>. DEFINE S == {x \in HeaderCells \cup BodyCells : x.t = "tag" => InBodies(x, bodies)}
  <1>1. NumCells \subseteq S /\ HeaderCells \subseteq S
    <2>1. \A x \in NumCells \cup HeaderCells : x.t # "tag"
      BY DEF NumCells, HeaderCells
    <2>2. NumCells \subseteq BodyCells
      BY DEF BodyCells
    <2>. QED
      BY <2>1, <2>2
  <1>2. bodies \in Seq(Seq(BodyCells)) /\ header \in HeaderCells /\ meta \in Seq(NumCells)
    BY DEF IsMade
  <1>3. ASSUME NEW j \in 1..Len(bodies)
        PROVE  bodies[j] \in Seq(S)
    <2>1. bodies[j] \in Seq(BodyCells)
      BY <1>2
    <2>2. ASSUME NEW p \in 1..Len(bodies[j])
          PROVE  bodies[j][p] \in S
      <3>1. bodies[j][p] \in BodyCells
        BY <2>1
      <3>2. InBodies(bodies[j][p], bodies)
        BY DEF InBodies
      <3>. QED
        BY <3>1, <3>2
    <2>. HIDE DEF S
    <2>. QED
      BY <2>1, <2>2, SeqInto
  <1>. HIDE DEF S
  <1>4. bodies \in Seq(Seq(S))
    BY <1>2, <1>3, SeqInto
  <1>5. meta \in Seq(S) /\ header \in S
    BY <1>1, <1>2
  <1>6. RootCell(key, Hashed(header, meta, bodies, Len(bodies))).t # "tag" /\ MagicEnd.t # "tag"
    BY DEF RootCell, MagicEnd
  <1>7. c \in S
    BY <1>1, <1>4, <1>5, <1>6, MadeCell
  <1>. QED
    BY <1>7 DEF S

(* The end magic is nowhere but at the end: a beginning of a container     *)
(* that has it is all of it.                                               *)
LEMMA EndIsLast ==
  ASSUME NEW key, NEW header, NEW meta, NEW bodies, IsMade(key, header, meta, bodies),
         NEW s \in Seq(Cells), Begins(s, Container(key, header, meta, bodies), Cells),
         MagicEnd \in Range(s)
  PROVE  s = Container(key, header, meta, bodies)
  <1>. DEFINE S == HeaderCells \cup BodyCells
              w == Written(header, meta, bodies, Len(bodies))
              root == RootCell(key, Hashed(header, meta, bodies, Len(bodies)))
              whole == Container(key, header, meta, bodies)
              front == w \o <<root>>
              T == S \cup {root}
  <1>1. NumCells \subseteq S /\ header \in S /\ meta \in Seq(S) /\ bodies \in Seq(Seq(S))
    <2>1. NumCells \subseteq S /\ HeaderCells \subseteq S /\ BodyCells \subseteq S
      BY DEF BodyCells
    <2>. HIDE DEF S
    <2>2. Seq(BodyCells) \subseteq Seq(S)
      BY <2>1
    <2>. QED
      BY <2>1, <2>2 DEF IsMade
  <1>2. \A x \in T : x # MagicEnd
    <2>1. \A x \in S : x.t # "magicEnd"
      BY DEF HeaderCells, BodyCells, NumCells, CtCells, TagCells
    <2>2. root.t # "magicEnd" /\ MagicEnd.t = "magicEnd"
      BY DEF RootCell, MagicEnd
    <2>. QED
      BY <2>1, <2>2
  <1>3. whole = front \o <<MagicEnd>> /\ w \in Seq(Cells) /\ <<root>> \in Seq(Cells) /\ <<MagicEnd>> \in Seq(Cells)
    BY ContainerIsWritten DEF IsMade
  <1>. HIDE DEF S
  <1>4. w \in Seq(S)
    <2>1. Len(bodies) \in 0..Len(bodies)
      BY LenProperties DEF IsMade
    <2>. QED
      BY <1>1, <2>1, WrittenIsOver DEF IsMade
  <1>. HIDE DEF w, root
  <1>5. front \in Seq(T)
    <2>1. S \subseteq T /\ root \in T
      OBVIOUS
    <2>. HIDE DEF T
    <2>2. w \in Seq(T) /\ <<root>> \in Seq(T)
      BY <1>4, <2>1
    <2>. QED
      BY <2>2, ConcatProperties
  <1>6. front \in Seq(Cells)
    BY <1>3, ConcatProperties
  <1>. HIDE DEF T, front, MagicEnd, Cells
  <1>7. /\ whole \in Seq(Cells) /\ Len(whole) = Len(front) + 1 /\ Len(front) \in Nat
        /\ \A i \in 1..Len(front) : whole[i] = front[i]
    <2>1. Len(<<MagicEnd>>) = 1
      OBVIOUS
    <2>. QED
      BY <1>3, <1>6, <2>1, ConcatProperties, LenProperties
  <1>8. PICK rest \in Seq(Cells) : whole = s \o rest
    BY DEF Begins
  <1>. HIDE DEF whole
  <1>9. /\ Len(whole) = Len(s) + Len(rest) /\ Len(s) \in Nat /\ Len(rest) \in Nat
        /\ \A i \in 1..Len(s) : whole[i] = s[i]
    BY <1>8, ConcatProperties, LenProperties
  <1>10. PICK i \in 1..Len(s) : s[i] = MagicEnd
    BY InRange
  <1>11. i \notin 1..Len(front)
    <2>. SUFFICES ASSUME i \in 1..Len(front)
                  PROVE  FALSE
      OBVIOUS
    <2>1. front[i] \in T
      BY <1>5, ElementOfSeq
    <2>. QED
      BY <1>2, <1>7, <1>9, <1>10, <2>1
  <1>12. Len(rest) = 0
    BY <1>7, <1>9, <1>10, <1>11
  <1>13. rest = <<>>
    BY <1>12, EmptySeq
  <1>14. s = whole
    BY <1>8, <1>13, ConcatEmptySeq
  <1>. QED
    BY <1>14 DEF whole

-----------------------------------------------------------------------------
LEMMA HonestIsMade ==
  ASSUME NEW container, NEW key, NEW header, NEW meta, NEW sorted, NEW data, NEW size, NEW bodies,
         Honest(container, key, header, meta, sorted, data, size, bodies)
  PROVE  /\ IsMade(RootKeyOf(key, header), header, meta, bodies)
         /\ container = Container(RootKeyOf(key, header), header, meta, bodies)
  <1>1. /\ header \in HeaderCells /\ meta \in Seq(NumCells) /\ key \in Seq(Nat)
        /\ bodies \in Seq(Seq(BodyCells)) /\ \A i \in 1..Len(bodies) : Len(bodies[i]) <= MaxU32
        /\ container = Container(RootKeyOf(key, header), header, meta, bodies)
    BY DEF Honest, Describes, AreBodies
  <1>2. RootKeyOf(key, header) \in {NoKey} \cup (Seq(Nat) \X Nat)
    BY <1>1, RootKeyFits
  <1>. QED
    BY <1>1, <1>2 DEF IsMade

LEMMA LeavesAreLeaflets ==
  ASSUME NEW bodies \in Seq(Seq(BodyCells))
  PROVE  Leaves(bodies) \in Seq(Leaflets) /\ Upto(Leaves(bodies), Len(bodies)) = Leaves(bodies)
  <1>1. /\ Leaves(bodies) \in Seq(LeafCells) /\ Len(Leaves(bodies)) = Len(bodies)
        /\ \A i \in 1..Len(bodies) : Leaves(bodies)[i] = Leaf(bodies[i])
    BY LeavesAreSeq
  <1>2. BodyCells \subseteq Cells
    BY DEF BodyCells, Cells
  <1>3. ASSUME NEW i \in 1..Len(bodies)
        PROVE  Leaves(bodies)[i] \in Leaflets
    <2>1. bodies[i] \in Seq(BodyCells)
      OBVIOUS
    <2>. HIDE DEF BodyCells, Cells
    <2>2. bodies[i] \in Seq(Cells)
      BY <1>2, <2>1
    <2>3. Leaf(bodies[i]) \in Leaflets
      <3>. DEFINE b == bodies[i]
      <3>1. b \in Seq(Cells)
        BY <2>2
      <3>. HIDE DEF b
      <3>2. [t |-> "leaf", body |-> b] \in [t : {"leaf"}, body : Seq(Cells)]
        BY <3>1
      <3>. QED
        BY <3>2 DEF Leaf, Leaflets, b
    <2>. QED
      BY <1>1, <2>3
  <1>4. Leaves(bodies) \in Seq(Leaflets)
    BY <1>1, <1>3, SeqInto
  <1>5. Upto(Leaves(bodies), Len(bodies)) = Leaves(bodies)
    BY <1>1 DEF Upto
  <1>. QED
    BY <1>4, <1>5

(* The root of a container is the root of no other.                        *)
LEMMA RootTells ==
  ASSUME NEW container, NEW key, NEW header, NEW meta, NEW sorted, NEW data, NEW size, NEW bodies,
         Honest(container, key, header, meta, sorted, data, size, bodies),
         NEW rk, NEW h, NEW region \in Seq(Cells), NEW leaves \in Seq(Leaflets),
         RootCell(rk, (<<h>> \o region) \o leaves) \in Range(container)
  PROVE  rk = RootKeyOf(key, header) /\ h = header /\ region = meta /\ leaves = Leaves(bodies)
  <1>. DEFINE c == RootCell(rk, (<<h>> \o region) \o leaves)
              K == RootKeyOf(key, header)
  <1>1. IsMade(K, header, meta, bodies) /\ container = Container(K, header, meta, bodies)
    BY HonestIsMade
  <1>2. c.t = "root" /\ c.key = rk /\ c.input = (<<h>> \o region) \o leaves
    BY DEF RootCell
  <1>. HIDE DEF K
  <1>3. c = RootCell(K, Hashed(header, meta, bodies, Len(bodies)))
    <2>1. c \in Range(Container(K, header, meta, bodies))
      BY <1>1
    <2>. HIDE DEF c
    <2>. QED
      BY <1>1, <1>2, <2>1, OnlyRoot
  <1>4. c.key = K /\ c.input = Hashed(header, meta, bodies, Len(bodies))
    BY <1>3 DEF RootCell
  <1>. HIDE DEF c
  <1>5. bodies \in Seq(Seq(BodyCells)) /\ meta \in Seq(NumCells)
    BY <1>1 DEF IsMade
  <1>6. Leaves(bodies) \in Seq(Leaflets) /\ Upto(Leaves(bodies), Len(bodies)) = Leaves(bodies)
    BY <1>5, LeavesAreLeaflets
  <1>7. meta \in Seq(Cells)
    <2>1. NumCells \subseteq Cells
      BY DEF Cells
    <2>. HIDE DEF NumCells, Cells
    <2>. QED
      BY <1>5, <2>1
  <1>8. (<<h>> \o region) \o leaves = (<<header>> \o meta) \o Leaves(bodies)
    BY <1>2, <1>4, <1>6 DEF Hashed
  <1>9. h = header /\ region = meta /\ leaves = Leaves(bodies)
    <2>. DEFINE m == Leaves(bodies)
    <2>1. m \in Seq(Leaflets) /\ (<<h>> \o region) \o leaves = (<<header>> \o meta) \o m
      BY <1>6, <1>8
    <2>. DEFINE a == meta
    <2>2. a \in Seq(Cells) /\ (<<h>> \o region) \o leaves = (<<header>> \o a) \o m
      BY <1>7, <2>1
    <2>. HIDE DEF m, a
    <2>3. SameInputs(h, region, leaves, header, a, m)
      BY <2>1, <2>2, InputSplits
    <2>. QED
      BY <2>3 DEF m, a, SameInputs
  <1>. QED
    BY <1>2, <1>4, <1>9 DEF K

(* What a body is made of, tag last.                                       *)
LEMMA TagIsLast ==
  ASSUME NEW S, NEW body \in Seq(S), Len(body) >= TagLen
  PROVE  /\ Len(body) \in 1..Len(body) /\ Last(body) = body[Len(body)]
         /\ Front(body) \in Seq(S) /\ Len(Front(body)) = Len(body) - 1
         /\ \A i \in 1..Len(body) - 1 : Front(body)[i] = body[i]
  <1>1. Len(body) \in Nat /\ Len(body) >= 1
    BY DEF TagLen
  <1>2. Front(body) = SubSeq(body, 1, Len(body) - 1)
    BY DEF Front
  <1>. DEFINE n == Len(body) - 1
  <1>3. n \in Nat /\ n <= Len(body) /\ 0 + n <= Len(body) /\ 0 + 1 = 1 /\ 0 + n = n
    BY <1>1
  <1>. HIDE DEF n
  <1>4. /\ SubSeq(body, 0 + 1, 0 + n) \in Seq(S) /\ Len(SubSeq(body, 0 + 1, 0 + n)) = n
        /\ \A i \in 1..n : SubSeq(body, 0 + 1, 0 + n)[i] = body[0 + i]
    BY <1>3, PartAfter
  <1>5. \A i \in 1..n : 0 + i = i
    BY <1>3
  <1>6. SubSeq(body, 0 + 1, 0 + n) = Front(body)
    BY <1>2, <1>3 DEF n
  <1>. QED
    BY <1>1, <1>4, <1>5, <1>6 DEF n, Last

LEMMA SameFrontAndLast ==
  ASSUME NEW S, NEW a \in Seq(S), NEW b \in Seq(S), Len(a) >= TagLen, Len(b) >= TagLen,
         Front(a) = Front(b), Last(a) = Last(b)
  PROVE  a = b
  <1>1. /\ Last(a) = a[Len(a)] /\ Len(Front(a)) = Len(a) - 1
        /\ \A i \in 1..Len(a) - 1 : Front(a)[i] = a[i]
    BY TagIsLast
  <1>2. /\ Last(b) = b[Len(b)] /\ Len(Front(b)) = Len(b) - 1
        /\ \A i \in 1..Len(b) - 1 : Front(b)[i] = b[i]
    BY TagIsLast
  <1>3. Len(a) \in Nat /\ Len(b) \in Nat
    BY LenProperties
  <1>4. Len(a) = Len(b)
    BY <1>1, <1>2, <1>3
  <1>5. ASSUME NEW i \in 1..Len(a) PROVE a[i] = b[i]
    <2>1. CASE i = Len(a)
      BY <1>1, <1>2, <1>4, <2>1
    <2>2. CASE i # Len(a)
      <3>1. i \in 1..Len(a) - 1 /\ i \in 1..Len(b) - 1
        BY <1>3, <1>4, <2>2
      <3>. QED
        BY <1>1, <1>2, <3>1
    <2>. QED
      BY <2>1, <2>2
  <1>. QED
    BY <1>4, <1>5, SeqsAreEqual

-----------------------------------------------------------------------------
(* A tag is that of one chunk in one place of one container.               *)
SameSeal(header, key, meta, bodies, h, k, region, i, body) ==
  /\ header.h.encrypted /\ key = k /\ header = h /\ meta = region
  /\ i + 1 \in 1..Len(bodies) /\ body = bodies[i + 1]

Sealed(key, base, header, digest, index, body) ==
  /\ Last(body).t = "tag" /\ Last(body).key = key /\ Last(body).nonce = <<base, index>>
  /\ Last(body).aad = <<header, digest, index>> /\ Last(body).ct = Front(body)
  /\ Len(body) >= TagLen

LEMMA OpensSealed ==
  ASSUME NEW key, NEW base, NEW header, NEW digest, NEW index, NEW body,
         Opens(key, base, header, digest, index, body)
  PROVE  Sealed(key, base, header, digest, index, body)
  BY DEF Opens, Sealed, TagCell, chunkNonce, chunkAAD

LEMMA TagTells ==
  ASSUME NEW container, NEW key, NEW header, NEW meta, NEW sorted, NEW data, NEW size, NEW bodies,
         Honest(container, key, header, meta, sorted, data, size, bodies),
         NEW k, NEW b, NEW h, NEW region, NEW i \in Nat, NEW body \in Seq(Cells),
         Opens(k, b, h, region, i, body), Last(body) \in Range(container)
  PROVE  SameSeal(header, key, meta, bodies, h, k, region, i, body)
  <1>. DEFINE K == RootKeyOf(key, header)
              c == Last(body)
              chunks == ChunksOf(data, size)
              base == header.h.baseNonce
  <1>1. IsMade(K, header, meta, bodies) /\ container = Container(K, header, meta, bodies)
    BY HonestIsMade
  <1>2. Sealed(k, b, h, region, i, body)
    BY OpensSealed
  <1>3. c.t = "tag" /\ c.key = k /\ c.nonce = <<b, i>> /\ c.aad = <<h, region, i>>
        /\ c.ct = Front(body) /\ Len(body) >= TagLen
    BY <1>2 DEF Sealed
  <1>. HIDE DEF K, c
  <1>4. InBodies(c, bodies)
    <2>1. c \in Range(Container(K, header, meta, bodies))
      BY <1>1 DEF c
    <2>. QED
      BY <1>1, <1>3, <2>1, OnlyTags
  <1>5. PICK j \in 1..Len(bodies) : \E p \in 1..Len(bodies[j]) : bodies[j][p] = c
    BY <1>4 DEF InBodies
  <1>6. PICK p \in 1..Len(bodies[j]) : bodies[j][p] = c
    BY <1>5
  <1>7. /\ bodies \in Seq(Seq(BodyCells)) /\ Len(bodies) = Len(chunks)
        /\ IF header.h.encrypted
           THEN OpensTo(key, base, header, meta, j - 1, bodies[j], chunks[j])
           ELSE bodies[j] = chunks[j]
    BY DEF Honest, AreBodies
  <1>. DEFINE mine == bodies[j]
  <1>8. mine \in Seq(BodyCells) /\ p \in 1..Len(mine) /\ mine[p] = c
    BY <1>6, <1>7
  <1>9. header.h.encrypted
    <2>. SUFFICES ASSUME ~header.h.encrypted PROVE FALSE
      OBVIOUS
    <2>1. chunks \in Seq(Seq(NumCells))
      <3>1. CutOf(chunks, data, size)
        BY TextIsCut, Zenon DEF Honest
      <3>. QED
        BY <3>1, Zenon DEF CutOf
    <2>2. mine = chunks[j] /\ j \in 1..Len(chunks)
      BY <1>7
    <2>. HIDE DEF chunks
    <2>3. mine \in Seq(NumCells)
      BY <2>1, <2>2
    <2>. HIDE DEF mine
    <2>4. c \in NumCells
      BY <1>8, <2>3
    <2>. QED
      BY <1>3, <2>4 DEF NumCells
  <1>10. Sealed(key, base, header, meta, j - 1, mine)
    <2>1. OpensTo(key, base, header, meta, j - 1, mine, chunks[j])
      BY <1>7, <1>9
    <2>2. Opens(key, base, header, meta, j - 1, mine)
      BY <2>1 DEF OpensTo
    <2>. HIDE DEF mine, base
    <2>. QED
      BY <2>2, OpensSealed
  <1>. HIDE DEF mine, base, chunks
  <1>11. Len(mine) >= TagLen /\ Last(mine).t = "tag" /\ Last(mine).ct = Front(mine)
    BY <1>10 DEF Sealed
  <1>12. /\ Len(mine) \in 1..Len(mine) /\ Last(mine) = mine[Len(mine)]
         /\ \A q \in 1..Len(mine) - 1 : Front(mine)[q] = mine[q]
         /\ Len(Front(mine)) = Len(mine) - 1
    BY <1>8, <1>11, TagIsLast
  <1>13. Front(mine) \in Seq(CtCells)
    <2>1. Last(mine) \in BodyCells
      BY <1>8, <1>12
    <2>2. Last(mine) \in TagCells
      BY <1>11, <2>1 DEF BodyCells, NumCells, CtCells
    <2>. QED
      BY <1>11, <2>2 DEF TagCells
  <1>14. p = Len(mine)
    <2>. SUFFICES ASSUME p # Len(mine) PROVE FALSE
      OBVIOUS
    <2>1. p \in 1..Len(mine) - 1
      BY <1>8
    <2>2. Front(mine)[p] = c /\ Front(mine)[p] \in CtCells
      <3>1. Front(mine)[p] = c
        BY <1>8, <1>12, <2>1, Zenon
      <3>2. p \in 1..Len(Front(mine))
        BY <1>12, <2>1, Zenon
      <3>3. Front(mine)[p] \in CtCells
        BY <1>13, <3>2
      <3>. QED
        BY <3>1, <3>3
    <2>. QED
      BY <1>3, <2>2 DEF CtCells
  <1>15. Last(mine) = c
    BY <1>8, <1>12, <1>14
  <1>16. /\ c.key = key /\ c.nonce = <<base, j - 1>> /\ c.aad = <<header, meta, j - 1>>
         /\ c.ct = Front(mine)
    BY <1>10, <1>15 DEF Sealed
  <1>17. k = key /\ j - 1 = i /\ h = header /\ region = meta /\ Front(body) = Front(mine)
    BY <1>3, <1>16
  <1>18. body = mine
    <2>1. mine \in Seq(Cells)
      <3>1. BodyCells \subseteq Cells
        BY DEF BodyCells, Cells
      <3>. HIDE DEF BodyCells, Cells
      <3>. QED
        BY <1>8, <3>1
    <2>2. Last(body) = Last(mine)
      BY <1>15 DEF c
    <2>. QED
      BY <1>3, <1>11, <1>17, <2>1, <2>2, SameFrontAndLast
  <1>19. j = i + 1 /\ i + 1 \in 1..Len(bodies)
    BY <1>17
  <1>. QED
    BY <1>9, <1>17, <1>18, <1>19 DEF SameSeal, mine

-----------------------------------------------------------------------------
(* The plaintext of what was accepted.                                     *)
OpenedBody(encrypted, body) == IF encrypted THEN openChunk(body) ELSE body
OpenedOf(encrypted, leaves) == [i \in DOMAIN leaves |-> OpenedBody(encrypted, leaves[i].body)]

LEMMA HonestText ==
  ASSUME NEW container, NEW key, NEW header, NEW meta, NEW sorted, NEW data, NEW size, NEW bodies,
         Honest(container, key, header, meta, sorted, data, size, bodies)
  PROVE  /\ OpenedOf(header.h.encrypted, Leaves(bodies)) = ChunksOf(data, size)
         /\ Len(bodies) = Len(ChunksOf(data, size)) /\ Len(bodies) \in Nat
         /\ ChunksOf(data, size) \in Seq(Seq(Cells)) /\ data \in Seq(Cells)
         /\ Joined(ChunksOf(data, size), Len(bodies)) = data
  <1>. DEFINE chunks == ChunksOf(data, size)
              e == header.h.encrypted
  <1>1. /\ bodies \in Seq(Seq(BodyCells)) /\ Len(bodies) = Len(chunks) /\ data \in Seq(NumCells)
        /\ size \in Nat \ {0}
    BY DEF Honest, AreBodies
  <1>2. \A i \in 1..Len(bodies) : OpenedBody(e, bodies[i]) = chunks[i]
    BY DEF Honest, AreBodies, OpensTo, OpenedBody
  <1>3. chunks \in Seq(Seq(NumCells))
    <2>1. CutOf(chunks, data, size)
      BY <1>1, TextIsCut, Zenon
    <2>. QED
      BY <2>1, Zenon DEF CutOf
  <1>4. Joined(chunks, Len(chunks)) = data
    BY <1>1, ChunksAreText
  <1>. HIDE DEF chunks, e
  <1>5. Len(chunks) \in Nat /\ DOMAIN chunks = 1..Len(chunks)
    BY <1>3
  <1>6. chunks \in Seq(Seq(Cells)) /\ data \in Seq(Cells)
    <2>1. NumCells \subseteq Cells
      BY DEF Cells
    <2>. HIDE DEF NumCells, Cells
    <2>2. Seq(NumCells) \subseteq Seq(Cells)
      BY <2>1
    <2>. QED
      BY <1>1, <1>3, <2>2
  <1>7. OpenedOf(e, Leaves(bodies)) = chunks
    <2>1. /\ Len(Leaves(bodies)) = Len(bodies) /\ DOMAIN Leaves(bodies) = 1..Len(bodies)
          /\ \A i \in 1..Len(bodies) : Leaves(bodies)[i] = Leaf(bodies[i])
      <3>1. Leaves(bodies) \in Seq(LeafCells)
        BY <1>1, LeavesAreSeq
      <3>. QED
        BY <1>1, <3>1, LeavesAreSeq
    <2>2. \A i \in 1..Len(bodies) : Leaves(bodies)[i].body = bodies[i]
      BY <2>1 DEF Leaf
    <2>3. OpenedOf(e, Leaves(bodies)) = [i \in 1..Len(chunks) |-> OpenedBody(e, Leaves(bodies)[i].body)]
      BY <1>1, <2>1 DEF OpenedOf
    <2>4. \A i \in 1..Len(chunks) : OpenedBody(e, Leaves(bodies)[i].body) = chunks[i]
      BY <1>1, <1>2, <2>2
    <2>5. [i \in 1..Len(chunks) |-> OpenedBody(e, Leaves(bodies)[i].body)] = [i \in 1..Len(chunks) |-> chunks[i]]
      BY <2>4
    <2>6. chunks = [i \in 1..Len(chunks) |-> chunks[i]]
      BY <1>5, <1>3
    <2>. QED
      BY <2>3, <2>5, <2>6
  <1>. QED
    BY <1>1, <1>4, <1>5, <1>6, <1>7 DEF chunks, e

-----------------------------------------------------------------------------
(* What an encoder makes is honest.                                        *)
HonestOriginal(o) ==
  /\ \E sorted, size : Honest(o.out, o.key, o.head, o.meta, sorted, o.plain, size, o.bodies)
  /\ ~o.head.h.encrypted => o.key = NoKey

LEMMA PlainOriginal ==
  ASSUME NEW r \in Recipes, Len(r.plain) <= MaxU64, EncodedFrom(r).err = NoError, r.key = NoKey
  PROVE  HonestOriginal(Original(r))
  <1>. DEFINE out == EncodePlain(r.plain, r.entries, r.size).out
              meta == EncodeMetadata(r.entries).region
              cell == HeaderCell(PlainHeader(r.size, Len(r.plain), meta # <<>>))
              o == Original(r)
  <1>1. /\ r.plain \in Seq(NumCells) /\ r.entries \in Seq(Entry) /\ r.size \in 0..MaxU32
        /\ r.key \in Seq(Nat) /\ EncodePlain(r.plain, r.entries, r.size).err = NoError
    BY DEF Recipes, Entry, EncodedFrom
  <1>2. Honest(out, NoKey, cell, meta, Sorted(r.entries), r.plain, r.size, ChunksOf(r.plain, r.size))
    BY <1>1, PlainIsHonest
  <1>3. out[1] = cell
    BY <1>2, HonestIsLaid DEF Laid
  <1>4. EncodedFrom(r).out = out
    BY DEF EncodedFrom
  <1>5. /\ o.plain = r.plain /\ o.key = NoKey /\ o.meta = meta /\ o.head = cell /\ o.out = out
        /\ o.bodies = ChunksOf(r.plain, r.size)
    <2>. HIDE DEF out, cell, meta
    <2>1. o = [plain |-> r.plain, key |-> r.key, meta |-> meta, head |-> out[1], out |-> out,
               bodies |-> BodiesOf(r, out, meta)]
      BY <1>4 DEF Original, meta
    <2>2. BodiesOf(r, out, meta) = ChunksOf(r.plain, r.size)
      BY DEF BodiesOf
    <2>. QED
      BY <1>3, <2>1, <2>2
  <1>. HIDE DEF out, cell, meta, o
  <1>6. \E sorted, size : Honest(o.out, o.key, o.head, o.meta, sorted, o.plain, size, o.bodies)
    BY <1>2, <1>5
  <1>. QED
    BY <1>5, <1>6 DEF HonestOriginal, o

LEMMA EncryptedOriginal ==
  ASSUME NEW r \in Recipes, Len(r.plain) <= MaxU64, EncodedFrom(r).err = NoError, r.key # NoKey
  PROVE  HonestOriginal(Original(r))
  <1>. DEFINE out == EncodeEncryptedWithFixedNonce(r.plain, r.key, r.base, r.entries, r.size).out
              meta == EncodeMetadata(r.entries).region
              cell == HeaderCell(EncryptedHeader(r.size, Len(r.plain), meta # <<>>, r.base))
              bodies == SealedChunks(r.key, r.base, cell, meta, ChunksOf(r.plain, r.size))
              o == Original(r)
  <1>1. /\ r.plain \in Seq(NumCells) /\ r.entries \in Seq(Entry) /\ r.size \in 0..MaxU32
        /\ r.key \in Seq(Nat) /\ r.base \in Nat
        /\ EncodeEncryptedWithFixedNonce(r.plain, r.key, r.base, r.entries, r.size).err = NoError
    BY DEF Recipes, Entry, EncodedFrom
  <1>2. /\ Honest(out, r.key, cell, meta, Sorted(r.entries), r.plain, r.size, bodies)
        /\ cell.h.encrypted
    BY <1>1, EncryptedIsSealed
  <1>3. out[1] = cell
    BY <1>2, HonestIsLaid DEF Laid
  <1>4. EncodedFrom(r).out = out
    BY DEF EncodedFrom
  <1>5. /\ o.plain = r.plain /\ o.key = r.key /\ o.meta = meta /\ o.head = cell /\ o.out = out
        /\ o.bodies = bodies
    <2>1. BodiesOf(r, out, meta) = SealedChunks(r.key, r.base, out[1], meta, ChunksOf(r.plain, r.size))
      BY DEF BodiesOf, SealedChunks
    <2>. HIDE DEF out, cell, meta
    <2>2. o = [plain |-> r.plain, key |-> r.key, meta |-> meta, head |-> out[1], out |-> out,
               bodies |-> BodiesOf(r, out, meta)]
      BY <1>4 DEF Original, meta
    <2>. QED
      BY <1>3, <2>1, <2>2
  <1>. HIDE DEF out, cell, meta, o, bodies
  <1>6. \E sorted, size : Honest(o.out, o.key, o.head, o.meta, sorted, o.plain, size, o.bodies)
    BY <1>2, <1>5
  <1>. QED
    BY <1>2, <1>5, <1>6 DEF HonestOriginal, o

LEMMA OriginalIsHonest ==
  ASSUME NEW recipes, Encodable(recipes), NEW o \in Originals(recipes)
  PROVE  HonestOriginal(o)
  <1>1. PICK r \in recipes : o = Original(r)
    BY DEF Originals
  <1>2. r \in Recipes /\ Len(r.plain) <= MaxU64 /\ EncodedFrom(r).err = NoError
    BY DEF Encodable
  <1>. QED
    BY <1>1, <1>2, PlainOriginal, EncryptedOriginal

-----------------------------------------------------------------------------
(* What the loop of the one-shot decoder has taken, cell by cell.          *)
FramesOf(leaves) == [j \in DOMAIN leaves |-> Framed(leaves[j].body)]

LEMMA FlattenAppended ==
  ASSUME NEW S, NEW s \in Seq(Seq(S)), NEW x \in Seq(S)
  PROVE  FlattenSeq(Append(s, x)) = FlattenSeq(s) \o x
  <1>. DEFINE t == Append(s, x)
  <1>1. /\ t \in Seq(Seq(S)) /\ Len(t) = Len(s) + 1 /\ t[Len(t)] = x
        /\ \A i \in 1..Len(s) : t[i] = s[i]
    BY AppendProperties
  <1>. HIDE DEF t
  <1>2. FlattenSeq(t) = FlattenSeq(s) \o t[Len(t)]
    BY <1>1, FlattenOneMore
  <1>. QED
    BY <1>1, <1>2 DEF t

LEMMA MappedAppended ==
  ASSUME NEW S, NEW leaves \in Seq(Leaflets), NEW leaf \in Leaflets, NEW e \in BOOLEAN
  PROVE  /\ OpenedOf(e, Append(leaves, leaf)) = Append(OpenedOf(e, leaves), OpenedBody(e, leaf.body))
         /\ FramesOf(Append(leaves, leaf)) = Append(FramesOf(leaves), Framed(leaf.body))
  <1>. DEFINE t == Append(leaves, leaf)
              n == Len(leaves)
  <1>1. /\ n \in Nat /\ t \in Seq(Leaflets) /\ Len(t) = n + 1 /\ t[n + 1] = leaf
        /\ \A i \in 1..n : t[i] = leaves[i]
    BY AppendProperties
  <1>2. DOMAIN t = 1..n + 1 /\ DOMAIN leaves = 1..n
    BY <1>1
  <1>. HIDE DEF t, n
  <1>3. OpenedOf(e, t) = Append(OpenedOf(e, leaves), OpenedBody(e, leaf.body))
    <2>. DEFINE a(i) == OpenedBody(e, leaves[i].body)
                x == OpenedBody(e, leaf.body)
    <2>1. OpenedOf(e, t) = [i \in 1..n + 1 |-> IF i = n + 1 THEN x ELSE a(i)]
      <3>1. OpenedOf(e, t) = [i \in 1..n + 1 |-> OpenedBody(e, t[i].body)]
        BY <1>2 DEF OpenedOf
      <3>2. \A i \in 1..n + 1 : OpenedBody(e, t[i].body) = IF i = n + 1 THEN x ELSE a(i)
        BY <1>1
      <3>. QED
        BY <3>1, <3>2
    <2>2. OpenedOf(e, leaves) = [i \in 1..n |-> a(i)]
      BY <1>2 DEF OpenedOf
    <2>. HIDE DEF a, x
    <2>3. Append([i \in 1..n |-> a(i)], x) = [i \in 1..n + 1 |-> IF i = n + 1 THEN x ELSE a(i)]
      BY <1>1
    <2>. QED
      BY <2>1, <2>2, <2>3 DEF x
  <1>4. FramesOf(t) = Append(FramesOf(leaves), Framed(leaf.body))
    <2>. DEFINE a(i) == Framed(leaves[i].body)
                x == Framed(leaf.body)
    <2>1. FramesOf(t) = [i \in 1..n + 1 |-> IF i = n + 1 THEN x ELSE a(i)]
      <3>1. FramesOf(t) = [i \in 1..n + 1 |-> Framed(t[i].body)]
        BY <1>2 DEF FramesOf
      <3>2. \A i \in 1..n + 1 : Framed(t[i].body) = IF i = n + 1 THEN x ELSE a(i)
        BY <1>1
      <3>. QED
        BY <3>1, <3>2
    <2>2. FramesOf(leaves) = [i \in 1..n |-> a(i)]
      BY <1>2 DEF FramesOf
    <2>. HIDE DEF a, x
    <2>3. Append([i \in 1..n |-> a(i)], x) = [i \in 1..n + 1 |-> IF i = n + 1 THEN x ELSE a(i)]
      BY <1>1
    <2>. QED
      BY <2>1, <2>2, <2>3 DEF x
  <1>. QED
    BY <1>3, <1>4 DEF t

(* What a reader has taken: bodies that are in the container, and open at  *)
(* their index if they have to, and their text.                            *)
OpensAll(container, key, leaves) ==
  container[1].h.encrypted =>
    \A j \in 1..Len(leaves) : Opens(key, container[1].h.baseNonce, container[1],
                                    RegionOf(container), j - 1, leaves[j].body)

InContainer(container, leaves) ==
  \A j \in 1..Len(leaves) : \A q \in 1..Len(leaves[j].body) :
    leaves[j].body[q] \in Range(container)

Taken(container, key, leaves, i, plain) ==
  /\ leaves \in Seq(Leaflets) /\ Len(leaves) = i
  /\ OpenedOf(container[1].h.encrypted, leaves) \in Seq(Seq(Cells))
  /\ plain = FlattenSeq(OpenedOf(container[1].h.encrypted, leaves))
  /\ OpensAll(container, key, leaves)
  /\ InContainer(container, leaves)

(* For the loop of decodeBytes they are besides all of it so far.          *)
Trailed(container, key, s, i) ==
  /\ Taken(container, key, s.leaves, i, s.plain)
  /\ FramesOf(s.leaves) \in Seq(Seq(Cells))
  /\ SubSeq(container, 1, s.offset)
       = (<<container[1]>> \o RegionOf(container)) \o FlattenSeq(FramesOf(s.leaves))

LEMMA OneCell ==
  ASSUME NEW S, NEW s \in Seq(S), NEW i \in 1..Len(s)
  PROVE  SubSeq(s, i, i) = <<s[i]>>
  <1>1. i \in Nat /\ i >= 1 /\ i <= Len(s) /\ i <= i /\ i - i + 1 = 1 /\ 1 \in 1..1 /\ i + 1 - 1 = i
    OBVIOUS
  <1>2. SubSeq(s, i, i) \in Seq(S) /\ Len(SubSeq(s, i, i)) = 1 /\ SubSeq(s, i, i)[1] = s[i]
    <2>1. /\ SubSeq(s, i, i) \in Seq(S) /\ Len(SubSeq(s, i, i)) = IF i <= i THEN i - i + 1 ELSE 0
          /\ \A q \in 1..i - i + 1 : SubSeq(s, i, i)[q] = s[i + q - 1]
      BY <1>1, PartOf
    <2>. QED
      BY <1>1, <2>1
  <1>. DEFINE part == SubSeq(s, i, i)
  <1>3. part \in Seq(S) /\ Len(part) = 1 /\ part[1] = s[i]
    BY <1>2
  <1>. HIDE DEF part
  <1>4. part = [j \in 1..1 |-> part[j]]
    BY <1>3
  <1>5. \A j \in 1..1 : part[j] = s[i]
    BY <1>3
  <1>6. <<s[i]>> = [j \in 1..1 |-> s[i]]
    OBVIOUS
  <1>. QED
    BY <1>4, <1>5, <1>6 DEF part

LEMMA SmallIsNumber ==
  ASSUME NEW c \in Cells, U32(c) < MaxU32
  PROVE  c = Num(U32(c))
  <1>1. c.t = "num"
    BY WidthAssumption DEF U32
  <1>2. CASE c \in NumCells
    BY <1>1, <1>2 DEF NumCells, Num, U32
  <1>3. CASE c \notin NumCells
    BY <1>1, <1>3 DEF Cells, HeaderCells, CtCells, TagCells, RootCells, MagicEnd, Junk
  <1>. QED
    BY <1>2, <1>3

LEMMA NothingTaken ==
  ASSUME NEW container, NEW key
  PROVE  Taken(container, key, <<>>, 0, <<>>)
  <1>1. \A e : OpenedOf(e, <<>>) = <<>>
    BY DEF OpenedOf
  <1>2. <<>> \in Seq(Leaflets) /\ Len(<<>>) = 0 /\ <<>> \in Seq(Seq(Cells))
    OBVIOUS
  <1>3. FlattenSeq(<<>>) = <<>>
    BY <1>2, FlattenNothing
  <1>4. OpensAll(container, key, <<>>) /\ InContainer(container, <<>>)
    BY DEF OpensAll, InContainer
  <1>. QED
    BY <1>1, <1>2, <1>3, <1>4, Zenon DEF Taken

LEMMA TrailStarts ==
  ASSUME NEW container \in Seq(Cells), MetaEnd(container) \in 1..Len(container), NEW key
  PROVE  Trailed(container, key, Start(container), 0)
  <1>. DEFINE s == Start(container)
              n == MetaEnd(container)
  <1>1. s.leaves = <<>> /\ s.plain = <<>> /\ s.offset = n
    BY DEF Start
  <1>2. FramesOf(<<>>) = <<>>
    BY DEF FramesOf
  <1>3. <<>> \in Seq(Leaflets) /\ Len(<<>>) = 0 /\ <<>> \in Seq(Seq(Cells))
    OBVIOUS
  <1>4. FlattenSeq(<<>>) = <<>>
    BY <1>3, FlattenNothing
  <1>5. SubSeq(container, 1, n) = <<container[1]>> \o RegionOf(container)
    <2>1. n \in Nat /\ n >= 1 /\ n <= Len(container) /\ Len(container) \in Nat
      OBVIOUS
    <2>2. SubSeq(container, 1, 1) = <<container[1]>>
      BY <2>1, OneCell
    <2>3. SubSeq(container, 1, 1) \o SubSeq(container, 1 + 1, n) = SubSeq(container, 1, n)
      <3>1. 1 \in 1..Len(container) + 1 /\ 1 \in 1 - 1..Len(container) /\ n \in 1..Len(container)
        BY <2>1
      <3>. QED
        BY <3>1, ConcatAdjacentSubSeq
    <2>4. 1 + 1 = 2
      OBVIOUS
    <2>. QED
      BY <2>2, <2>3, <2>4 DEF RegionOf
  <1>6. <<container[1]>> \o RegionOf(container) \in Seq(Cells)
    <2>1. SubSeq(container, 1, n) \in Seq(Cells)
      <3>1. 1 \in Nat /\ n \in Nat /\ 1 >= 1 /\ n <= Len(container)
        OBVIOUS
      <3>. QED
        BY <3>1, PartOf
    <2>. QED
      BY <1>5, <2>1
  <1>. HIDE DEF s, n
  <1>7. (<<container[1]>> \o RegionOf(container)) \o <<>> = <<container[1]>> \o RegionOf(container)
    BY <1>6, ConcatEmptySeq
  <1>. QED
    BY <1>1, <1>2, <1>3, <1>4, <1>5, <1>7, NothingTaken, Zenon DEF Trailed, s, n

(* The cells of a chunk that was taken.                                    *)
LEMMA FrameIsThere ==
  ASSUME NEW container \in Seq(Cells), NEW o \in 0..Len(container),
         NEW clen \in Nat, o + 1 + clen \in 0..Len(container), clen < MaxU32,
         clen = U32(container[o + 1])
  PROVE  /\ TurnBody(container, o) \in Seq(Cells) /\ Len(TurnBody(container, o)) = clen
         /\ Framed(TurnBody(container, o)) \in Seq(Cells)
         /\ SubSeq(container, 1, o + 1 + clen)
              = SubSeq(container, 1, o) \o Framed(TurnBody(container, o))
         /\ \A q \in 1..clen : TurnBody(container, o)[q] \in Range(container)
  <1>. DEFINE body == TurnBody(container, o)
              m == o + 1
              n == o + 1 + clen
  <1>1. Len(container) \in Nat /\ o \in Nat /\ m \in 1..Len(container) /\ n \in Nat /\ n <= Len(container)
    OBVIOUS
  <1>2. container[m] \in Cells
    BY <1>1
  <1>3. container[m] = Num(clen)
    BY <1>2, SmallIsNumber
  <1>4. body = SubSeq(container, m + 1, n)
    <2>1. o + 2 = m + 1
      OBVIOUS
    <2>. QED
      BY <2>1 DEF TurnBody
  <1>5. /\ body \in Seq(Cells) /\ Len(body) = clen
        /\ \A q \in 1..clen : body[q] = container[m + q]
    <2>1. /\ m + 1 \in Nat /\ m + 1 >= 1 /\ (IF m + 1 <= n THEN n - (m + 1) + 1 ELSE 0) = clen
          /\ n - (m + 1) + 1 = clen /\ \A q \in 1..clen : (m + 1) + q - 1 = m + q
      BY <1>1
    <2>2. /\ SubSeq(container, m + 1, n) \in Seq(Cells)
          /\ Len(SubSeq(container, m + 1, n)) = IF m + 1 <= n THEN n - (m + 1) + 1 ELSE 0
          /\ \A q \in 1..n - (m + 1) + 1 : SubSeq(container, m + 1, n)[q] = container[(m + 1) + q - 1]
      <3>. DEFINE k == m + 1
      <3>1. k \in Nat /\ k >= 1 /\ n \in Nat /\ n <= Len(container)
        BY <1>1, <2>1
      <3>. HIDE DEF k, n
      <3>2. /\ SubSeq(container, k, n) \in Seq(Cells)
            /\ Len(SubSeq(container, k, n)) = IF k <= n THEN n - k + 1 ELSE 0
            /\ \A q \in 1..n - k + 1 : SubSeq(container, k, n)[q] = container[k + q - 1]
        BY <3>1, PartOf
      <3>. QED
        BY <3>2 DEF k
    <2>. HIDE DEF m, n, body
    <2>. QED
      BY <1>4, <2>1, <2>2
  <1>6. Framed(body) = SubSeq(container, m, n)
    <2>1. SubSeq(container, m, m) = <<container[m]>>
      <3>. HIDE DEF m
      <3>. QED
        BY <1>1, OneCell
    <2>2. SubSeq(container, m, m) \o SubSeq(container, m + 1, n) = SubSeq(container, m, n)
      <3>1. m \in 1..Len(container) + 1 /\ m \in m - 1..Len(container) /\ n \in m..Len(container)
        BY <1>1
      <3>. QED
        BY <3>1, ConcatAdjacentSubSeq
    <2>. HIDE DEF m, n, body
    <2>. QED
      BY <1>3, <1>4, <1>5, <2>1, <2>2 DEF Framed
  <1>7. SubSeq(container, 1, o) \o SubSeq(container, m, n) = SubSeq(container, 1, n)
    <2>1. 1 \in 1..Len(container) + 1 /\ o \in 1 - 1..Len(container) /\ n \in o..Len(container)
      BY <1>1
    <2>. QED
      BY <2>1, ConcatAdjacentSubSeq
  <1>8. SubSeq(container, m, n) \in Seq(Cells)
    <2>1. m \in Nat /\ m >= 1
      BY <1>1
    <2>. QED
      BY <1>1, <2>1, PartOf
  <1>9. ASSUME NEW q \in 1..clen PROVE body[q] \in Range(container)
    <2>1. m + q \in 1..Len(container)
      BY <1>1
    <2>. QED
      BY <1>5, <2>1, IntoRange
  <1>. HIDE DEF body, m
  <1>. QED
    BY <1>5, <1>6, <1>7, <1>8, <1>9 DEF body, n

(* A body of the container's own cells that opens as chunk i.              *)
MayBeTaken(container, key, i, body) ==
  /\ body \in Seq(Cells) /\ \A q \in 1..Len(body) : body[q] \in Range(container)
  /\ OpenedBody(container[1].h.encrypted, body) \in Seq(Cells)
  /\ container[1].h.encrypted =>
       Opens(key, container[1].h.baseNonce, container[1], RegionOf(container), i, body)

(* One more such body is taken along with those before it.                 *)
LEMMA TakenGrows ==
  ASSUME NEW container, container[1].h.encrypted \in BOOLEAN, NEW key, NEW i \in Nat,
         NEW leaves, NEW plain, Taken(container, key, leaves, i, plain),
         NEW body, MayBeTaken(container, key, i, body)
  PROVE  Taken(container, key, Append(leaves, Leaf(body)), i + 1,
               plain \o OpenedBody(container[1].h.encrypted, body))
  <1>. DEFINE e == container[1].h.encrypted
              opened == OpenedBody(e, body)
              leaf == Leaf(body)
              next == Append(leaves, leaf)
  <1>0. /\ body \in Seq(Cells) /\ \A q \in 1..Len(body) : body[q] \in Range(container)
        /\ opened \in Seq(Cells)
        /\ e => Opens(key, container[1].h.baseNonce, container[1], RegionOf(container), i, body)
    BY Zenon DEF MayBeTaken
  <1>1. /\ leaves \in Seq(Leaflets) /\ Len(leaves) = i
        /\ OpenedOf(e, leaves) \in Seq(Seq(Cells)) /\ plain = FlattenSeq(OpenedOf(e, leaves))
        /\ OpensAll(container, key, leaves) /\ InContainer(container, leaves)
    BY Zenon DEF Taken
  <1>2. leaf \in Leaflets /\ leaf.body = body
    BY <1>0 DEF Leaf, Leaflets
  <1>3. e \in BOOLEAN /\ opened \in Seq(Cells)
    BY <1>0
  <1>4. e => Opens(key, container[1].h.baseNonce, container[1], RegionOf(container), i, body)
    BY <1>0
  <1>. HIDE DEF e, leaf, opened
  <1>5. OpenedOf(e, next) = Append(OpenedOf(e, leaves), opened)
    BY <1>1, <1>2, <1>3, MappedAppended DEF opened
  <1>6. /\ next \in Seq(Leaflets) /\ Len(next) = i + 1
        /\ next[i + 1] = leaf /\ \A j \in 1..i : next[j] = leaves[j]
    BY <1>1, <1>2, AppendProperties
  <1>7. OpenedOf(e, next) \in Seq(Seq(Cells))
    BY <1>1, <1>3, <1>5, AppendProperties
  <1>8. plain \o opened = FlattenSeq(OpenedOf(e, next))
    <2>1. FlattenSeq(Append(OpenedOf(e, leaves), opened)) = FlattenSeq(OpenedOf(e, leaves)) \o opened
      BY <1>1, <1>3, FlattenAppended
    <2>. QED
      BY <1>1, <1>5, <2>1
  <1>. HIDE DEF next
  <1>9. OpensAll(container, key, next)
    <2>. SUFFICES ASSUME e
                  PROVE  \A j \in 1..i + 1 : Opens(key, container[1].h.baseNonce, container[1],
                                                   RegionOf(container), j - 1, next[j].body)
      BY <1>6 DEF OpensAll, e
    <2>. TAKE j \in 1..i + 1
    <2>1. CASE j = i + 1
      <3>1. j - 1 = i /\ next[j].body = body
        BY <1>2, <1>6, <2>1
      <3>. QED
        BY <1>4, <3>1
    <2>2. CASE j # i + 1
      <3>1. j \in 1..i
        BY <2>2
      <3>2. next[j] = leaves[j]
        BY <1>6, <3>1
      <3>. QED
        BY <1>1, <3>1, <3>2 DEF OpensAll, e
    <2>. QED
      BY <2>1, <2>2
  <1>10. InContainer(container, next)
    <2>. SUFFICES ASSUME NEW j \in 1..i + 1, NEW q \in 1..Len(next[j].body)
                  PROVE  next[j].body[q] \in Range(container)
      BY <1>6 DEF InContainer
    <2>1. CASE j = i + 1
      BY <1>0, <1>2, <1>6, <2>1
    <2>2. CASE j # i + 1
      <3>1. j \in 1..i
        BY <2>2
      <3>2. next[j] = leaves[j]
        BY <1>6, <3>1
      <3>. QED
        BY <1>1, <3>1, <3>2 DEF InContainer
    <2>. QED
      BY <2>1, <2>2
  <1>11. Taken(container, key, next, i + 1, plain \o opened)
    BY <1>6, <1>7, <1>8, <1>9, <1>10, Zenon DEF Taken, e
  <1>. QED
    BY <1>11, Zenon DEF next, leaf, opened, e

(* A chunk that is taken lengthens the trail.                              *)
LEMMA TrailGrows ==
  ASSUME NEW container \in Seq(Cells), MetaEnd(container) \in 1..Len(container),
         container[1].h.encrypted \in BOOLEAN,
         NEW key, NEW caps, caps.maxChunkLen < MaxU32, caps.maxChunkLen \in Nat,
         NEW i \in Nat, NEW s, TurnShape(container, s), s.err = NoError,
         Trailed(container, key, s, i),
         ChunkError(container, key, caps, i, s.offset, Len(s.plain)) = NoError
  PROVE  Trailed(container, key, Turn(container, key, caps, s, i), i + 1)
  <1>. DEFINE o == s.offset
              e == container[1].h.encrypted
              clen == U32(container[o + 1])
              body == TurnBody(container, o)
              opened == TurnOpened(container, o)
              leaf == Leaf(body)
              next == Turn(container, key, caps, s, i)
              got == Len(s.plain)
  <1>1. /\ clen \in Nat /\ o + 1 + clen \in 0..Len(container) /\ opened \in Seq(Cells)
        /\ next.offset = o + 1 + clen /\ next.plain = s.plain \o opened
        /\ next.leaves = Append(s.leaves, leaf)
    <2>1. TakesChunk(container, key, caps, i, s)
      BY GoodTurn, Zenon
    <2>2. /\ clen \in Nat /\ o + 1 + clen \in 0..Len(container) /\ opened \in Seq(Cells)
          /\ next = [err |-> NoError, offset |-> o + 1 + clen, plain |-> s.plain \o opened,
                     leaves |-> Append(s.leaves, leaf), inBody |-> s.inBody]
      BY <2>1 DEF TakesChunk
    <2>. HIDE DEF next, opened, leaf, clen, o
    <2>. QED
      BY <2>2
  <1>2. o \in 0..Len(container)
    BY DEF TurnShape
  <1>3. ChunkError(container, key, caps, i, o, got) = NoError
    OBVIOUS
  <1>4. /\ s.leaves \in Seq(Leaflets) /\ Len(s.leaves) = i
        /\ Taken(container, key, s.leaves, i, s.plain) /\ FramesOf(s.leaves) \in Seq(Seq(Cells))
        /\ SubSeq(container, 1, o)
             = (<<container[1]>> \o RegionOf(container)) \o FlattenSeq(FramesOf(s.leaves))
    BY DEF Trailed, Taken
  <1>5. ~(clen > caps.maxChunkLen)
    BY <1>3 DEF ChunkError, Truncated, NoError
  <1>6. e => Opens(key, container[1].h.baseNonce, container[1], RegionOf(container), i, body)
    BY <1>3 DEF ChunkError, Truncated, ChunkAuth, NoError, TurnBody
  <1>. HIDE DEF o, got, next
  <1>7. clen < MaxU32 /\ clen = U32(container[o + 1])
    <2>1. MaxU32 \in Nat
      BY WidthAssumption
    <2>. HIDE DEF clen
    <2>. QED
      BY <1>1, <1>5, <2>1 DEF clen
  <1>. HIDE DEF clen
  <1>8. /\ body \in Seq(Cells) /\ Len(body) = clen /\ Framed(body) \in Seq(Cells)
        /\ SubSeq(container, 1, o + 1 + clen) = SubSeq(container, 1, o) \o Framed(body)
        /\ \A q \in 1..clen : body[q] \in Range(container)
    BY <1>1, <1>2, <1>7, FrameIsThere
  <1>9. opened = OpenedBody(e, body)
    BY DEF TurnOpened, OpenedBody
  <1>. HIDE DEF body, opened, e
  <1>10. leaf \in Leaflets /\ leaf.body = body
    BY <1>8 DEF Leaf, Leaflets
  <1>. HIDE DEF leaf
  <1>11. e \in BOOLEAN
    BY DEF e
  <1>12. FramesOf(next.leaves) = Append(FramesOf(s.leaves), Framed(body))
    BY <1>1, <1>4, <1>9, <1>10, <1>11, MappedAppended
  <1>13. Taken(container, key, next.leaves, i + 1, next.plain)
    <2>1. Taken(container, key, Append(s.leaves, Leaf(body)), i + 1, s.plain \o OpenedBody(e, body))
      <3>1. \A q \in 1..Len(body) : body[q] \in Range(container)
        BY <1>8
      <3>2. body \in Seq(Cells) /\ OpenedBody(e, body) \in Seq(Cells)
        BY <1>1, <1>8, <1>9
      <3>3. Taken(container, key, s.leaves, i, s.plain)
        BY <1>4
      <3>. QED
        <4>1. MayBeTaken(container, key, i, body)
          BY <1>6, <3>1, <3>2, Zenon DEF MayBeTaken, e
        <4>2. OpenedBody(e, body) = OpenedBody(container[1].h.encrypted, body)
          BY DEF e
        <4>. QED
          BY <3>3, <4>1, <4>2, TakenGrows
    <2>. QED
      BY <1>1, <1>9, <2>1, Zenon DEF leaf
  <1>14. FramesOf(next.leaves) \in Seq(Seq(Cells))
    BY <1>4, <1>8, <1>12, AppendProperties
  <1>15. SubSeq(container, 1, next.offset)
           = (<<container[1]>> \o RegionOf(container)) \o FlattenSeq(FramesOf(next.leaves))
    <2>. DEFINE a == <<container[1]>> \o RegionOf(container)
                b == FlattenSeq(FramesOf(s.leaves))
                c == Framed(body)
    <2>1. FlattenSeq(FramesOf(next.leaves)) = b \o c
      BY <1>4, <1>8, <1>12, FlattenAppended
    <2>2. a \in Seq(Cells)
      <3>1. container[1] \in Cells /\ RegionOf(container) \in Seq(Cells)
        <4>1. 2 \in Nat /\ 2 >= 1 /\ MetaEnd(container) \in Nat /\ MetaEnd(container) <= Len(container)
              /\ 1 \in 1..Len(container)
          OBVIOUS
        <4>. QED
          BY <4>1, PartOf DEF RegionOf
      <3>2. <<container[1]>> \in Seq(Cells)
        BY <3>1
      <3>. QED
        BY <3>1, <3>2, ConcatProperties
    <2>3. b \in Seq(Cells) /\ c \in Seq(Cells)
      BY <1>4, <1>8, FlattenIsSeq
    <2>4. SubSeq(container, 1, next.offset) = (a \o b) \o c
      BY <1>1, <1>4, <1>8
    <2>. HIDE DEF a, b, c
    <2>5. (a \o b) \o c = a \o (b \o c)
      BY <2>2, <2>3, CellTriples
    <2>. QED
      BY <2>1, <2>4, <2>5 DEF a
  <1>. QED
    BY <1>13, <1>14, <1>15, Zenon DEF Trailed, next

LEMMA TurnsTrail ==
  ASSUME NEW container \in Seq(Cells), MetaEnd(container) \in 1..Len(container),
         container[1].h.encrypted \in BOOLEAN,
         NEW key, NEW caps, caps.maxChunkLen < MaxU32, caps.maxChunkLen \in Nat, NEW i \in Nat,
         AfterTurns(container, key, caps, i).err = NoError
  PROVE  Trailed(container, key, AfterTurns(container, key, caps, i), i)
  <1>. DEFINE s(n) == AfterTurns(container, key, caps, n)
              T == {n \in Nat : s(n).err = NoError /\ ~Trailed(container, key, s(n), n)}
  <1>1. \A n \in Nat : TurnShape(container, s(n)) /\ s(n + 1) = Turn(container, key, caps, s(n), n)
    <2>1. MetaEnd(container) \in 0..Len(container)
      OBVIOUS
    <2>. QED
      BY <2>1, AfterTurnsValues, TurnsShaped
  <1>2. s(0) = Start(container)
    BY AfterTurnsValues
  <1>3. s(i).err = NoError
    OBVIOUS
  <1>. HIDE DEF s
  <1>4. T = {}
    <2>. SUFFICES ASSUME T # {}
                  PROVE  FALSE
      OBVIOUS
    <2>1. PICK x \in T : \A y \in T : x <= y
      <3>1. T \in SUBSET Nat
        OBVIOUS
      <3>. QED
        BY <3>1, LeastOf
    <2>2. x \in Nat /\ s(x).err = NoError /\ ~Trailed(container, key, s(x), x)
      BY <2>1
    <2>3. x # 0
      BY <1>2, <2>2, TrailStarts
    <2>. DEFINE k == x - 1
    <2>4. k \in Nat /\ k \notin T /\ k + 1 = x
      BY <2>1, <2>2, <2>3
    <2>5. s(x) = Turn(container, key, caps, s(k), k) /\ TurnShape(container, s(k))
      BY <1>1, <2>4
    <2>. HIDE DEF k
    <2>6. s(k).err = NoError
      <3>. SUFFICES ASSUME s(k).err # NoError PROVE FALSE
        OBVIOUS
      <3>1. Turn(container, key, caps, s(k), k) = s(k)
        BY DEF Turn
      <3>. QED
        BY <2>2, <2>5, <3>1
    <2>7. Trailed(container, key, s(k), k)
      BY <2>4, <2>6
    <2>. DEFINE err == ChunkError(container, key, caps, k, s(k).offset, Len(s(k).plain))
    <2>8. err = NoError
      <3>. SUFFICES ASSUME err # NoError PROVE FALSE
        OBVIOUS
      <3>1. s(x) = [s(k) EXCEPT !.err = err, !.inBody = CutInBody(container, caps, s(k).offset)]
        BY <2>5, <2>6 DEF Turn
      <3>. HIDE DEF err
      <3>2. s(x).err = err
        BY <2>5, <3>1 DEF TurnShape
      <3>. QED
        BY <2>2, <3>2
    <2>9. Trailed(container, key, s(x), k + 1)
      BY <2>4, <2>5, <2>6, <2>7, <2>8, TrailGrows
    <2>. QED
      BY <2>2, <2>4, <2>9
  <1>. QED
    BY <1>3, <1>4 DEF s

(* A seal that was not forged is in an original.                           *)
LEMMA SealsAreOriginal ==
  ASSUME NEW recipes, NEW container, Unforged(container, Originals(recipes)),
         NEW c \in Range(container), c.t \in {"root", "tag"}
  PROVE  \E o \in Originals(recipes) : c \in Range(o.out)
  <1>1. c \in Seals(container)
    BY DEF Seals
  <1>2. c \in UNION {Seals(o.out) : o \in Originals(recipes)}
    BY <1>1 DEF Unforged
  <1>3. PICK o \in Originals(recipes) : c \in Seals(o.out)
    BY <1>2
  <1>. QED
    BY <1>3 DEF Seals

(* So each chunk that opened is that of an original, in its place.         *)
ChunkOf(o, container, key, j, body) ==
  SameSeal(o.head, o.key, o.meta, o.bodies, container[1], key, RegionOf(container), j - 1, body)

LEMMA ChunksAreOriginal ==
  ASSUME NEW recipes, Encodable(recipes), NEW container, Unforged(container, Originals(recipes)),
         container[1].h.encrypted, NEW key, NEW i \in Nat, NEW leaves, NEW plain,
         Taken(container, key, leaves, i, plain), NEW j \in 1..i
  PROVE  \E o \in Originals(recipes) : ChunkOf(o, container, key, j, leaves[j].body)
  <1>. DEFINE body == leaves[j].body
              b == container[1].h.baseNonce
              h == container[1]
              region == RegionOf(container)
              k == j - 1
  <1>1. body \in Seq(Cells)
    <2>1. leaves \in Seq(Leaflets) /\ j \in 1..Len(leaves)
      BY Zenon DEF Taken
    <2>2. leaves[j] \in Leaflets
      BY <2>1
    <2>. QED
      BY <2>2 DEF Leaflets
  <1>2. k \in Nat
    OBVIOUS
  <1>3. Opens(key, b, h, region, k, body)
    <2>1. OpensAll(container, key, leaves) /\ j \in 1..Len(leaves)
      BY DEF Taken
    <2>. QED
      BY <2>1, Zenon DEF OpensAll
  <1>4. \A q \in 1..Len(body) : body[q] \in Range(container)
    <2>1. InContainer(container, leaves) /\ j \in 1..Len(leaves)
      BY DEF Taken
    <2>. QED
      BY <2>1, Zenon DEF InContainer
  <1>. HIDE DEF body, b, h, region, k
  <1>5. Len(body) >= TagLen /\ Last(body).t = "tag"
    BY <1>3, OpensSealed DEF Sealed
  <1>6. Last(body) \in Range(container)
    <2>1. Len(body) \in 1..Len(body) /\ Last(body) = body[Len(body)]
      BY <1>1, <1>5, TagIsLast
    <2>. QED
      BY <1>4, <2>1
  <1>7. PICK o \in Originals(recipes) : Last(body) \in Range(o.out)
    BY <1>5, <1>6, SealsAreOriginal
  <1>8. PICK sorted, size : Honest(o.out, o.key, o.head, o.meta, sorted, o.plain, size, o.bodies)
    BY OriginalIsHonest DEF HonestOriginal
  <1>. DEFINE hd == o.head
              ky == o.key
              mt == o.meta
              bs == o.bodies
              ct == o.out
              pl == o.plain
  <1>9. Honest(ct, ky, hd, mt, sorted, pl, size, bs) /\ Last(body) \in Range(ct)
    BY <1>7, <1>8
  <1>. HIDE DEF hd, ky, mt, bs, ct, pl
  <1>10. SameSeal(hd, ky, mt, bs, h, key, region, k, body)
    BY <1>1, <1>2, <1>3, <1>9, TagTells
  <1>. QED
    BY <1>10 DEF ChunkOf, hd, ky, mt, bs, h, region, k, body

(* All of the same one.                                                    *)
PartOfOriginal(o, container, key, plain) ==
  /\ o.head = container[1] /\ o.meta = RegionOf(container) /\ o.key = key
  /\ IsPrefix(plain, o.plain)

LEMMA ChunksAreOfOne ==
  ASSUME NEW recipes, Encodable(recipes), NEW container, Unforged(container, Originals(recipes)),
         container[1].h.encrypted, NEW key, NEW i \in Nat \ {0},
         NEW leaves, NEW plain, Taken(container, key, leaves, i, plain)
  PROVE  \E o \in Originals(recipes) :
           \A j \in 1..i : ChunkOf(o, container, key, j, leaves[j].body)
  <1>1. i \in Nat /\ 1 \in 1..i
    OBVIOUS
  <1>2. PICK o \in Originals(recipes) : ChunkOf(o, container, key, 1, leaves[1].body)
    BY <1>1, ChunksAreOriginal
  <1>3. o.key # NoKey
    <2>1. PICK sorted, size : Honest(o.out, o.key, o.head, o.meta, sorted, o.plain, size, o.bodies)
      BY OriginalIsHonest DEF HonestOriginal
    <2>2. o.head.h.encrypted
      BY <1>2 DEF ChunkOf, SameSeal
    <2>3. Len(o.key) = KeyLen
      BY <2>1, <2>2, Zenon DEF Honest, Describes
    <2>. DEFINE k == o.key
    <2>4. Len(k) = 1
      BY <2>3 DEF KeyLen
    <2>. HIDE DEF k
    <2>5. k # <<>>
      <3>1. <<>> \in Seq(Nat) /\ Len(<<>>) = 0
        BY EmptySeq
      <3>2. k = <<>> => Len(k) = 0
        BY <3>1, Zenon
      <3>. QED
        BY <2>4, <3>2, SMT
    <2>. QED
      BY <2>5 DEF k, NoKey
  <1>4. ASSUME NEW j \in 1..i
        PROVE  ChunkOf(o, container, key, j, leaves[j].body)
    <2>1. PICK p \in Originals(recipes) : ChunkOf(p, container, key, j, leaves[j].body)
      <3>. HIDE DEF ChunkOf
      <3>. QED
        BY <1>1, ChunksAreOriginal
    <2>2. NonceReused(o, p)
      BY <1>2, <1>3, <2>1, Zenon DEF ChunkOf, SameSeal, NonceReused
    <2>3. o = p
      BY <2>2 DEF Encodable
    <2>. QED
      BY <2>1, <2>3
  <1>. QED
    BY <1>4

LEMMA TakenIsOriginal ==
  ASSUME NEW recipes, Encodable(recipes), NEW container, Unforged(container, Originals(recipes)),
         container[1].h.encrypted, NEW key, NEW i \in Nat \ {0},
         NEW leaves, NEW plain, Taken(container, key, leaves, i, plain)
  PROVE  \E o \in Originals(recipes) : PartOfOriginal(o, container, key, plain)
  <1>1. PICK o \in Originals(recipes) :
          \A j \in 1..i : ChunkOf(o, container, key, j, leaves[j].body)
    BY ChunksAreOfOne
  <1>2. PICK sorted, size : Honest(o.out, o.key, o.head, o.meta, sorted, o.plain, size, o.bodies)
    BY OriginalIsHonest DEF HonestOriginal
  <1>. DEFINE hd == o.head
              bs == o.bodies
              pl == o.plain
              e == hd.h.encrypted
              chunks == ChunksOf(pl, size)
              opened == OpenedOf(container[1].h.encrypted, leaves)
  <1>3. /\ OpenedOf(e, Leaves(bs)) = chunks /\ Len(bs) = Len(chunks) /\ Len(bs) \in Nat
        /\ chunks \in Seq(Seq(Cells)) /\ pl \in Seq(Cells) /\ Joined(chunks, Len(bs)) = pl
    BY <1>2, HonestText
  <1>4. /\ e /\ hd = container[1] /\ o.key = key /\ o.meta = RegionOf(container)
        /\ \A j \in 1..i : j \in 1..Len(bs) /\ leaves[j].body = bs[j]
    <2>1. ASSUME NEW j \in 1..i
          PROVE  /\ e /\ hd = container[1] /\ o.key = key /\ o.meta = RegionOf(container)
                 /\ j \in 1..Len(bs) /\ leaves[j].body = bs[j]
      <3>1. (j - 1) + 1 = j
        OBVIOUS
      <3>2. ChunkOf(o, container, key, j, leaves[j].body)
        BY <1>1
      <3>. QED
        BY <3>1, <3>2 DEF ChunkOf, SameSeal
    <2>2. 1 \in 1..i
      OBVIOUS
    <2>. QED
      BY <2>1, <2>2
  <1>5. i <= Len(bs)
    BY <1>3, <1>4
  <1>6. bs \in Seq(Seq(BodyCells))
    BY <1>2 DEF Honest, AreBodies
  <1>7. \A j \in 1..Len(bs) : Leaves(bs)[j] = Leaf(bs[j]) /\ j \in DOMAIN Leaves(bs)
    BY <1>6, LeavesAreSeq
  <1>8. leaves \in Seq(Leaflets) /\ Len(leaves) = i /\ opened \in Seq(Seq(Cells))
        /\ plain = FlattenSeq(opened) /\ opened = OpenedOf(e, leaves)
    BY <1>4 DEF Taken
  <1>. HIDE DEF hd, bs, pl, e, chunks, opened
  <1>9. ASSUME NEW j \in 1..i PROVE opened[j] = chunks[j]
    <2>1. opened[j] = OpenedBody(e, leaves[j].body)
      BY <1>8 DEF OpenedOf
    <2>2. j \in 1..Len(bs) /\ leaves[j].body = bs[j]
      BY <1>4
    <2>3. chunks[j] = OpenedBody(e, Leaves(bs)[j].body)
      BY <1>3, <1>7, <2>2 DEF OpenedOf
    <2>4. Leaves(bs)[j].body = bs[j]
      <3>1. \A x : Leaf(x).body = x
        BY DEF Leaf
      <3>. QED
        BY <1>7, <2>2, <3>1, Zenon
    <2>. QED
      BY <2>1, <2>2, <2>3, <2>4
  <1>10. opened = Upto(chunks, i)
    <2>1. DOMAIN leaves = 1..i
      BY <1>8
    <2>2. opened = [j \in 1..i |-> OpenedBody(e, leaves[j].body)]
      BY <1>8, <2>1, Zenon DEF OpenedOf
    <2>. DEFINE a(j) == OpenedBody(e, leaves[j].body)
    <2>3. opened = [j \in 1..i |-> a(j)]
      BY <2>2
    <2>. HIDE DEF a
    <2>4. \A j \in 1..i : a(j) = chunks[j]
      BY <1>9, <2>3
    <2>5. opened = [j \in 1..i |-> chunks[j]]
      BY <2>3, <2>4
    <2>. QED
      BY <2>5 DEF Upto
  <1>11. plain = Joined(chunks, i)
    BY <1>8, <1>10 DEF Joined
  <1>12. Begins(plain, pl, Cells) /\ plain \in Seq(Cells)
    <2>1. i \in 0..Len(chunks) /\ Len(bs) \in i..Len(chunks)
      BY <1>3, <1>5
    <2>2. Begins(Joined(chunks, i), Joined(chunks, Len(bs)), Cells)
      BY <1>3, <2>1, JoinedBegins
    <2>3. Joined(chunks, i) \in Seq(Cells)
      BY <1>3, <2>1, JoinedIsSeq
    <2>. QED
      BY <1>3, <1>11, <2>2, <2>3
  <1>13. IsPrefix(plain, pl)
    BY <1>3, <1>12, BeginsIsPrefix
  <1>. QED
    BY <1>4, <1>13 DEF PartOfOriginal, hd, pl

-----------------------------------------------------------------------------
(* A container whose root is the one computed is an original, all of it.   *)
IsOriginal(o, container, key, plain) ==
  container = o.out /\ o.key \in {NoKey, key} /\ o.plain = plain

RootIsIts(container, key, leaves, plain, ct, ky, hd, mt, pl, bs) ==
  /\ RootKeyOf(key, container[1]) = RootKeyOf(ky, hd)
  /\ container[1] = hd /\ RegionOf(container) = mt /\ leaves = Leaves(bs) /\ plain = pl

LEMMA RootIsOf ==
  ASSUME NEW ct, NEW ky, NEW hd, NEW mt, NEW sorted, NEW pl, NEW size, NEW bs,
         Honest(ct, ky, hd, mt, sorted, pl, size, bs),
         NEW container, NEW key, NEW i, NEW leaves, NEW plain,
         Taken(container, key, leaves, i, plain), RegionOf(container) \in Seq(Cells),
         RootCell(RootKeyOf(key, container[1]), (<<container[1]>> \o RegionOf(container)) \o leaves)
           \in Range(ct)
  PROVE  RootIsIts(container, key, leaves, plain, ct, ky, hd, mt, pl, bs)
  <1>. DEFINE h == container[1]
              region == RegionOf(container)
              rk == RootKeyOf(key, h)
              chunks == ChunksOf(pl, size)
  <1>1. leaves \in Seq(Leaflets) /\ plain = FlattenSeq(OpenedOf(h.h.encrypted, leaves))
    BY Zenon DEF Taken
  <1>2. region \in Seq(Cells) /\ RootCell(rk, (<<h>> \o region) \o leaves) \in Range(ct)
    OBVIOUS
  <1>. HIDE DEF h, region, rk
  <1>3. rk = RootKeyOf(ky, hd) /\ h = hd /\ region = mt /\ leaves = Leaves(bs)
    BY <1>1, <1>2, RootTells
  <1>4. /\ OpenedOf(hd.h.encrypted, Leaves(bs)) = chunks /\ Len(bs) = Len(chunks)
        /\ chunks \in Seq(Seq(Cells)) /\ Joined(chunks, Len(bs)) = pl
    BY HonestText DEF chunks
  <1>. HIDE DEF chunks
  <1>5. plain = FlattenSeq(chunks)
    BY <1>1, <1>3, <1>4
  <1>6. Joined(chunks, Len(chunks)) = FlattenSeq(chunks)
    BY <1>4, JoinedAll
  <1>7. plain = pl
    BY <1>4, <1>5, <1>6
  <1>. QED
    BY <1>3, <1>7, Zenon DEF RootIsIts, h, region, rk

(* So its key is the original's.                                           *)
LEMMA KeyIsOf ==
  ASSUME NEW ky, NEW hd, NEW key, ~hd.h.encrypted => ky = NoKey, RootKeyOf(key, hd) = RootKeyOf(ky, hd)
  PROVE  ky \in {NoKey, key} /\ (hd.h.encrypted => ky = key)
  <1>1. CASE hd.h.encrypted
    <2>1. rootKey(key, hd.h.baseNonce) = rootKey(ky, hd.h.baseNonce)
      BY <1>1 DEF RootKeyOf
    <2>. QED
      BY <1>1, <2>1 DEF rootKey
  <1>2. CASE ~hd.h.encrypted
    BY <1>2
  <1>. QED
    BY <1>1, <1>2

(* The root of a reader that is in the stream: what it has taken is all of *)
(* an original.                                                            *)
WholeOriginal(o, container, key, leaves, plain) ==
  /\ RootKeyOf(key, o.head) = RootKeyOf(o.key, o.head)
  /\ o.head = container[1] /\ o.meta = RegionOf(container) /\ leaves = Leaves(o.bodies)
  /\ o.key \in {NoKey, key} /\ (container[1].h.encrypted => o.key = key) /\ o.plain = plain

LEMMA RootIsOriginal ==
  ASSUME NEW recipes, Encodable(recipes), NEW container, Unforged(container, Originals(recipes)),
         NEW key, NEW i, NEW leaves, NEW plain, Taken(container, key, leaves, i, plain),
         RegionOf(container) \in Seq(Cells),
         NEW root, root = RootCell(RootKeyOf(key, container[1]),
                                   (<<container[1]>> \o RegionOf(container)) \o leaves),
         root \in Range(container)
  PROVE  \E o \in Originals(recipes) : WholeOriginal(o, container, key, leaves, plain)
  <1>1. root.t = "root"
    BY DEF RootCell
  <1>2. PICK o \in Originals(recipes) : root \in Range(o.out)
    BY <1>1, SealsAreOriginal
  <1>3. PICK sorted, size : Honest(o.out, o.key, o.head, o.meta, sorted, o.plain, size, o.bodies)
    BY OriginalIsHonest DEF HonestOriginal
  <1>. DEFINE hd == o.head
              ky == o.key
              mt == o.meta
              bs == o.bodies
              pl == o.plain
              ct == o.out
  <1>4. Honest(ct, ky, hd, mt, sorted, pl, size, bs) /\ (~hd.h.encrypted => ky = NoKey)
    BY <1>3, OriginalIsHonest DEF HonestOriginal
  <1>5. root \in Range(ct)
    BY <1>2
  <1>. HIDE DEF hd, ky, mt, bs, pl, ct
  <1>6. RootIsIts(container, key, leaves, plain, ct, ky, hd, mt, pl, bs)
    BY <1>4, <1>5, RootIsOf
  <1>7. /\ RootKeyOf(key, hd) = RootKeyOf(ky, hd) /\ container[1] = hd /\ RegionOf(container) = mt
        /\ leaves = Leaves(bs) /\ plain = pl
    BY <1>6 DEF RootIsIts
  <1>8. ky \in {NoKey, key} /\ (hd.h.encrypted => ky = key)
    BY <1>4, <1>7, KeyIsOf
  <1>. QED
    BY <1>7, <1>8 DEF WholeOriginal, hd, ky, mt, bs, pl

LEMMA RootedIsOriginal ==
  ASSUME NEW recipes, Encodable(recipes), NEW container \in Seq(Cells),
         Unforged(container, Originals(recipes)), MetaEnd(container) \in 1..Len(container),
         NEW key, NEW i \in Nat, NEW s, Trailed(container, key, s, i),
         NEW root, root = RootCell(RootKeyOf(key, container[1]),
                                   (<<container[1]>> \o RegionOf(container)) \o s.leaves),
         container = SubSeq(container, 1, s.offset) \o <<root, MagicEnd>>,
         root \in Range(container)
  PROVE  \E o \in Originals(recipes) : IsOriginal(o, container, key, s.plain)
  <1>1. Taken(container, key, s.leaves, i, s.plain)
        /\ SubSeq(container, 1, s.offset)
             = (<<container[1]>> \o RegionOf(container)) \o FlattenSeq(FramesOf(s.leaves))
    BY Zenon DEF Trailed
  <1>2. RegionOf(container) \in Seq(Cells)
    <2>1. 2 \in Nat /\ 2 >= 1 /\ MetaEnd(container) \in Nat /\ MetaEnd(container) <= Len(container)
      OBVIOUS
    <2>. QED
      BY <2>1, PartOf DEF RegionOf
  <1>3. PICK o \in Originals(recipes) : WholeOriginal(o, container, key, s.leaves, s.plain)
    BY <1>1, <1>2, RootIsOriginal
  <1>4. PICK sorted, size : Honest(o.out, o.key, o.head, o.meta, sorted, o.plain, size, o.bodies)
    BY OriginalIsHonest DEF HonestOriginal
  <1>. DEFINE h == container[1]
              region == RegionOf(container)
              rk == RootKeyOf(key, h)
              hd == o.head
              ky == o.key
              mt == o.meta
              bs == o.bodies
              ct == o.out
              leaves == s.leaves
  <1>5. /\ Honest(ct, ky, hd, mt, sorted, o.plain, size, bs)
        /\ SubSeq(container, 1, s.offset) = (<<h>> \o region) \o FlattenSeq(FramesOf(leaves))
    BY <1>1, <1>4
  <1>6. /\ rk = RootKeyOf(ky, hd) /\ h = hd /\ region = mt /\ leaves = Leaves(bs)
        /\ ky \in {NoKey, key} /\ o.plain = s.plain
    BY <1>3 DEF WholeOriginal
  <1>. HIDE DEF h, region, rk, hd, ky, mt, bs, ct, leaves
  <1>7. bs \in Seq(Seq(BodyCells)) /\ hd \in HeaderCells /\ mt \in Seq(NumCells)
         /\ IsMade(RootKeyOf(ky, hd), hd, mt, bs) /\ ct = Container(RootKeyOf(ky, hd), hd, mt, bs)
    BY <1>5, HonestIsMade DEF IsMade
  <1>8. FramesOf(leaves) = Frames(bs)
    <2>1. /\ Len(Leaves(bs)) = Len(bs) /\ DOMAIN Leaves(bs) = 1..Len(bs)
          /\ \A j \in 1..Len(bs) : Leaves(bs)[j] = Leaf(bs[j])
      <3>1. Leaves(bs) \in Seq(LeafCells)
        BY <1>7, LeavesAreSeq
      <3>. QED
        BY <1>7, <3>1, LeavesAreSeq
    <2>2. \A x : Leaf(x).body = x
      BY DEF Leaf
    <2>3. \A j \in 1..Len(bs) : Framed(Leaves(bs)[j].body) = Framed(bs[j])
      BY <2>1, <2>2, Zenon
    <2>4. FramesOf(leaves) = [j \in 1..Len(bs) |-> Framed(Leaves(bs)[j].body)]
      BY <1>6, <2>1, Zenon DEF FramesOf
    <2>5. Frames(bs) = [j \in 1..Len(bs) |-> Framed(bs[j])]
      <3>1. DOMAIN bs = 1..Len(bs)
        BY <1>7
      <3>. QED
        BY <3>1, Zenon DEF Frames
    <2>. QED
      BY <2>3, <2>4, <2>5
  <1>9. ct = Written(hd, mt, bs, Len(bs)) \o <<RootCell(rk, Hashed(hd, mt, bs, Len(bs))), MagicEnd>>
    <2>1. /\ hd \in HeaderCells /\ mt \in Seq(NumCells) /\ bs \in Seq(Seq(BodyCells))
          /\ \A j \in 1..Len(bs) : Len(bs[j]) <= MaxU32
          /\ RootKeyOf(ky, hd) \in {NoKey} \cup (Seq(Nat) \X Nat)
      BY <1>7 DEF IsMade
    <2>. QED
      BY <1>6, <1>7, <2>1, ContainerIsWritten
  <1>10. SubSeq(container, 1, s.offset) = Written(hd, mt, bs, Len(bs))
    <2>1. Frames(bs) \in Seq(Seq(Cells)) /\ Len(Frames(bs)) = Len(bs)
      BY <1>7, FramesAreSeqs DEF IsMade
    <2>2. Joined(Frames(bs), Len(bs)) = FlattenSeq(Frames(bs))
      BY <2>1, JoinedAll
    <2>. QED
      BY <1>5, <1>6, <1>8, <2>2 DEF Written
  <1>11. root = RootCell(rk, Hashed(hd, mt, bs, Len(bs)))
    <2>1. root = RootCell(rk, (<<h>> \o region) \o leaves)
      BY DEF rk, h, region, leaves
    <2>2. Upto(Leaves(bs), Len(bs)) = Leaves(bs)
      BY <1>7, LeavesAreLeaflets
    <2>. QED
      BY <1>6, <2>1, <2>2 DEF Hashed
  <1>12. container = ct
    BY <1>9, <1>10, <1>11
  <1>. QED
    BY <1>6, <1>12 DEF IsOriginal, ct, ky

(* What the one-shot decoder accepts is an original.                       *)
LEMMA PrologueIsThere ==
  ASSUME NEW container \in Seq(Cells), NEW key, NEW caps, caps.maxMetaBytes \in Nat,
         PreambleError(container, key, caps) = NoError
  PROVE  /\ MetaEnd(container) \in 1..Len(container)
         /\ container[1].h.encrypted \in BOOLEAN /\ container[1].h.chunkCount \in Nat
         /\ container[1] \in HeaderCells
  <1>1. inspectError(container, caps.maxMetaBytes) = NoError
    BY DEF PreambleError
  <1>2. /\ container # <<>> /\ ParseHeader(container[1]) = NoError
        /\ container[1].h.hasMetadata => parse_metadata(container, caps.maxMetaBytes).ok
    BY <1>1 DEF inspectError, Truncated, MetaMalformed, NoError
  <1>3. Len(container) \in Nat /\ Len(container) >= 1 /\ container[1] \in Cells
    BY <1>2, EmptySeq
  <1>4. container[1].t = "header"
    BY <1>2 DEF ParseHeader, BadMagic, NoError
  <1>5. container[1] \in HeaderCells
    BY <1>3, <1>4 DEF Cells, NumCells, CtCells, TagCells, RootCells, MagicEnd, Junk
  <1>6. container[1].h.encrypted \in BOOLEAN /\ container[1].h.chunkCount \in Nat
    BY <1>5, WidthAssumption DEF HeaderCells, Header
  <1>7. MetaEnd(container) \in 1..Len(container)
    <2>1. CASE container[1].h.hasMetadata
      <3>. DEFINE n == U32(container[2])
      <3>1. parse_metadata(container, caps.maxMetaBytes).ok
        BY <1>2, <2>1
      <3>2. Len(container) >= 2 /\ ~(n > Len(container) - 2)
        BY <1>3, <3>1 DEF parse_metadata, Malformed
      <3>3. 2 \in 1..Len(container)
        BY <1>3, <3>2
      <3>4. n \in Nat
        BY <3>3, CellFacts
      <3>5. MetaEnd(container) = 2 + n
        BY <2>1 DEF MetaEnd
      <3>. HIDE DEF n
      <3>. QED
        BY <1>3, <3>2, <3>4, <3>5
    <2>2. CASE ~container[1].h.hasMetadata
      BY <1>3, <2>2 DEF MetaEnd
    <2>. QED
      BY <2>1, <2>2
  <1>. QED
    BY <1>5, <1>6, <1>7

LEMMA DecodedIsOriginal ==
  ASSUME NEW recipes, Encodable(recipes), NEW container \in Seq(Cells),
         Unforged(container, Originals(recipes)), NEW key, NEW caps,
         caps.maxMetaBytes \in Nat, caps.maxChunkLen \in Nat, caps.maxChunkLen < MaxU32,
         decodeBytes(container, key, caps).err = NoError
  PROVE  \E o \in Originals(recipes) :
           IsOriginal(o, container, key, decodeBytes(container, key, caps).plain)
  <1>1. PreambleError(container, key, caps) = NoError
    BY DecodedPrefix
  <1>2. /\ MetaEnd(container) \in 1..Len(container)
        /\ container[1].h.encrypted \in BOOLEAN /\ container[1].h.chunkCount \in Nat
    BY <1>1, PrologueIsThere
  <1>. DEFINE n == container[1].h.chunkCount
              s == AfterTurns(container, key, caps, n)
              root == RootCell(RootKeyOf(key, container[1]),
                               (<<container[1]>> \o RegionOf(container)) \o s.leaves)
  <1>3. s.err = NoError
    <2>1. Walk(container, key, caps) = s
      BY WalkIsAfterTurns
    <2>2. decodeBytes(container, key, caps).err
            = IF s.err # NoError THEN s.err ELSE EndError(container, key, s)
      BY <1>1, <2>1, DecodedChunks
    <2>. QED
      BY <2>2
  <1>4. EndError(container, key, s) = NoError /\ decodeBytes(container, key, caps).plain = s.plain
    BY <1>1, <1>3, LoopEnds
  <1>5. Trailed(container, key, s, n) /\ TurnShape(container, s)
    <2>1. MetaEnd(container) \in 0..Len(container)
      BY <1>2
    <2>. QED
      BY <1>2, <1>3, <2>1, TurnsTrail, TurnsShaped
  <1>. HIDE DEF s
  <1>. DEFINE o == s.offset
  <1>6. o \in 0..Len(container) /\ Len(container) \in Nat
    BY <1>5 DEF TurnShape
  <1>7. /\ ~(Len(container) - o < 2) /\ container[o + 2] = MagicEnd
        /\ container[o + 1] = RootCell(IF container[1].h.encrypted
                                       THEN rootKey(key, container[1].h.baseNonce) ELSE NoKey,
                                       <<container[1]>> \o RegionOf(container) \o s.leaves)
        /\ Len(container) - o = 2
    BY <1>4 DEF EndError, Truncated, RootMismatch, TrailingData, NoError
  <1>8. container[o + 1] = root
    BY <1>7 DEF RootKeyOf
  <1>. HIDE DEF root, o
  <1>9. o + 1 \in 1..Len(container) /\ o + 2 = Len(container) /\ o \in Nat
    BY <1>6, <1>7
  <1>10. container = SubSeq(container, 1, o) \o <<root, MagicEnd>>
    <2>1. SubSeq(container, 1, o) \o SubSeq(container, o + 1, Len(container)) = SubSeq(container, 1, Len(container))
      <3>1. 1 \in 1..Len(container) + 1 /\ o \in 1 - 1..Len(container)
            /\ Len(container) \in o..Len(container)
        BY <1>6, <1>9
      <3>. QED
        BY <3>1, ConcatAdjacentSubSeq
    <2>2. SubSeq(container, 1, Len(container)) = container
      BY SubSeqFull
    <2>. DEFINE t == SubSeq(container, o + 1, Len(container))
                m == o + 1
                l == Len(container)
    <2>3. m \in Nat /\ m >= 1 /\ l \in Nat /\ l <= Len(container) /\ m <= l /\ l - m + 1 = 2
          /\ m + 1 - 1 = o + 1 /\ m + 2 - 1 = o + 2
      BY <1>6, <1>9
    <2>4. t \in Seq(Cells) /\ Len(t) = 2 /\ t[1] = root /\ t[2] = MagicEnd
      <3>1. t = SubSeq(container, m, l)
        OBVIOUS
      <3>. HIDE DEF m, l, t
      <3>2. /\ SubSeq(container, m, l) \in Seq(Cells)
            /\ Len(SubSeq(container, m, l)) = IF m <= l THEN l - m + 1 ELSE 0
            /\ \A q \in 1..l - m + 1 : SubSeq(container, m, l)[q] = container[m + q - 1]
        BY <2>3, PartOf
      <3>3. 1 \in 1..2 /\ 2 \in 1..2
        OBVIOUS
      <3>4. t[1] = container[m + 1 - 1] /\ t[2] = container[m + 2 - 1] /\ Len(t) = 2
        BY <2>3, <3>1, <3>2, <3>3
      <3>. QED
        BY <1>7, <1>8, <2>3, <3>1, <3>2, <3>4 DEF o
    <2>. HIDE DEF t
    <2>5. t = <<root, MagicEnd>>
      <3>1. <<root, MagicEnd>> \in Seq(Cells)
        <4>0. t \in Seq(Cells) /\ 1 \in 1..Len(t) /\ 2 \in 1..Len(t)
          BY <2>4
        <4>1. t[1] \in Cells /\ t[2] \in Cells
          BY <4>0, ElementOfSeq
        <4>. QED
          BY <2>4, <4>1
      <3>2. Len(<<root, MagicEnd>>) = 2 /\ <<root, MagicEnd>>[1] = root /\ <<root, MagicEnd>>[2] = MagicEnd
        OBVIOUS
      <3>3. \A j \in 1..2 : j = 1 \/ j = 2
        OBVIOUS
      <3>. DEFINE u == <<root, MagicEnd>>
      <3>4. u \in Seq(Cells) /\ Len(u) = 2 /\ \A j \in 1..2 : t[j] = u[j]
        BY <2>4, <3>1, <3>2, <3>3
      <3>. HIDE DEF u
      <3>5. t = u
        BY <2>4, <3>4, SeqsAreEqual
      <3>. QED
        BY <3>5 DEF u
    <2>. QED
      BY <2>1, <2>2, <2>5 DEF t
  <1>11. root \in Range(container)
    BY <1>8, <1>9, IntoRange
  <1>12. \E x \in Originals(recipes) : IsOriginal(x, container, key, s.plain)
    <2>1. root = RootCell(RootKeyOf(key, container[1]),
                          (<<container[1]>> \o RegionOf(container)) \o s.leaves)
      BY DEF root
    <2>2. container = SubSeq(container, 1, s.offset) \o <<root, MagicEnd>>
      BY <1>10 DEF o
    <2>. QED
      BY <1>2, <1>5, <1>11, <2>1, <2>2, RootedIsOriginal
  <1>. QED
    BY <1>4, <1>12
=============================================================================
