----------------------------- MODULE UbcDamage ------------------------------
(***************************************************************************)
(* Small containers, and what storage or transport can make of one: a cut, *)
(* a damaged, lost or repeated cell, chunks lost, repeated or out of       *)
(* order, bytes after the end, a header with another value in one field.   *)
(* A root or tag is never recomputed: that takes the key (or, for a plain  *)
(* container, an encoder).                                                 *)
(***************************************************************************)
EXTENDS UbcOriginals

(* The container of o with other chunk bodies between its head and footer. *)
WithBodies(o, bodies) ==
  <<o.head>> \o o.meta \o FlattenSeq([i \in DOMAIN bodies |-> Framed(bodies[i])])
             \o SubSeq(o.out, Len(o.out) - 1, Len(o.out))

Cuts(s) == {SubSeq(s, 1, n) : n \in 0..Len(s) - 1}

Losses(s) == {RemoveAt(s, i) : i \in DOMAIN s}

Repeats(s) == {InsertAt(s, i, s[i]) : i \in DOMAIN s}

(* A damaged cell: a number becomes another number, any cell unreadable.   *)
Damages(s, numbers) ==
  {ReplaceAt(s, i, Junk) : i \in DOMAIN s} \cup
  {ReplaceAt(s, i, Num(n)) : i \in {j \in DOMAIN s : s[j].t = "num"}, n \in numbers}

Overlong(s) == {Append(s, Junk), s \o s}

Reorderings(o) ==
  LET n == Len(o.bodies)
  IN  {WithBodies(o, [i \in 1..n |-> o.bodies[p[i]]]) : p \in [1..n -> 1..n]}
      \cup {WithBodies(o, RemoveAt(o.bodies, i)) : i \in 1..n}
      \cup {WithBodies(o, InsertAt(o.bodies, i, o.bodies[i])) : i \in 1..n}

(* The chunks of one container between the head and footer of another.     *)
Mixtures(os) == {WithBodies(o, p.bodies) : o, p \in os}

HeaderVariants(h) ==
  {[h EXCEPT !.version = 2], [h EXCEPT !.reserved = TRUE],
   [h EXCEPT !.hashAlgo = 2], [h EXCEPT !.aeadAlgo = 2], [h EXCEPT !.hashAlgo = 1 - @],
   [h EXCEPT !.encrypted = ~@], [h EXCEPT !.hasMetadata = ~@],
   [h EXCEPT !.chunkSize = 0], [h EXCEPT !.chunkSize = MaxU32], [h EXCEPT !.baseNonce = @ + 1],
   [h EXCEPT !.chunkCount = @ + 1], [h EXCEPT !.chunkCount = IF @ = 0 THEN @ ELSE @ - 1],
   [h EXCEPT !.totalSize = @ + 1], [h EXCEPT !.totalSize = IF @ = 0 THEN @ ELSE @ - 1],
   [h EXCEPT !.chunkSize = @ + 1]}

HeaderDamages(s) == {ReplaceAt(s, 1, HeaderCell(h)) : h \in HeaderVariants(s[1].h)}

Damaged(o, numbers) ==
  Cuts(o.out) \cup Losses(o.out) \cup Repeats(o.out) \cup Damages(o.out, numbers)
  \cup Overlong(o.out) \cup Reorderings(o) \cup HeaderDamages(o.out)
=============================================================================
