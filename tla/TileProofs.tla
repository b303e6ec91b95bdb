------------------------------- MODULE TileProofs ------------------------------
(***************************************************************************)
(* What the fast path does inside a KV tile.                               *)
(*                                                                         *)
(* PagedGather: the keys and values are copied from the right rows of the  *)
(* right pages, for every page size, subtile, tile, head, cache and block  *)
(* table whose element offsets fit the 32 bits of the reference.           *)
(*                                                                         *)
(* MixProtocol: no unit overwrites a shared tile that another still needs, *)
(* for any number of Vector cores and of KV tiles.                         *)
(***************************************************************************)
EXTENDS PagedGather, MixProtocol, TLAPS

-----------------------------------------------------------------------------
(* Quotients and remainders: the arithmetic of pages.                      *)

(* A quotient and the multiple it stands for.                              *)
LEMMA DivBounds ==
    ASSUME NEW n \in Nat, NEW d \in Nat \ {0}
    PROVE  /\ n \div d \in Nat
           /\ (n \div d) * d <= n
           /\ n < (n \div d) * d + d
  OBVIOUS

(* A smaller count of parts of d ends at least one part earlier.           *)
LEMMA MulStep ==
    ASSUME NEW a \in Nat, NEW b \in Nat, NEW d \in Nat \ {0}, a < b
    PROVE  a * d + d <= b * d
  OBVIOUS

(* Arithmetic below the modulus does not wrap.                             *)
LEMMA ModSmall ==
    ASSUME NEW n \in Nat, NEW d \in Nat \ {0}, n < d
    PROVE  n % d = n
  OBVIOUS

(* A number is determined by its quotient and remainder.                   *)
LEMMA DivUnique ==
    ASSUME NEW q \in Nat, NEW r \in Nat, NEW d \in Nat \ {0}, r < d
    PROVE  (q * d + r) \div d = q /\ (q * d + r) % d = r
  OBVIOUS

(* Numbers in one block of d share their quotient.                         *)
LEMMA SameQuotient ==
    ASSUME NEW n \in Nat, NEW k \in Nat, NEW d \in Nat \ {0}, (n % d) + k < d
    PROVE  (n + k) \div d = n \div d /\ (n + k) % d = (n % d) + k
<1> DEFINE q == n \div d
           r == n % d
<1>1. q \in Nat /\ r \in 0 .. d - 1 /\ n = q * d + r
  OBVIOUS
<1>2. n + k = q * d + (r + k) /\ r + k \in Nat /\ r + k < d
  BY <1>1
<1> HIDE DEF q, r
<1>3. (q * d + (r + k)) \div d = q /\ (q * d + (r + k)) % d = r + k
  BY <1>1, <1>2, DivUnique
<1> QED
  BY <1>2, <1>3 DEF q, r

(* A rounded-up quotient: the last of the parts starts below n, and the    *)
(* parts together reach n.                                                 *)
LEMMA CeilBounds ==
    ASSUME NEW n \in Nat \ {0}, NEW d \in Nat \ {0}
    PROVE  /\ (n + d - 1) \div d \in Nat \ {0}
           /\ ((n + d - 1) \div d) * d < n + d
           /\ n <= ((n + d - 1) \div d) * d
<1> DEFINE c == (n + d - 1) \div d
<1>1. /\ c \in Nat
      /\ c * d <= n + d - 1
      /\ n + d - 1 < c * d + d
  BY DivBounds, n + d - 1 \in Nat
<1>2. c # 0
  BY <1>1, c = 0 => c * d = 0
<1> QED
  BY <1>1, <1>2

(* The quotient of a number below n is below the rounded-up quotient of n. *)
LEMMA QuotientBelowCeil ==
    ASSUME NEW n \in Nat, NEW m \in Nat, m < n, NEW d \in Nat \ {0}
    PROVE  m \div d \in 0 .. ((n + d - 1) \div d) - 1
<1> DEFINE q == m \div d
           c == (n + d - 1) \div d
<1>1. q \in Nat /\ q * d <= m
  BY DivBounds
<1>2. c \in Nat /\ n <= c * d
  BY CeilBounds
<1>3. q * d < c * d
  BY <1>1, <1>2
<1>4. q < c
  <2>1. CASE c <= q
    <3>1. c * d <= q * d
      BY <2>1, <1>1, <1>2, MulStep
    <3> QED
      BY <3>1, <1>1, <1>2, <1>3
  <2> QED
    BY <2>1, <1>1, <1>2
<1> QED
  BY <1>1, <1>2, <1>4

-----------------------------------------------------------------------------
Base == IF pc = "keys" THEN nLoop * SubtileKeys ELSE 0
Token == tile.begin + Base + copied
ElementOffset(t) ==
    (table[t \div PageSize] * PageSize + (t % PageSize)) * Stride + kvHead * HeadDim

(* The 32-bit arithmetic is exact for the tokens of the sequence.          *)
LEMMA Addresses ==
    ASSUME TypeOK, NEW t \in Nat, t < seqLen
    PROVE  /\ U32(t) = t
           /\ t \div PageSize \in DOMAIN table
           /\ table[t \div PageSize] \in Nat
           /\ U32(table[t \div PageSize] * PageSize + (t % PageSize))
                  = table[t \div PageSize] * PageSize + (t % PageSize)
           /\ ElementOffset(t) \in Nat
           /\ ResolvePagedBsndLocation(t) = ElementOffset(t)
<1> USE SizesAssumption, CacheAssumption
<1> DEFINE page == table[t \div PageSize]
           offset == t % PageSize
           row == page * PageSize + offset
<1>1. seqLen \in Nat /\ seqLen <= MaxTokens /\ kvHead \in 0 .. KvHeads - 1
  BY DEF TypeOK, Positive
<1>2. t \div PageSize \in 0 .. Pages(seqLen) - 1
  BY <1>1, QuotientBelowCeil DEF Pages, Positive
<1>3. t \div PageSize \in DOMAIN table /\ page \in 0 .. PhysicalPages - 1
  BY <1>2 DEF TypeOK
<1>4. U32(t) = t
  BY <1>1, ModSmall DEF U32, Positive
<1>5. offset \in 0 .. PageSize - 1
  BY DEF Positive
<1> HIDE DEF page, offset
<1>6. row \in Nat /\ row + 1 <= PhysicalPages * PageSize
  <2>1. page + 1 <= PhysicalPages /\ page \in Nat /\ PhysicalPages \in Nat
    BY <1>3 DEF Positive
  <2>2. page * PageSize + PageSize <= PhysicalPages * PageSize
    BY <2>1, MulStep DEF Positive
  <2> QED
    BY <2>1, <2>2, <1>5 DEF Positive
<1> HIDE DEF row
<1>7. Stride \in Nat \ {0} /\ kvHead * HeadDim \in Nat
      /\ kvHead * HeadDim + HeadDim <= Stride
  <2>1. kvHead \in Nat /\ kvHead + 1 <= KvHeads
    BY <1>1 DEF Positive
  <2>2. kvHead * HeadDim + HeadDim <= KvHeads * HeadDim
    BY <2>1, MulStep DEF Positive
  <2> QED
    BY <2>1, <2>2 DEF Stride, Positive
<1>8. row * Stride + Stride <= (PhysicalPages * PageSize) * Stride
  BY <1>6, <1>7, MulStep, PhysicalPages * PageSize \in Nat DEF Positive
<1>9. row * Stride \in Nat /\ row * Stride + Stride <= U32Mod
  BY <1>6, <1>7, <1>8 DEF Stride, Positive
<1>10. row * Stride + kvHead * HeadDim \in Nat
       /\ row * Stride + kvHead * HeadDim < U32Mod
  BY <1>7, <1>9 DEF Positive
<1>11. (row * KvHeads + kvHead) * HeadDim = row * Stride + kvHead * HeadDim
  BY <1>6, <1>1 DEF Stride, Positive
<1>12. U32((row * KvHeads + kvHead) * HeadDim) = row * Stride + kvHead * HeadDim
  BY <1>10, <1>11, ModSmall DEF U32, Positive
<1>13. row < U32Mod
  <2>1. row <= row * Stride
    BY <1>6, <1>7
  <2> QED
    BY <2>1, <1>6, <1>7, <1>9 DEF Positive
<1>14. U32(row) = row
  BY <1>13, <1>6, ModSmall DEF U32, Positive
<1>15. /\ ElementOffset(t) = row * Stride + kvHead * HeadDim
       /\ ResolvePagedBsndLocation(t) = U32((row * KvHeads + kvHead) * HeadDim)
  BY Zenon DEF ElementOffset, ResolvePagedBsndLocation, page, offset, row
<1>16. page \in Nat
  BY <1>3
<1> QED
  BY <1>3, <1>4, <1>10, <1>12, <1>14, <1>15, <1>16, Zenon DEF page, offset, row

(* The rows of the current subtile, or of the tile.                        *)
LEMMA RowBounds ==
    ASSUME TypeOK
    PROVE  /\ Rows \in Nat \ {0}
           /\ Base \in Nat
           /\ Base + Rows <= tile.count
           /\ tile.begin + Base + Rows <= seqLen
           /\ pc = "keys" => Rows <= SubtileKeys
           /\ Rows <= KvTile
<1> DEFINE subtiles == nLoop * SubtileKeys
<1>1. /\ tile.begin \in Nat /\ tile.count \in 1 .. KvTile
      /\ tile.begin + tile.count <= seqLen /\ seqLen \in Nat
      /\ nLoop \in Nat /\ subtiles < tile.count
      /\ SubtileKeys \in Nat \ {0} /\ KvTile \in Nat
  BY SizesAssumption DEF TypeOK, Positive
<1>2. subtiles \in Nat
  BY <1>1
<1> HIDE DEF subtiles
<1>3. CASE pc = "keys"
  <2>1. Base = subtiles /\ Rows = Lesser(SubtileKeys, tile.count - subtiles)
    BY <1>3 DEF Base, Rows, subtiles
  <2> QED
    BY <1>1, <1>2, <2>1 DEF Lesser
<1>4. CASE pc # "keys"
  BY <1>1, <1>4 DEF Base, Rows
<1> QED
  BY <1>3, <1>4

(* A fragment makes progress, stays in its rows and in one page, and each  *)
(* of its rows is the one the reference would read.                        *)
LEMMA FragmentFacts ==
    ASSUME TypeOK, copied < Rows
    PROVE  /\ LogicalToken = Token /\ Token \in Nat
           /\ Fragment \in Nat \ {0}
           /\ copied + Fragment <= Rows
           /\ Token + Fragment <= seqLen
           /\ \A k \in 0 .. Fragment - 1 :
                  /\ (Token + k) \div PageSize = Token \div PageSize
                  /\ PhysicalElementOffset + k * Stride + kvHead * HeadDim
                         = ResolvePagedBsndLocation(Token + k)
<1> USE SizesAssumption
<1>1. /\ Rows \in Nat \ {0} /\ Base \in Nat /\ copied \in Nat
      /\ tile.begin \in Nat /\ seqLen \in Nat
      /\ tile.begin + Base + Rows <= seqLen
  BY RowBounds DEF TypeOK
<1>2. Token \in Nat /\ Token < seqLen
  BY <1>1 DEF Token
<1>3. LogicalToken = Token
  BY <1>2, Addresses DEF LogicalToken, Token, Base
<1>4. Token % PageSize \in 0 .. PageSize - 1
  BY <1>2 DEF Positive
<1>5. /\ Fragment \in Nat \ {0}
      /\ copied + Fragment <= Rows
      /\ (Token % PageSize) + Fragment <= PageSize
  BY <1>1, <1>3, <1>4 DEF Fragment, Lesser, Positive
<1>6. Token + Fragment <= seqLen
  BY <1>1, <1>5 DEF Token
<1>7. ASSUME NEW k \in 0 .. Fragment - 1
      PROVE  /\ (Token + k) \div PageSize = Token \div PageSize
             /\ PhysicalElementOffset + k * Stride + kvHead * HeadDim
                    = ResolvePagedBsndLocation(Token + k)
  <2> DEFINE page == table[Token \div PageSize]
             offset == Token % PageSize
  <2>1. k \in Nat /\ k < Fragment /\ (Token % PageSize) + k < PageSize
    BY <1>4, <1>5 DEF Positive
  <2>2. /\ (Token + k) \div PageSize = Token \div PageSize
        /\ (Token + k) % PageSize = (Token % PageSize) + k
    BY <1>2, <2>1, SameQuotient DEF Positive
  <2>3. Token + k \in Nat /\ Token + k < seqLen
    BY <1>1, <1>2, <1>5, <1>6, <2>1
  <2>4. ResolvePagedBsndLocation(Token + k)
            = (page * PageSize + (offset + k)) * Stride + kvHead * HeadDim
    <3>1. ResolvePagedBsndLocation(Token + k) = ElementOffset(Token + k)
      BY <2>3, Addresses, Zenon
    <3> QED
      BY <2>2, <3>1, Zenon DEF ElementOffset
  <2>5. PhysicalElementOffset = (page * PageSize + offset) * Stride /\ page \in Nat
    <3>1. U32(page * PageSize + offset) = page * PageSize + offset /\ page \in Nat
      BY <1>2, Addresses, Zenon
    <3> QED
      BY <1>3, <3>1, Zenon DEF PhysicalElementOffset
  <2>6. Stride \in Nat
    BY DEF Stride, Positive
  <2>7. offset \in Nat
    BY <1>4 DEF Positive
  <2> HIDE DEF page, offset
  <2>8. (page * PageSize + (offset + k)) * Stride
            = (page * PageSize + offset) * Stride + k * Stride
    BY <2>1, <2>5, <2>6, <2>7 DEF Positive
  <2> QED
    BY <2>2, <2>4, <2>5, <2>8
<1> QED
  BY <1>2, <1>3, <1>5, <1>6, <1>7
-----------------------------------------------------------------------------
(* The rows a copy adds are resolved, and the rows before them stay.       *)
LEMMA CopyResolves ==
    ASSUME TypeOK, copied < Rows,
           NEW last \in Nat, Rows <= last + 1,
           NEW rows \in [0 .. last -> Nat \cup {Stale}],
           \A r \in 0 .. copied - 1 :
               rows[r] = ResolvePagedBsndLocation(tile.begin + Base + r)
    PROVE  /\ Copy(rows) \in [0 .. last -> Nat \cup {Stale}]
           /\ \A r \in 0 .. copied + Fragment - 1 :
                  Copy(rows)[r] = ResolvePagedBsndLocation(tile.begin + Base + r)
<1>1. /\ Rows \in Nat \ {0} /\ Base \in Nat /\ copied \in Nat
      /\ tile.begin \in Nat /\ seqLen \in Nat
  BY RowBounds DEF TypeOK
<1>2. /\ Fragment \in Nat \ {0} /\ copied + Fragment <= Rows
      /\ Token \in Nat /\ Token + Fragment <= seqLen
  BY FragmentFacts
<1>3. ASSUME NEW r \in copied .. copied + Fragment - 1
      PROVE  /\ r \in 0 .. last
             /\ Copy(rows)[r] = ResolvePagedBsndLocation(tile.begin + Base + r)
             /\ Copy(rows)[r] \in Nat
  <2> DEFINE k == r - copied
  <2>1. r \in 0 .. last /\ k \in 0 .. Fragment - 1
    BY <1>1, <1>2
  <2>2. Token + k = tile.begin + Base + r
    BY <1>1 DEF Token
  <2>3. Copy(rows)[r] = PhysicalElementOffset + k * Stride + kvHead * HeadDim
    BY <2>1 DEF Copy
  <2>4. Copy(rows)[r] = ResolvePagedBsndLocation(Token + k)
    BY <2>1, <2>3, FragmentFacts
  <2>5. Token + k \in Nat /\ Token + k < seqLen
    BY <1>1, <1>2, <2>1
  <2>6. ResolvePagedBsndLocation(Token + k) \in Nat
    BY <2>5, Addresses
  <2> QED
    BY <2>1, <2>2, <2>4, <2>6
<1>4. ASSUME NEW r \in 0 .. last, r \notin copied .. copied + Fragment - 1
      PROVE  Copy(rows)[r] = rows[r]
  BY <1>4 DEF Copy
<1>5. Copy(rows) \in [0 .. last -> Nat \cup {Stale}]
  <2>1. DOMAIN Copy(rows) = 0 .. last
    BY DEF Copy
  <2>2. Copy(rows) = [r \in 0 .. last |-> Copy(rows)[r]]
    BY <2>1 DEF Copy
  <2>3. \A r \in 0 .. last : Copy(rows)[r] \in Nat \cup {Stale}
    BY <1>3, <1>4
  <2> QED
    BY <2>2, <2>3
<1>6. ASSUME NEW r \in 0 .. copied + Fragment - 1
      PROVE  Copy(rows)[r] = ResolvePagedBsndLocation(tile.begin + Base + r)
  <2>1. CASE r \in copied .. copied + Fragment - 1
    BY <2>1, <1>3
  <2>2. CASE r \notin copied .. copied + Fragment - 1
    <3>1. r \in 0 .. copied - 1 /\ r \in 0 .. last
      BY <2>2, <1>1, <1>2
    <3> QED
      BY <3>1, <2>2, <1>4
  <2> QED
    BY <2>1, <2>2
<1> QED
  BY <1>5, <1>6

(* A finished subtile puts its keys in its columns.                        *)
LEMMA MultiplyResolves ==
    ASSUME TypeOK, RowsResolved, ScoresResolved,
           pc = "keys", copied >= Rows, Multiply
    PROVE  /\ score' \in [0 .. KvTile - 1 -> Nat \cup {Stale}]
           /\ \A c \in 0 .. nLoop * SubtileKeys + Rows - 1 :
                  score'[c] = ResolvePagedBsndLocation(tile.begin + c)
<1> DEFINE column == nLoop * SubtileKeys
<1>1. /\ Rows \in Nat \ {0} /\ copied = Rows /\ Rows <= SubtileKeys
      /\ column \in Nat /\ column + Rows <= tile.count
      /\ tile.count \in Nat /\ tile.begin \in Nat /\ tile.count <= KvTile
      /\ SubtileKeys \in Nat /\ KvTile \in Nat
  <2>1. Base = column
    BY DEF Base
  <2>2. /\ Rows \in Nat \ {0} /\ Base \in Nat /\ Base + Rows <= tile.count
        /\ Rows <= SubtileKeys
    BY RowBounds
  <2> QED
    BY <2>1, <2>2, SizesAssumption DEF TypeOK, Positive
<1>2. /\ l1K \in [0 .. SubtileKeys - 1 -> Nat \cup {Stale}]
      /\ score \in [0 .. KvTile - 1 -> Nat \cup {Stale}]
  BY DEF TypeOK
<1>3. \A r \in 0 .. Rows - 1 :
          l1K[r] = ResolvePagedBsndLocation(tile.begin + column + r)
  BY <1>1 DEF RowsResolved
<1>4. \A c \in 0 .. tile.count - 1 : c < column =>
          score[c] = ResolvePagedBsndLocation(tile.begin + c)
  BY DEF ScoresResolved
<1>5. score' = [c \in 0 .. KvTile - 1 |->
          IF c \in column .. column + Rows - 1 THEN l1K[c - column] ELSE score[c]]
  BY <1>2 DEF Multiply
<1> HIDE DEF column
<1>6. ASSUME NEW c \in column .. column + Rows - 1
      PROVE  /\ c \in 0 .. KvTile - 1 /\ c - column \in 0 .. Rows - 1
             /\ c - column \in 0 .. SubtileKeys - 1
             /\ tile.begin + column + (c - column) = tile.begin + c
  BY <1>1
<1>7. score' \in [0 .. KvTile - 1 -> Nat \cup {Stale}]
  BY <1>2, <1>5, <1>6
<1>8. ASSUME NEW c \in 0 .. column + Rows - 1
      PROVE  score'[c] = ResolvePagedBsndLocation(tile.begin + c)
  <2>1. c \in 0 .. KvTile - 1 /\ c \in 0 .. tile.count - 1
    BY <1>1
  <2>2. CASE c < column
    <3>1. score'[c] = score[c]
      BY <2>1, <2>2, <1>1, <1>5
    <3> QED
      BY <3>1, <2>1, <2>2, <1>4
  <2>3. CASE ~(c < column)
    <3>1. c \in column .. column + Rows - 1
      BY <2>3, <1>1
    <3>2. score'[c] = l1K[c - column]
      BY <3>1, <2>1, <1>5
    <3>3. l1K[c - column] = ResolvePagedBsndLocation(tile.begin + column + (c - column))
      BY <3>1, <1>3, <1>6
    <3> QED
      BY <3>1, <3>2, <3>3, <1>6
  <2> QED
    BY <2>2, <2>3
<1> QED
  BY <1>7, <1>8 DEF column

-----------------------------------------------------------------------------
Inv == TypeOK /\ RowsResolved /\ ScoresResolved

LEMMA InvInit == Init => Inv
<1> SUFFICES ASSUME Init PROVE Inv
  OBVIOUS
<1>1. nLoop = 0 /\ copied = 0 /\ pc = "keys" /\ SubtileKeys \in Nat \ {0}
  BY SizesAssumption DEF Init, Positive
<1>2. tile \in [begin : Nat, count : 1 .. KvTile] /\ tile.begin + tile.count <= seqLen
  BY DEF Init
<1>3. nLoop * SubtileKeys = 0
  BY <1>1
<1>4. Rows \in Nat
  BY <1>1, <1>2, <1>3 DEF Rows, Lesser
<1>5. TypeOK
  BY <1>1, <1>2, <1>3, <1>4 DEF Init, TypeOK
<1>6. RowsResolved /\ ScoresResolved
  BY <1>1, <1>3 DEF RowsResolved, ScoresResolved
<1> QED
  BY <1>5, <1>6 DEF Inv

(* The contract does not change during a launch.                           *)
LEMMA ContractFixed ==
    ASSUME UNCHANGED launch
    PROVE  \A t : ResolvePagedBsndLocation(t)' = ResolvePagedBsndLocation(t)
  BY DEF launch, ResolvePagedBsndLocation

LEMMA InvNext == Inv /\ [Next]_vars => Inv'
<1> SUFFICES ASSUME Inv, [Next]_vars PROVE Inv'
  OBVIOUS
<1> USE DEF launch
<1>1. /\ TypeOK /\ RowsResolved /\ ScoresResolved
  BY DEF Inv
<1>2. /\ SubtileKeys \in Nat \ {0} /\ KvTile \in Nat \ {0}
      /\ tile.begin \in Nat /\ tile.count \in 1 .. KvTile
      /\ nLoop \in Nat /\ nLoop * SubtileKeys \in Nat
      /\ nLoop * SubtileKeys < tile.count
      /\ copied \in Nat /\ copied <= Rows /\ Rows \in Nat \ {0}
  BY <1>1, RowBounds, SizesAssumption DEF TypeOK, Positive
<1>3. CASE CopyKeyFragment
  <2>1. /\ pc = "keys" /\ copied < Rows /\ l1K' = Copy(l1K)
        /\ copied' = copied + Fragment
        /\ UNCHANGED <<launch, pc, nLoop, l1V, score>>
    BY <1>3 DEF CopyKeyFragment
  <2>2. Rows' = Rows /\ Base = nLoop * SubtileKeys /\ Rows <= SubtileKeys
    BY <1>1, <2>1, RowBounds DEF Rows, Base
  <2>3. Fragment \in Nat \ {0} /\ copied + Fragment <= Rows
    BY <1>1, <2>1, FragmentFacts
  <2>4. /\ l1K' \in [0 .. SubtileKeys - 1 -> Nat \cup {Stale}]
        /\ \A r \in 0 .. copied' - 1 :
               l1K'[r] = ResolvePagedBsndLocation(tile.begin + nLoop * SubtileKeys + r)
    <3>1. l1K \in [0 .. SubtileKeys - 1 -> Nat \cup {Stale}]
      BY <1>1 DEF TypeOK
    <3>2. \A r \in 0 .. copied - 1 :
              l1K[r] = ResolvePagedBsndLocation(tile.begin + Base + r)
      BY <1>1, <2>1, <2>2 DEF RowsResolved
    <3>3. SubtileKeys - 1 \in Nat /\ Rows <= SubtileKeys - 1 + 1
      BY <1>2, <2>2
    <3>4. Copy(l1K) \in [0 .. SubtileKeys - 1 -> Nat \cup {Stale}]
      BY <1>1, <2>1, <3>1, <3>2, <3>3, CopyResolves
    <3>5. \A r \in 0 .. copied + Fragment - 1 :
              Copy(l1K)[r] = ResolvePagedBsndLocation(tile.begin + Base + r)
      BY <1>1, <2>1, <3>1, <3>2, <3>3, CopyResolves
    <3>6. \A r \in 0 .. copied' - 1 : r \in 0 .. copied + Fragment - 1
      BY <1>2, <2>1, <2>3
    <3>7. \A r \in 0 .. copied' - 1 :
              l1K'[r] = ResolvePagedBsndLocation(tile.begin + nLoop * SubtileKeys + r)
      BY <2>1, <2>2, <3>5, <3>6
    <3> QED
      BY <2>1, <3>4, <3>7
  <2>5. TypeOK'
    BY <1>1, <1>2, <2>1, <2>2, <2>3, <2>4 DEF TypeOK
  <2>6. RowsResolved' /\ ScoresResolved'
    BY <1>1, <2>1, <2>4, ContractFixed DEF RowsResolved, ScoresResolved
  <2> QED
    BY <2>5, <2>6 DEF Inv
<1>4. CASE NextKeys
  <2>1. /\ pc = "keys" /\ copied >= Rows /\ Multiply
        /\ (nLoop + 1) * SubtileKeys < tile.count
        /\ nLoop' = nLoop + 1 /\ copied' = 0
        /\ UNCHANGED <<launch, pc, l1K, l1V>>
    BY <1>4 DEF NextKeys
  <2>2. (nLoop + 1) * SubtileKeys = nLoop * SubtileKeys + SubtileKeys
    BY <1>2
  <2>3. Rows = SubtileKeys
    BY <1>2, <2>1, <2>2 DEF Rows, Lesser
  <2>4. /\ score' \in [0 .. KvTile - 1 -> Nat \cup {Stale}]
        /\ \A c \in 0 .. nLoop' * SubtileKeys - 1 :
               score'[c] = ResolvePagedBsndLocation(tile.begin + c)
    <3>1. nLoop' * SubtileKeys = nLoop * SubtileKeys + Rows
      BY <2>1, <2>2, <2>3
    <3>2. score' \in [0 .. KvTile - 1 -> Nat \cup {Stale}]
      BY <1>1, <2>1, MultiplyResolves
    <3>3. \A c \in 0 .. nLoop * SubtileKeys + Rows - 1 :
              score'[c] = ResolvePagedBsndLocation(tile.begin + c)
      BY <1>1, <2>1, MultiplyResolves
    <3>4. \A c \in 0 .. nLoop' * SubtileKeys - 1 : c \in 0 .. nLoop * SubtileKeys + Rows - 1
      BY <1>2, <3>1
    <3>5. \A c \in 0 .. nLoop' * SubtileKeys - 1 :
              score'[c] = ResolvePagedBsndLocation(tile.begin + c)
      BY <3>3, <3>4
    <3> QED
      BY <3>2, <3>5
  <2>5. Rows' \in Nat /\ nLoop' \in Nat /\ nLoop' * SubtileKeys \in Nat
    <3>1. nLoop' * SubtileKeys \in Nat /\ nLoop' * SubtileKeys < tile.count
      BY <1>2, <2>1
    <3>2. Rows' = Lesser(SubtileKeys, tile.count - nLoop' * SubtileKeys)
      BY <2>1 DEF Rows, Lesser
    <3> QED
      BY <1>2, <2>1, <3>1, <3>2 DEF Lesser
  <2>6. TypeOK'
    BY <1>1, <1>2, <2>1, <2>4, <2>5 DEF TypeOK
  <2>7. RowsResolved'
    BY <2>1 DEF RowsResolved
  <2>8. ScoresResolved'
    <3>1. ASSUME NEW c \in 0 .. tile.count - 1, c < nLoop' * SubtileKeys
          PROVE  score'[c] = ResolvePagedBsndLocation(tile.begin + c)
      BY <3>1, <2>4, <2>5
    <3> QED
      BY <2>1, <3>1, ContractFixed DEF ScoresResolved
  <2> QED
    BY <2>6, <2>7, <2>8 DEF Inv
<1>5. CASE StartValues
  <2>1. /\ pc = "keys" /\ copied >= Rows /\ Multiply
        /\ (nLoop + 1) * SubtileKeys >= tile.count
        /\ pc' = "values" /\ copied' = 0
        /\ UNCHANGED <<launch, nLoop, l1K, l1V>>
    BY <1>5 DEF StartValues
  <2>2. (nLoop + 1) * SubtileKeys = nLoop * SubtileKeys + SubtileKeys
    BY <1>2
  <2>3. nLoop * SubtileKeys + Rows = tile.count
    BY <1>2, <2>1, <2>2 DEF Rows, Lesser
  <2>4. /\ score' \in [0 .. KvTile - 1 -> Nat \cup {Stale}]
        /\ \A c \in 0 .. tile.count - 1 :
               score'[c] = ResolvePagedBsndLocation(tile.begin + c)
    <3>1. score' \in [0 .. KvTile - 1 -> Nat \cup {Stale}]
      BY <1>1, <2>1, MultiplyResolves
    <3>2. \A c \in 0 .. nLoop * SubtileKeys + Rows - 1 :
              score'[c] = ResolvePagedBsndLocation(tile.begin + c)
      BY <1>1, <2>1, MultiplyResolves
    <3>3. \A c \in 0 .. tile.count - 1 :
              score'[c] = ResolvePagedBsndLocation(tile.begin + c)
      <4>1. \A c \in 0 .. tile.count - 1 : c \in 0 .. nLoop * SubtileKeys + Rows - 1
        BY <1>2, <2>3
      <4> QED
        BY <3>2, <4>1
    <3> QED
      BY <3>1, <3>3
  <2>5. Rows' = tile.count
    BY <2>1 DEF Rows
  <2>6. TypeOK'
    BY <1>1, <1>2, <2>1, <2>4, <2>5 DEF TypeOK
  <2>7. RowsResolved' /\ ScoresResolved'
    BY <2>1, <2>4, ContractFixed DEF RowsResolved, ScoresResolved
  <2> QED
    BY <2>6, <2>7 DEF Inv
<1>6. CASE CopyValueFragment
  <2>1. /\ pc = "values" /\ copied < Rows /\ l1V' = Copy(l1V)
        /\ copied' = copied + Fragment
        /\ UNCHANGED <<launch, pc, nLoop, l1K, score>>
    BY <1>6 DEF CopyValueFragment
  <2>2. Rows' = Rows /\ Base = 0 /\ Rows <= KvTile
    BY <1>1, <2>1, RowBounds DEF Rows, Base
  <2>3. Fragment \in Nat \ {0} /\ copied + Fragment <= Rows
    BY <1>1, <2>1, FragmentFacts
  <2>4. /\ l1V' \in [0 .. KvTile - 1 -> Nat \cup {Stale}]
        /\ \A r \in 0 .. copied' - 1 :
               l1V'[r] = ResolvePagedBsndLocation(tile.begin + r)
    <3>1. l1V \in [0 .. KvTile - 1 -> Nat \cup {Stale}]
      BY <1>1 DEF TypeOK
    <3>2. \A r : tile.begin + Base + r = tile.begin + r
      BY <1>2, <2>2
    <3>3. \A r \in 0 .. copied - 1 :
              l1V[r] = ResolvePagedBsndLocation(tile.begin + Base + r)
      BY <1>1, <2>1, <3>2 DEF RowsResolved
    <3>4. KvTile - 1 \in Nat /\ Rows <= KvTile - 1 + 1
      BY <1>2, <2>2
    <3>5. \A r \in 0 .. copied + Fragment - 1 :
              Copy(l1V)[r] = ResolvePagedBsndLocation(tile.begin + Base + r)
      BY <1>1, <2>1, <3>1, <3>3, <3>4, CopyResolves
    <3>6. Copy(l1V) \in [0 .. KvTile - 1 -> Nat \cup {Stale}]
      BY <1>1, <2>1, <3>1, <3>3, <3>4, CopyResolves
    <3>7. ASSUME NEW r \in 0 .. copied + Fragment - 1
          PROVE  Copy(l1V)[r] = ResolvePagedBsndLocation(tile.begin + r)
      <4>1. tile.begin + Base + r = tile.begin + r
        BY <1>2, <2>2
      <4> QED
        BY <3>5, <4>1, Zenon
    <3>8. \A r \in 0 .. copied' - 1 : r \in 0 .. copied + Fragment - 1
      BY <1>2, <2>1, <2>3
    <3>9. \A r \in 0 .. copied' - 1 :
              l1V'[r] = ResolvePagedBsndLocation(tile.begin + r)
      BY <2>1, <3>7, <3>8
    <3> QED
      BY <2>1, <3>6, <3>9
  <2>5. TypeOK'
    BY <1>1, <1>2, <2>1, <2>2, <2>3, <2>4 DEF TypeOK
  <2>6. RowsResolved' /\ ScoresResolved'
    BY <1>1, <2>1, <2>4, ContractFixed DEF RowsResolved, ScoresResolved
  <2> QED
    BY <2>5, <2>6 DEF Inv
<1>7. CASE FinishValues
  <2>1. pc = "values" /\ pc' = "done" /\ UNCHANGED <<launch, nLoop, copied, l1K, l1V, score>>
    BY <1>7 DEF FinishValues
  <2>2. Rows' = Rows
    BY <2>1 DEF Rows
  <2>3. TypeOK'
    BY <1>1, <2>1, <2>2 DEF TypeOK
  <2>4. RowsResolved' /\ ScoresResolved'
    BY <1>1, <2>1, ContractFixed DEF RowsResolved, ScoresResolved
  <2> QED
    BY <2>3, <2>4 DEF Inv
<1>8. CASE UNCHANGED vars
  BY <1>1, <1>8
     DEF Inv, vars, TypeOK, Rows, RowsResolved, ScoresResolved, ResolvePagedBsndLocation
<1> QED
  BY <1>3, <1>4, <1>5, <1>6, <1>7, <1>8 DEF Next

LEMMA InvHolds == Spec => []Inv
<1>1. Init => Inv
  BY InvInit
<1>2. Inv /\ [Next]_vars => Inv'
  BY InvNext
<1> QED
  BY <1>1, <1>2, PTL DEF Spec

(* The counters of the gather loops stay within the tile and its buffers.  *)
THEOREM GatherTypeCorrect == Spec => []TypeOK
<1>1. Inv => TypeOK
  BY DEF Inv
<1> QED
  BY <1>1, InvHolds, PTL

(* Every gathered row is the row the reference kernel reads for its token. *)
THEOREM RowsMatchReference == Spec => []RowsResolved
<1>1. Inv => RowsResolved
  BY DEF Inv
<1> QED
  BY <1>1, InvHolds, PTL

(* Every column of the score tile is multiplied from its own key.          *)
THEOREM ScoresMatchReference == Spec => []ScoresResolved
<1>1. Inv => ScoresResolved
  BY DEF Inv
<1> QED
  BY <1>1, InvHolds, PTL

(* No fragment leaves its page or the sequence.                            *)
THEOREM FragmentsStayInPage == Spec => OneFragmentPerPage
<1>1. Inv /\ [Next]_vars => [FragmentInPage]_vars
  <2> SUFFICES ASSUME Inv, Next PROVE FragmentInPage
    BY DEF vars
  <2>1. TypeOK /\ copied \in Nat /\ seqLen \in Nat
    BY DEF Inv, TypeOK
  <2>2. CASE CopyKeyFragment \/ CopyValueFragment
    <3>1. copied < Rows /\ copied' = copied + Fragment
      BY <2>2 DEF CopyKeyFragment, CopyValueFragment
    <3>2. /\ LogicalToken = Token /\ Token \in Nat /\ Fragment \in Nat \ {0}
          /\ Token + Fragment <= seqLen
          /\ \A k \in 0 .. Fragment - 1 :
                 (Token + k) \div PageSize = Token \div PageSize
      BY <2>1, <3>1, FragmentFacts
    <3>3. copied' - copied = Fragment
      BY <2>1, <3>1, <3>2
    <3>4. Fragment - 1 \in 0 .. Fragment - 1
          /\ Token + Fragment - 1 = Token + (Fragment - 1)
      BY <3>2
    <3>5. (Token + Fragment - 1) \div PageSize = Token \div PageSize
      BY <3>2, <3>4
    <3>6. Token + Fragment - 1 < seqLen
      BY <2>1, <3>2
    <3> QED
      BY <3>2, <3>3, <3>5, <3>6 DEF FragmentInPage
  <2>3. CASE NextKeys \/ StartValues \/ FinishValues
    <3>1. copied' = 0 \/ copied' = copied
      BY <2>3 DEF NextKeys, StartValues, FinishValues
    <3> QED
      BY <2>1, <3>1 DEF FragmentInPage
  <2> QED
    BY <2>2, <2>3 DEF Next
<1> QED
  BY <1>1, InvHolds, PTL DEF Spec, OneFragmentPerPage

-----------------------------------------------------------------------------
(* The ownership of the shared tiles.                                      *)

(* How far the Cube's events may be apart.                                 *)
CubeOrder ==
    /\ cube["multiplied"] <= cube["multiplying"]
    /\ cube["multiplying"] <= cube["scored"]
    /\ cube["scored"] <= cube["scoring"]
    /\ cube["scoring"] <= cube["multiplied"] + 1
    /\ cube["scoring"] <= TileCount
    /\ cube["multiplying"] <= cube["probRead"]
    /\ cube["probRead"] <= cube["probTaken"]

(* How far a Vector core's events may be apart, and from the Cube's.       *)
VectorOrder(v) ==
    /\ cube["probTaken"] <= vector[v]["published"]
    /\ vector[v]["published"] <= vector[v]["publishing"]
    /\ vector[v]["published"] <= vector[v]["scoreRead"]
    /\ vector[v]["publishing"] <= vector[v]["scoreTaken"]
    /\ vector[v]["scoreRead"] <= vector[v]["scoreTaken"]
    /\ vector[v]["scoreRead"] <= vector[v]["outRead"] + 1
    /\ vector[v]["outRead"] <= vector[v]["scoreRead"]
    /\ vector[v]["outRead"] <= vector[v]["outTaken"]
    /\ vector[v]["outTaken"] <= vector[v]["scoreTaken"]
    /\ vector[v]["scoreTaken"] <= vector[v]["outTaken"] + 1

(* A flag counts the signals that have not been waited for.                *)
FlagCounts(v) ==
    /\ cube["scored"] = vector[v]["scoreTaken"] + flag[v]["qkReady"]
    /\ vector[v]["published"] = cube["probTaken"] + flag[v]["softmaxReady"]
    /\ cube["multiplied"] = vector[v]["outTaken"] + flag[v]["pvReady"]

IInv ==
    /\ ProtocolTypeOK
    /\ CubeOrder
    /\ \A v \in Vectors : VectorOrder(v) /\ FlagCounts(v)

-----------------------------------------------------------------------------
(* The effect of the four ways to change a counter, one field at a time.   *)
LEMMA CubeDoesEffect ==
    ASSUME ProtocolTypeOK, NEW e \in CubeEvents, CubeDoes(e)
    PROVE  /\ cube' \in [CubeEvents -> Nat]
           /\ cube'[e] = cube[e] + 1
           /\ \A x \in CubeEvents : x # e => cube'[x] = cube[x]
BY DEF ProtocolTypeOK, CubeDoes, Advance

LEMMA VectorDoesEffect ==
    ASSUME ProtocolTypeOK, NEW v \in Vectors, NEW e \in VectorEvents, VectorDoes(v, e)
    PROVE  /\ vector' \in [Vectors -> [VectorEvents -> Nat]]
           /\ vector'[v][e] = vector[v][e] + 1
           /\ \A x \in VectorEvents : x # e => vector'[v][x] = vector[v][x]
           /\ \A u \in Vectors : u # v => vector'[u] = vector[u]
BY DEF ProtocolTypeOK, VectorDoes, Advance

LEMMA FlagEffect ==
    ASSUME ProtocolTypeOK, NEW v \in Vectors, NEW f \in Flags
    PROVE  /\ CubeSets(f) => 
                /\ flag' \in [Vectors -> [Flags -> Nat]]
                /\ flag'[v][f] = flag[v][f] + 1
                /\ \A x \in Flags : x # f => flag'[v][x] = flag[v][x]
           /\ CubeWaits(f) =>
                /\ flag' \in [Vectors -> [Flags -> Nat]]
                /\ flag[v][f] > 0 /\ flag[v][f] = flag'[v][f] + 1
                /\ \A x \in Flags : x # f => flag'[v][x] = flag[v][x]
           /\ VectorSets(v, f) =>
                /\ flag' \in [Vectors -> [Flags -> Nat]]
                /\ flag'[v][f] = flag[v][f] + 1
                /\ \A x \in Flags : x # f => flag'[v][x] = flag[v][x]
                /\ \A u \in Vectors : u # v => flag'[u] = flag[u]
           /\ VectorWaits(v, f) =>
                /\ flag' \in [Vectors -> [Flags -> Nat]]
                /\ flag[v][f] > 0 /\ flag[v][f] = flag'[v][f] + 1
                /\ \A x \in Flags : x # f => flag'[v][x] = flag[v][x]
                /\ \A u \in Vectors : u # v => flag'[u] = flag[u]
<1>1. flag[v][f] \in Nat
  BY DEF ProtocolTypeOK
<1>2. ASSUME CubeSets(f)
      PROVE  /\ flag' \in [Vectors -> [Flags -> Nat]]
             /\ flag'[v][f] = flag[v][f] + 1
             /\ \A x \in Flags : x # f => flag'[v][x] = flag[v][x]
  BY <1>2 DEF ProtocolTypeOK, CubeSets, Advance
<1>3. ASSUME CubeWaits(f)
      PROVE  /\ flag' \in [Vectors -> [Flags -> Nat]]
             /\ flag[v][f] > 0 /\ flag[v][f] = flag'[v][f] + 1
             /\ \A x \in Flags : x # f => flag'[v][x] = flag[v][x]
  BY <1>3 DEF ProtocolTypeOK, CubeWaits
<1>4. ASSUME VectorSets(v, f)
      PROVE  /\ flag' \in [Vectors -> [Flags -> Nat]]
             /\ flag'[v][f] = flag[v][f] + 1
             /\ \A x \in Flags : x # f => flag'[v][x] = flag[v][x]
             /\ \A u \in Vectors : u # v => flag'[u] = flag[u]
  BY <1>4 DEF ProtocolTypeOK, VectorSets, Advance
<1>5. ASSUME VectorWaits(v, f)
      PROVE  /\ flag' \in [Vectors -> [Flags -> Nat]]
             /\ flag[v][f] > 0 /\ flag[v][f] = flag'[v][f] + 1
             /\ \A x \in Flags : x # f => flag'[v][x] = flag[v][x]
             /\ \A u \in Vectors : u # v => flag'[u] = flag[u]
  BY <1>5 DEF ProtocolTypeOK, VectorWaits
<1> QED
  BY <1>2, <1>3, <1>4, <1>5

-----------------------------------------------------------------------------
(* Every counter, by name, is a natural number.                            *)
CubeNumbers ==
    /\ cube["scoring"] \in Nat
    /\ cube["scored"] \in Nat
    /\ cube["probTaken"] \in Nat
    /\ cube["probRead"] \in Nat
    /\ cube["multiplying"] \in Nat
    /\ cube["multiplied"] \in Nat
VectorNumbers(v) ==
    /\ vector[v]["scoreTaken"] \in Nat
    /\ vector[v]["scoreRead"] \in Nat
    /\ vector[v]["publishing"] \in Nat
    /\ vector[v]["published"] \in Nat
    /\ vector[v]["outTaken"] \in Nat
    /\ vector[v]["outRead"] \in Nat
    /\ flag[v]["qkReady"] \in Nat
    /\ flag[v]["softmaxReady"] \in Nat
    /\ flag[v]["pvReady"] \in Nat

LEMMA Numbers ==
    ProtocolTypeOK => /\ CubeNumbers
              /\ \A v \in Vectors : VectorNumbers(v)
<1> SUFFICES ASSUME ProtocolTypeOK
             PROVE  CubeNumbers /\ \A v \in Vectors : VectorNumbers(v)
  OBVIOUS
<1>1. CubeNumbers
  BY DEF ProtocolTypeOK, CubeEvents, CubeNumbers
<1>2. ASSUME NEW v \in Vectors
      PROVE  VectorNumbers(v)
  <2>1. vector[v] \in [VectorEvents -> Nat] /\ flag[v] \in [Flags -> Nat]
    BY DEF ProtocolTypeOK
  <2> QED
    BY <2>1 DEF VectorEvents, Flags, VectorNumbers
<1> QED
  BY <1>1, <1>2

(* Waiting moves one signal from the flag to the waiter.                   *)
LEMMA TakeOne ==
    ASSUME NEW sent \in Nat, NEW taken \in Nat, NEW before \in Nat, NEW after \in Nat,
           sent = taken + before, before = after + 1
    PROVE  sent = (taken + 1) + after
OBVIOUS

(* A step of the Cube keeps the order of the events.                       *)
LEMMA CubeStepKeepsOrder ==
    ASSUME ProtocolAssumption, IInv, CubeNext
    PROVE  IInv'
<1>1. /\ ProtocolTypeOK /\ CubeOrder /\ CubeNumbers
      /\ \A v \in Vectors : VectorOrder(v) /\ FlagCounts(v) /\ VectorNumbers(v)
  BY Numbers DEF IInv
<1> SUFFICES ProtocolTypeOK' /\ CubeOrder' /\ \A v \in Vectors : VectorOrder(v)' /\ FlagCounts(v)'
  BY DEF IInv
<1>2. CASE StartScore
  <2>1. CubeDoes("scoring") /\ UNCHANGED <<vector, flag>>
    BY <1>2 DEF StartScore
  <2>2. /\ cube' \in [CubeEvents -> Nat]
        /\ cube'["scoring"] = cube["scoring"] + 1
        /\ cube'["scored"] = cube["scored"]
        /\ cube'["probTaken"] = cube["probTaken"]
        /\ cube'["probRead"] = cube["probRead"]
        /\ cube'["multiplying"] = cube["multiplying"]
        /\ cube'["multiplied"] = cube["multiplied"]
    BY <1>1, <2>1, CubeDoesEffect DEF CubeEvents
  <2>4. ProtocolTypeOK'
    BY <1>1, <2>1, <2>2 DEF ProtocolTypeOK
  <2>5. CubeOrder'
    BY <1>1, <1>2, <2>2
    DEF ProtocolAssumption, StartScore, CubeWaits, CubeOrder, CubeNumbers, VectorOrder, FlagCounts, VectorNumbers
  <2>6. ASSUME NEW v \in Vectors
        PROVE  VectorOrder(v)' /\ FlagCounts(v)'
    BY <1>1, <1>2, <2>1, <2>2
    DEF StartScore, CubeOrder, CubeNumbers, VectorOrder, FlagCounts, VectorNumbers
  <2> QED
    BY <2>4, <2>5, <2>6
<1>3. CASE FinishScore
  <2>1. CubeDoes("scored") /\ CubeSets("qkReady") /\ UNCHANGED vector
    BY <1>3 DEF FinishScore
  <2>2. /\ cube' \in [CubeEvents -> Nat]
        /\ cube'["scored"] = cube["scored"] + 1
        /\ cube'["scoring"] = cube["scoring"]
        /\ cube'["probTaken"] = cube["probTaken"]
        /\ cube'["probRead"] = cube["probRead"]
        /\ cube'["multiplying"] = cube["multiplying"]
        /\ cube'["multiplied"] = cube["multiplied"]
    BY <1>1, <2>1, CubeDoesEffect DEF CubeEvents
  <2>3. ASSUME NEW v \in Vectors
        PROVE  /\ flag' \in [Vectors -> [Flags -> Nat]]
               /\ flag'[v]["qkReady"] = flag[v]["qkReady"] + 1
               /\ flag'[v]["softmaxReady"] = flag[v]["softmaxReady"]
               /\ flag'[v]["pvReady"] = flag[v]["pvReady"]
    BY <1>1, <2>1, FlagEffect DEF Flags
  <2>4. ProtocolTypeOK'
    BY <1>1, <2>1, <2>2, <2>3 DEF ProtocolAssumption, ProtocolTypeOK
  <2>5. CubeOrder'
    BY <1>1, <1>3, <2>2
    DEF ProtocolAssumption, FinishScore, CubeWaits, CubeOrder, CubeNumbers, VectorOrder, FlagCounts, VectorNumbers
  <2>6. ASSUME NEW v \in Vectors
        PROVE  VectorOrder(v)' /\ FlagCounts(v)'
    BY <1>1, <1>3, <2>1, <2>2, <2>3
    DEF FinishScore, CubeOrder, CubeNumbers, VectorOrder, FlagCounts, VectorNumbers
  <2> QED
    BY <2>4, <2>5, <2>6
<1>4. CASE TakeProbability
  <2>1. CubeDoes("probTaken") /\ CubeWaits("softmaxReady") /\ UNCHANGED vector
    BY <1>4 DEF TakeProbability
  <2>2. /\ cube' \in [CubeEvents -> Nat]
        /\ cube'["probTaken"] = cube["probTaken"] + 1
        /\ cube'["scoring"] = cube["scoring"]
        /\ cube'["scored"] = cube["scored"]
        /\ cube'["probRead"] = cube["probRead"]
        /\ cube'["multiplying"] = cube["multiplying"]
        /\ cube'["multiplied"] = cube["multiplied"]
    BY <1>1, <2>1, CubeDoesEffect DEF CubeEvents
  <2>3. ASSUME NEW v \in Vectors
        PROVE  /\ flag' \in [Vectors -> [Flags -> Nat]]
               /\ flag[v]["softmaxReady"] > 0
               /\ flag'[v]["softmaxReady"] \in Nat
               /\ flag[v]["softmaxReady"] = flag'[v]["softmaxReady"] + 1
               /\ flag'[v]["qkReady"] = flag[v]["qkReady"]
               /\ flag'[v]["pvReady"] = flag[v]["pvReady"]
    BY <1>1, <2>1, FlagEffect DEF Flags
  <2>4. ProtocolTypeOK'
    BY <1>1, <2>1, <2>2, <2>3 DEF ProtocolAssumption, ProtocolTypeOK
  <2>5. CubeOrder'
    BY <1>1, <1>4, <2>2
    DEF ProtocolAssumption, TakeProbability, CubeWaits, CubeOrder, CubeNumbers, VectorOrder, FlagCounts, VectorNumbers
  <2>6. ASSUME NEW v \in Vectors
        PROVE  VectorOrder(v)' /\ FlagCounts(v)'
    <3>1. CubeOrder /\ CubeNumbers /\ VectorOrder(v) /\ FlagCounts(v) /\ VectorNumbers(v)
      BY <1>1
    <3>2. vector[v]["published"] = (cube["probTaken"] + 1) + flag'[v]["softmaxReady"]
      BY <3>1, <2>3, TakeOne DEF CubeNumbers, FlagCounts, VectorNumbers
    <3>3. FlagCounts(v)'
      BY <3>1, <3>2, <2>1, <2>2, <2>3 DEF FlagCounts
    <3>4. VectorOrder(v)'
      BY <3>1, <2>1, <2>2, <2>3
      DEF CubeOrder, CubeNumbers, VectorOrder, FlagCounts, VectorNumbers
    <3> QED
      BY <3>3, <3>4
  <2> QED
    BY <2>4, <2>5, <2>6
<1>5. CASE ReadProbability
  <2>1. CubeDoes("probRead") /\ UNCHANGED <<vector, flag>>
    BY <1>5 DEF ReadProbability
  <2>2. /\ cube' \in [CubeEvents -> Nat]
        /\ cube'["probRead"] = cube["probRead"] + 1
        /\ cube'["scoring"] = cube["scoring"]
        /\ cube'["scored"] = cube["scored"]
        /\ cube'["probTaken"] = cube["probTaken"]
        /\ cube'["multiplying"] = cube["multiplying"]
        /\ cube'["multiplied"] = cube["multiplied"]
    BY <1>1, <2>1, CubeDoesEffect DEF CubeEvents
  <2>4. ProtocolTypeOK'
    BY <1>1, <2>1, <2>2 DEF ProtocolTypeOK
  <2>5. CubeOrder'
    BY <1>1, <1>5, <2>2
    DEF ProtocolAssumption, ReadProbability, CubeWaits, CubeOrder, CubeNumbers, VectorOrder, FlagCounts, VectorNumbers
  <2>6. ASSUME NEW v \in Vectors
        PROVE  VectorOrder(v)' /\ FlagCounts(v)'
    BY <1>1, <1>5, <2>1, <2>2
    DEF ReadProbability, CubeOrder, CubeNumbers, VectorOrder, FlagCounts, VectorNumbers
  <2> QED
    BY <2>4, <2>5, <2>6
<1>6. CASE StartOutput
  <2>1. CubeDoes("multiplying") /\ UNCHANGED <<vector, flag>>
    BY <1>6 DEF StartOutput
  <2>2. /\ cube' \in [CubeEvents -> Nat]
        /\ cube'["multiplying"] = cube["multiplying"] + 1
        /\ cube'["scoring"] = cube["scoring"]
        /\ cube'["scored"] = cube["scored"]
        /\ cube'["probTaken"] = cube["probTaken"]
        /\ cube'["probRead"] = cube["probRead"]
        /\ cube'["multiplied"] = cube["multiplied"]
    BY <1>1, <2>1, CubeDoesEffect DEF CubeEvents
  <2>4. ProtocolTypeOK'
    BY <1>1, <2>1, <2>2 DEF ProtocolTypeOK
  <2>5. CubeOrder'
    BY <1>1, <1>6, <2>2
    DEF ProtocolAssumption, StartOutput, CubeWaits, CubeOrder, CubeNumbers, VectorOrder, FlagCounts, VectorNumbers
  <2>6. ASSUME NEW v \in Vectors
        PROVE  VectorOrder(v)' /\ FlagCounts(v)'
    BY <1>1, <1>6, <2>1, <2>2
    DEF StartOutput, CubeOrder, CubeNumbers, VectorOrder, FlagCounts, VectorNumbers
  <2> QED
    BY <2>4, <2>5, <2>6
<1>7. CASE FinishOutput
  <2>1. CubeDoes("multiplied") /\ CubeSets("pvReady") /\ UNCHANGED vector
    BY <1>7 DEF FinishOutput
  <2>2. /\ cube' \in [CubeEvents -> Nat]
        /\ cube'["multiplied"] = cube["multiplied"] + 1
        /\ cube'["scoring"] = cube["scoring"]
        /\ cube'["scored"] = cube["scored"]
        /\ cube'["probTaken"] = cube["probTaken"]
        /\ cube'["probRead"] = cube["probRead"]
        /\ cube'["multiplying"] = cube["multiplying"]
    BY <1>1, <2>1, CubeDoesEffect DEF CubeEvents
  <2>3. ASSUME NEW v \in Vectors
        PROVE  /\ flag' \in [Vectors -> [Flags -> Nat]]
               /\ flag'[v]["pvReady"] = flag[v]["pvReady"] + 1
               /\ flag'[v]["qkReady"] = flag[v]["qkReady"]
               /\ flag'[v]["softmaxReady"] = flag[v]["softmaxReady"]
    BY <1>1, <2>1, FlagEffect DEF Flags
  <2>4. ProtocolTypeOK'
    BY <1>1, <2>1, <2>2, <2>3 DEF ProtocolAssumption, ProtocolTypeOK
  <2>5. CubeOrder'
    BY <1>1, <1>7, <2>2
    DEF ProtocolAssumption, FinishOutput, CubeWaits, CubeOrder, CubeNumbers, VectorOrder, FlagCounts, VectorNumbers
  <2>6. ASSUME NEW v \in Vectors
        PROVE  VectorOrder(v)' /\ FlagCounts(v)'
    BY <1>1, <1>7, <2>1, <2>2, <2>3
    DEF FinishOutput, CubeOrder, CubeNumbers, VectorOrder, FlagCounts, VectorNumbers
  <2> QED
    BY <2>4, <2>5, <2>6
<1> QED
  BY <1>2, <1>3, <1>4, <1>5, <1>6, <1>7 DEF CubeNext

(* A step of a Vector core keeps the order of the events.                  *)
LEMMA VectorStepKeepsOrder ==
    ASSUME IInv, NEW v \in Vectors, VectorNext(v)
    PROVE  IInv'
<1>1. /\ ProtocolTypeOK /\ CubeOrder /\ CubeNumbers
      /\ \A u \in Vectors : VectorOrder(u) /\ FlagCounts(u) /\ VectorNumbers(u)
  BY Numbers DEF IInv
<1> SUFFICES ProtocolTypeOK' /\ CubeOrder' /\ \A u \in Vectors : VectorOrder(u)' /\ FlagCounts(u)'
  BY DEF IInv
<1>2. CASE TakeScore(v)
  <2>1. VectorDoes(v, "scoreTaken") /\ VectorWaits(v, "qkReady") /\ UNCHANGED cube
    BY <1>2 DEF TakeScore
  <2>2. /\ vector' \in [Vectors -> [VectorEvents -> Nat]]
        /\ vector'[v]["scoreTaken"] = vector[v]["scoreTaken"] + 1
        /\ vector'[v]["scoreRead"] = vector[v]["scoreRead"]
        /\ vector'[v]["publishing"] = vector[v]["publishing"]
        /\ vector'[v]["published"] = vector[v]["published"]
        /\ vector'[v]["outTaken"] = vector[v]["outTaken"]
        /\ vector'[v]["outRead"] = vector[v]["outRead"]
        /\ \A u \in Vectors : u # v => vector'[u] = vector[u]
    BY <1>1, <2>1, VectorDoesEffect DEF VectorEvents
  <2>3. /\ flag' \in [Vectors -> [Flags -> Nat]]
        /\ flag[v]["qkReady"] > 0
        /\ flag'[v]["qkReady"] \in Nat
        /\ flag[v]["qkReady"] = flag'[v]["qkReady"] + 1
        /\ flag'[v]["softmaxReady"] = flag[v]["softmaxReady"]
        /\ flag'[v]["pvReady"] = flag[v]["pvReady"]
        /\ \A u \in Vectors : u # v => flag'[u] = flag[u]
    BY <1>1, <2>1, FlagEffect DEF Flags
  <2>4. ProtocolTypeOK'
    BY <1>1, <2>1, <2>2, <2>3 DEF ProtocolTypeOK
  <2>5. CubeOrder'
    BY <1>1, <2>1 DEF CubeOrder
  <2>6. VectorOrder(v)' /\ FlagCounts(v)'
    <3>1. CubeOrder /\ CubeNumbers /\ VectorOrder(v) /\ FlagCounts(v) /\ VectorNumbers(v)
      BY <1>1
    <3>2. cube["scored"] = (vector[v]["scoreTaken"] + 1) + flag'[v]["qkReady"]
      BY <3>1, <2>3, TakeOne DEF CubeNumbers, FlagCounts, VectorNumbers
    <3>3. FlagCounts(v)'
      BY <3>1, <3>2, <2>1, <2>2, <2>3 DEF FlagCounts
    <3>4. VectorOrder(v)'
      BY <3>1, <1>2, <2>1, <2>2, <2>3
      DEF TakeScore, CubeOrder, CubeNumbers, VectorOrder, FlagCounts, VectorNumbers
    <3> QED
      BY <3>3, <3>4
  <2>7. ASSUME NEW u \in Vectors, u # v
        PROVE  VectorOrder(u)' /\ FlagCounts(u)'
    <3>1. vector'[u] = vector[u] /\ flag'[u] = flag[u] /\ cube' = cube
      BY <2>1, <2>2, <2>3, <2>7
    <3> QED
      BY <1>1, <3>1 DEF VectorOrder, FlagCounts
  <2> QED
    BY <2>4, <2>5, <2>6, <2>7
<1>3. CASE ReadScore(v)
  <2>1. VectorDoes(v, "scoreRead") /\ UNCHANGED <<cube, flag>>
    BY <1>3 DEF ReadScore
  <2>2. /\ vector' \in [Vectors -> [VectorEvents -> Nat]]
        /\ vector'[v]["scoreRead"] = vector[v]["scoreRead"] + 1
        /\ vector'[v]["scoreTaken"] = vector[v]["scoreTaken"]
        /\ vector'[v]["publishing"] = vector[v]["publishing"]
        /\ vector'[v]["published"] = vector[v]["published"]
        /\ vector'[v]["outTaken"] = vector[v]["outTaken"]
        /\ vector'[v]["outRead"] = vector[v]["outRead"]
        /\ \A u \in Vectors : u # v => vector'[u] = vector[u]
    BY <1>1, <2>1, VectorDoesEffect DEF VectorEvents
  <2>4. ProtocolTypeOK'
    BY <1>1, <2>1, <2>2 DEF ProtocolTypeOK
  <2>5. CubeOrder'
    BY <1>1, <2>1 DEF CubeOrder
  <2>6. VectorOrder(v)' /\ FlagCounts(v)'
    BY <1>1, <1>3, <2>1, <2>2
    DEF ReadScore, CubeOrder, CubeNumbers, VectorOrder, FlagCounts, VectorNumbers
  <2>7. ASSUME NEW u \in Vectors, u # v
        PROVE  VectorOrder(u)' /\ FlagCounts(u)'
    <3>1. vector'[u] = vector[u] /\ flag'[u] = flag[u] /\ cube' = cube
      BY <2>1, <2>2, <2>7
    <3> QED
      BY <1>1, <3>1 DEF VectorOrder, FlagCounts
  <2> QED
    BY <2>4, <2>5, <2>6, <2>7
<1>4. CASE StartPublish(v)
  <2>1. VectorDoes(v, "publishing") /\ UNCHANGED <<cube, flag>>
    BY <1>4 DEF StartPublish
  <2>2. /\ vector' \in [Vectors -> [VectorEvents -> Nat]]
        /\ vector'[v]["publishing"] = vector[v]["publishing"] + 1
        /\ vector'[v]["scoreTaken"] = vector[v]["scoreTaken"]
        /\ vector'[v]["scoreRead"] = vector[v]["scoreRead"]
        /\ vector'[v]["published"] = vector[v]["published"]
        /\ vector'[v]["outTaken"] = vector[v]["outTaken"]
        /\ vector'[v]["outRead"] = vector[v]["outRead"]
        /\ \A u \in Vectors : u # v => vector'[u] = vector[u]
    BY <1>1, <2>1, VectorDoesEffect DEF VectorEvents
  <2>4. ProtocolTypeOK'
    BY <1>1, <2>1, <2>2 DEF ProtocolTypeOK
  <2>5. CubeOrder'
    BY <1>1, <2>1 DEF CubeOrder
  <2>6. VectorOrder(v)' /\ FlagCounts(v)'
    BY <1>1, <1>4, <2>1, <2>2
    DEF StartPublish, CubeOrder, CubeNumbers, VectorOrder, FlagCounts, VectorNumbers
  <2>7. ASSUME NEW u \in Vectors, u # v
        PROVE  VectorOrder(u)' /\ FlagCounts(u)'
    <3>1. vector'[u] = vector[u] /\ flag'[u] = flag[u] /\ cube' = cube
      BY <2>1, <2>2, <2>7
    <3> QED
      BY <1>1, <3>1 DEF VectorOrder, FlagCounts
  <2> QED
    BY <2>4, <2>5, <2>6, <2>7
<1>5. CASE FinishPublish(v)
  <2>1. VectorDoes(v, "published") /\ VectorSets(v, "softmaxReady") /\ UNCHANGED cube
    BY <1>5 DEF FinishPublish
  <2>2. /\ vector' \in [Vectors -> [VectorEvents -> Nat]]
        /\ vector'[v]["published"] = vector[v]["published"] + 1
        /\ vector'[v]["scoreTaken"] = vector[v]["scoreTaken"]
        /\ vector'[v]["scoreRead"] = vector[v]["scoreRead"]
        /\ vector'[v]["publishing"] = vector[v]["publishing"]
        /\ vector'[v]["outTaken"] = vector[v]["outTaken"]
        /\ vector'[v]["outRead"] = vector[v]["outRead"]
        /\ \A u \in Vectors : u # v => vector'[u] = vector[u]
    BY <1>1, <2>1, VectorDoesEffect DEF VectorEvents
  <2>3. /\ flag' \in [Vectors -> [Flags -> Nat]]
        /\ flag'[v]["softmaxReady"] = flag[v]["softmaxReady"] + 1
        /\ flag'[v]["qkReady"] = flag[v]["qkReady"]
        /\ flag'[v]["pvReady"] = flag[v]["pvReady"]
        /\ \A u \in Vectors : u # v => flag'[u] = flag[u]
    BY <1>1, <2>1, FlagEffect DEF Flags
  <2>4. ProtocolTypeOK'
    BY <1>1, <2>1, <2>2, <2>3 DEF ProtocolTypeOK
  <2>5. CubeOrder'
    BY <1>1, <2>1 DEF CubeOrder
  <2>6. VectorOrder(v)' /\ FlagCounts(v)'
    BY <1>1, <1>5, <2>1, <2>2, <2>3
    DEF FinishPublish, CubeOrder, CubeNumbers, VectorOrder, FlagCounts, VectorNumbers
  <2>7. ASSUME NEW u \in Vectors, u # v
        PROVE  VectorOrder(u)' /\ FlagCounts(u)'
    <3>1. vector'[u] = vector[u] /\ flag'[u] = flag[u] /\ cube' = cube
      BY <2>1, <2>2, <2>3, <2>7
    <3> QED
      BY <1>1, <3>1 DEF VectorOrder, FlagCounts
  <2> QED
    BY <2>4, <2>5, <2>6, <2>7
<1>6. CASE TakeOutput(v)
  <2>1. VectorDoes(v, "outTaken") /\ VectorWaits(v, "pvReady") /\ UNCHANGED cube
    BY <1>6 DEF TakeOutput
  <2>2. /\ vector' \in [Vectors -> [VectorEvents -> Nat]]
        /\ vector'[v]["outTaken"] = vector[v]["outTaken"] + 1
        /\ vector'[v]["scoreTaken"] = vector[v]["scoreTaken"]
        /\ vector'[v]["scoreRead"] = vector[v]["scoreRead"]
        /\ vector'[v]["publishing"] = vector[v]["publishing"]
        /\ vector'[v]["published"] = vector[v]["published"]
        /\ vector'[v]["outRead"] = vector[v]["outRead"]
        /\ \A u \in Vectors : u # v => vector'[u] = vector[u]
    BY <1>1, <2>1, VectorDoesEffect DEF VectorEvents
  <2>3. /\ flag' \in [Vectors -> [Flags -> Nat]]
        /\ flag[v]["pvReady"] > 0
        /\ flag'[v]["pvReady"] \in Nat
        /\ flag[v]["pvReady"] = flag'[v]["pvReady"] + 1
        /\ flag'[v]["qkReady"] = flag[v]["qkReady"]
        /\ flag'[v]["softmaxReady"] = flag[v]["softmaxReady"]
        /\ \A u \in Vectors : u # v => flag'[u] = flag[u]
    BY <1>1, <2>1, FlagEffect DEF Flags
  <2>4. ProtocolTypeOK'
    BY <1>1, <2>1, <2>2, <2>3 DEF ProtocolTypeOK
  <2>5. CubeOrder'
    BY <1>1, <2>1 DEF CubeOrder
  <2>6. VectorOrder(v)' /\ FlagCounts(v)'
    <3>1. CubeOrder /\ CubeNumbers /\ VectorOrder(v) /\ FlagCounts(v) /\ VectorNumbers(v)
      BY <1>1
    <3>2. cube["multiplied"] = (vector[v]["outTaken"] + 1) + flag'[v]["pvReady"]
      BY <3>1, <2>3, TakeOne DEF CubeNumbers, FlagCounts, VectorNumbers
    <3>3. FlagCounts(v)'
      BY <3>1, <3>2, <2>1, <2>2, <2>3 DEF FlagCounts
    <3>4. VectorOrder(v)'
      BY <3>1, <1>6, <2>1, <2>2, <2>3
      DEF TakeOutput, CubeOrder, CubeNumbers, VectorOrder, FlagCounts, VectorNumbers
    <3> QED
      BY <3>3, <3>4
  <2>7. ASSUME NEW u \in Vectors, u # v
        PROVE  VectorOrder(u)' /\ FlagCounts(u)'
    <3>1. vector'[u] = vector[u] /\ flag'[u] = flag[u] /\ cube' = cube
      BY <2>1, <2>2, <2>3, <2>7
    <3> QED
      BY <1>1, <3>1 DEF VectorOrder, FlagCounts
  <2> QED
    BY <2>4, <2>5, <2>6, <2>7
<1>7. CASE ReadOutput(v)
  <2>1. VectorDoes(v, "outRead") /\ UNCHANGED <<cube, flag>>
    BY <1>7 DEF ReadOutput
  <2>2. /\ vector' \in [Vectors -> [VectorEvents -> Nat]]
        /\ vector'[v]["outRead"] = vector[v]["outRead"] + 1
        /\ vector'[v]["scoreTaken"] = vector[v]["scoreTaken"]
        /\ vector'[v]["scoreRead"] = vector[v]["scoreRead"]
        /\ vector'[v]["publishing"] = vector[v]["publishing"]
        /\ vector'[v]["published"] = vector[v]["published"]
        /\ vector'[v]["outTaken"] = vector[v]["outTaken"]
        /\ \A u \in Vectors : u # v => vector'[u] = vector[u]
    BY <1>1, <2>1, VectorDoesEffect DEF VectorEvents
  <2>4. ProtocolTypeOK'
    BY <1>1, <2>1, <2>2 DEF ProtocolTypeOK
  <2>5. CubeOrder'
    BY <1>1, <2>1 DEF CubeOrder
  <2>6. VectorOrder(v)' /\ FlagCounts(v)'
    BY <1>1, <1>7, <2>1, <2>2
    DEF ReadOutput, CubeOrder, CubeNumbers, VectorOrder, FlagCounts, VectorNumbers
  <2>7. ASSUME NEW u \in Vectors, u # v
        PROVE  VectorOrder(u)' /\ FlagCounts(u)'
    <3>1. vector'[u] = vector[u] /\ flag'[u] = flag[u] /\ cube' = cube
      BY <2>1, <2>2, <2>7
    <3> QED
      BY <1>1, <3>1 DEF VectorOrder, FlagCounts
  <2> QED
    BY <2>4, <2>5, <2>6, <2>7
<1> QED
  BY <1>2, <1>3, <1>4, <1>5, <1>6, <1>7 DEF VectorNext

LEMMA InvariantHolds ==
    ASSUME ProtocolAssumption
    PROVE  ProtocolSpec => []IInv
<1>1. ProtocolInit => IInv
  BY DEF ProtocolAssumption, ProtocolInit, IInv, ProtocolTypeOK, CubeOrder, VectorOrder, FlagCounts, CubeEvents, VectorEvents, Flags
<1>2. IInv /\ [ProtocolNext]_protocolVars => IInv'
  <2> SUFFICES ASSUME IInv, [ProtocolNext]_protocolVars
               PROVE  IInv'
    OBVIOUS
  <2>1. CASE CubeNext
    BY <2>1, CubeStepKeepsOrder
  <2>2. CASE \E v \in Vectors : VectorNext(v)
    BY <2>2, VectorStepKeepsOrder
  <2>3. CASE UNCHANGED protocolVars
    BY <2>3 DEF protocolVars, IInv, ProtocolTypeOK, CubeOrder, VectorOrder, FlagCounts
  <2> QED
    BY <2>1, <2>2, <2>3 DEF ProtocolNext
<1> QED
  BY <1>1, <1>2, PTL DEF ProtocolSpec

-----------------------------------------------------------------------------
(* The counters are natural numbers.                                       *)
THEOREM ProtocolTypeCorrect ==
    ASSUME ProtocolAssumption
    PROVE  ProtocolSpec => []ProtocolTypeOK
<1>1. IInv => ProtocolTypeOK
  BY DEF IInv
<1> QED
  BY <1>1, InvariantHolds, PTL

(* No Vector core ever reads scores the Cube has begun to overwrite.       *)
THEOREM ScoresNotOverwritten ==
    ASSUME ProtocolAssumption
    PROVE  ProtocolSpec => []ScoreStable
<1>1. ASSUME IInv, NEW v \in Vectors, vector[v]["scoreRead"] < vector[v]["scoreTaken"]
      PROVE  cube["scored"] = vector[v]["scoreRead"] + 1 /\ cube["scoring"] = cube["scored"]
  <2>1. CubeOrder /\ VectorOrder(v) /\ FlagCounts(v) /\ CubeNumbers /\ VectorNumbers(v)
    BY <1>1, Numbers DEF IInv
  <2> QED
    BY <1>1, <2>1 DEF CubeOrder, VectorOrder, FlagCounts, CubeNumbers, VectorNumbers
<1>2. IInv => ScoreStable
  BY <1>1 DEF ScoreStable
<1> QED
  BY <1>2, InvariantHolds, PTL

(* The Cube never reads probabilities a Vector core has begun to overwrite,*)
(* nor before every Vector core has written its rows.                      *)
THEOREM ProbabilitiesNotOverwritten ==
    ASSUME ProtocolAssumption
    PROVE  ProtocolSpec => []ProbabilityStable
<1>1. ASSUME IInv, NEW v \in Vectors, cube["probRead"] < cube["probTaken"]
      PROVE  /\ vector[v]["published"] = cube["probRead"] + 1
             /\ vector[v]["publishing"] = vector[v]["published"]
  <2>1. CubeOrder /\ VectorOrder(v) /\ FlagCounts(v) /\ CubeNumbers /\ VectorNumbers(v)
    BY <1>1, Numbers DEF IInv
  <2> QED
    BY <1>1, <2>1 DEF CubeOrder, VectorOrder, FlagCounts, CubeNumbers, VectorNumbers
<1>2. IInv => ProbabilityStable
  BY <1>1 DEF ProbabilityStable
<1> QED
  BY <1>2, InvariantHolds, PTL

(* No Vector core ever reads an output tile the Cube has begun to          *)
(* overwrite.                                                              *)
THEOREM OutputsNotOverwritten ==
    ASSUME ProtocolAssumption
    PROVE  ProtocolSpec => []OutputStable
<1>1. ASSUME IInv, NEW v \in Vectors, vector[v]["outRead"] < vector[v]["outTaken"]
      PROVE  cube["multiplied"] = vector[v]["outRead"] + 1 /\ cube["multiplying"] = cube["multiplied"]
  <2>1. CubeOrder /\ VectorOrder(v) /\ FlagCounts(v) /\ CubeNumbers /\ VectorNumbers(v)
    BY <1>1, Numbers DEF IInv
  <2> QED
    BY <1>1, <2>1 DEF CubeOrder, VectorOrder, FlagCounts, CubeNumbers, VectorNumbers
<1>2. IInv => OutputStable
  BY <1>1 DEF OutputStable
<1> QED
  BY <1>2, InvariantHolds, PTL

(* At most one signal per flag is pending: the hardware's flag counters    *)
(* cannot overflow however many tiles a launch has.                        *)
THEOREM FlagsNeverPileUp ==
    ASSUME ProtocolAssumption
    PROVE  ProtocolSpec => []FlagsSingle
<1>1. IInv => FlagsSingle
  BY Numbers DEF IInv, CubeOrder, VectorOrder, FlagCounts, CubeNumbers, VectorNumbers, FlagsSingle, Flags
<1> QED
  BY <1>1, InvariantHolds, PTL
=============================================================================
