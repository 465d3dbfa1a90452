-------------------------- MODULE PickEngineProofs --------------------------
(***************************************************************************)
(* Proofs about PickEngine: what the table is, which marks are counted, what *)
(* a search lists and where the cursor is.                                  *)
(***************************************************************************)
EXTENDS PickEngine, NumberLemmas, FiniteSetTheorems, TLAPS

-----------------------------------------------------------------------------
(* The numbers of the table. *)

LEMMA Geometry ==
  /\ MCnt \in Nat \ {0} /\ MCnt <= ObjMaxCnt - 1
  /\ Lines \in Nat \ {0} /\ Lines <= MCnt
  /\ TblCols \in Nat \ {0} /\ Lines * TblCols \in Nat \ {0}
<1>1. MCnt \in Nat \ {0} /\ MCnt <= ObjMaxCnt - 1
  BY TableAssumption DEF MCnt
<1>2. Lines \in Nat \ {0} /\ Lines <= MCnt
  BY <1>1, TableAssumption DEF Lines
<1>3. MCnt > PickLines => MCnt \div PickLines \in Nat \ {0}
  BY <1>1, TableAssumption, DivMod
<1>4. TblCols \in Nat \ {0}
  BY <1>1, <1>3, TableAssumption DEF TblCols
<1>5. Lines * TblCols \in Nat \ {0}
  BY <1>2, <1>4
<1> QED
  BY <1>1, <1>2, <1>4, <1>5

\* The line of an index, as the code computes it.
LEMMA LineType ==
  ASSUME NEW i \in Nat
  PROVE  (i \div TblCols) % Lines \in 0..(Lines - 1)
<1> DEFINE q == i \div TblCols
<1>1. q \in Nat
  BY Geometry, DivMod
<1> HIDE DEF q
<1>2. q % Lines \in 0..(Lines - 1)
  BY <1>1, Geometry, DivMod
<1> QED
  BY <1>2 DEF q

LEMMA UIntLimit == UIntMax \in Nat /\ 2 * MCnt * TblCols < UIntMax
<1>1. MCnt \in Nat \ {0} /\ TblCols \in Nat \ {0} /\ MCnt <= ObjMaxCnt
  BY Geometry, TableAssumption
<1>2. TblCols <= TblMaxCols
  <2> DEFINE q == MCnt \div PickLines
  <2>1. MCnt \in Nat /\ PickLines \in Nat \ {0} /\ TblMaxCols \in Nat \ {0}
    BY <1>1, TableAssumption
  <2>2. q \in Nat /\ PickLines * q <= MCnt
    BY <2>1, DivMod
  <2> HIDE DEF q
  <2>3. q > TblMaxCols => PickLines * q > PickLines * TblMaxCols
    BY <2>1, <2>2
  <2>4. MCnt <= PickLines * TblMaxCols => q <= TblMaxCols
    BY <2>1, <2>2, <2>3
  <2>5. MCnt > PickLines * TblMaxCols \/ MCnt <= PickLines * TblMaxCols
    BY <2>1
  <2> QED
    BY <2>1, <2>2, <2>4, <2>5 DEF TblCols, q
<1>3. MCnt * TblCols <= ObjMaxCnt * TblMaxCols
  <2>1. MCnt * TblCols <= ObjMaxCnt * TblCols
    BY <1>1, TableAssumption
  <2>2. ObjMaxCnt * TblCols <= ObjMaxCnt * TblMaxCols
    BY <1>1, <1>2, TableAssumption
  <2> QED
    BY <1>1, <2>1, <2>2, TableAssumption
<1> QED
  BY <1>1, <1>3, TableAssumption

LEMMA WrapType ==
  /\ \A n \in Nat : Wrap(n) \in 0..UIntMax
  /\ \A n \in 0..UIntMax : Wrap(n) = n
  BY TableAssumption DEF Wrap

LEMMA DecType == \A n \in Nat : Dec(n) \in Nat
  BY TableAssumption DEF Dec

LEMMA ObjectType ==
  /\ Object \subseteq Nat /\ Object \subseteq Slot /\ NullObject \notin Object
  /\ IsFiniteSet(Object) /\ Cardinality(Object) = MCnt
  /\ IsFiniteSet(Slot) /\ Slot \subseteq Nat
  BY Geometry, TableAssumption, FS_Interval DEF Object, Slot

-----------------------------------------------------------------------------
(* What an operator on the table leaves alone. *)

\* q is p with the cursor, the page or the rows changed.
Redrawn(p, q) ==
    /\ q \in PickStruct
    /\ q.d_cnt = p.d_cnt /\ q.d_object = p.d_object

LEMMA AtType ==
  ASSUME NEW p \in PickStruct, NEW col \in Nat, NEW line \in Nat
  PROVE  At(p, col, line) \in Nat /\ PageBase(p) \in Nat
<1>1. p.tbl_page * Lines * TblCols \in Nat
  BY Geometry DEF PickStruct
<1>2. PageBase(p) \in Nat
  BY <1>1, WrapType DEF PageBase
<1> QED
  BY <1>2, Geometry, WrapType DEF At

LEMMA PlaceRedraws ==
  ASSUME NEW p \in PickStruct
  PROVE  Redrawn(p, Place(p))
<1> DEFINE i == IF p.d_idx >= p.d_cnt THEN Dec(p.d_cnt) ELSE p.d_idx
          line == (i \div TblCols) % Lines
<1>1. i \in Nat
  BY DecType DEF PickStruct
<1> HIDE DEF i
<1>2. line \in Nat
  BY <1>1, Geometry, LineType
<1>3. At(p, p.tbl_col, line) \in Nat
  BY <1>2, AtType DEF PickStruct
<1> HIDE DEF line
<1>4. Place(p) = [p EXCEPT !.tbl_line = line, !.d_idx = At(p, p.tbl_col, line)]
  BY DEF Place, i, line
<1> QED
  BY <1>2, <1>3, <1>4 DEF PickStruct, Redrawn

LEMMA ReverseRedraws ==
  ASSUME NEW p \in PickStruct
  PROVE  /\ Redrawn(p, Reverse(p))
         /\ Reverse(p).tbl_col = p.tbl_col /\ Reverse(p).tbl_page = p.tbl_page
         /\ Reverse(p).d_idx = Place(p).d_idx /\ Reverse(p).tbl_line = Place(p).tbl_line
         /\ ~Reverse(p).fault => Drawable(p, Place(p).d_idx)
<1> DEFINE q == Place(p)
<1>1. Redrawn(p, q) /\ q.tbl_col = p.tbl_col /\ q.tbl_page = p.tbl_page
  BY PlaceRedraws DEF Place, PickStruct
<1> HIDE DEF q
<1>2. Reverse(p) = [q EXCEPT !.fault = @ \/ ~Drawable(q, q.d_idx)]
  BY DEF Reverse, q
<1>3. Redrawn(p, Reverse(p)) /\ Reverse(p).tbl_col = p.tbl_col
      /\ Reverse(p).tbl_page = p.tbl_page /\ Reverse(p).d_idx = q.d_idx
      /\ Reverse(p).tbl_line = q.tbl_line
  BY <1>1, <1>2 DEF Redrawn, PickStruct
<1>4. ~Reverse(p).fault => Drawable(q, q.d_idx)
  BY <1>1, <1>2 DEF Redrawn, PickStruct
<1> QED
  BY <1>1, <1>3, <1>4 DEF q, Drawable, Redrawn

LEMMA ShownRedraws ==
  ASSUME NEW p \in PickStruct
  PROVE  Redrawn(p, Shown(p))
  BY ReverseRedraws DEF Shown, Redrawn

LEMMA DisplayRedraws ==
  ASSUME NEW p \in PickStruct
  PROVE  /\ Redrawn(p, DisplayPage(p))
         /\ DisplayPage(p).tbl_page = p.tbl_page /\ DisplayPage(p).tbl_col = p.tbl_col
         /\ DisplayPage(p).tbl_lines = p.d_cnt /\ DisplayPage(p).fault = p.fault
<1> DEFINE base == PageBase(p)
          room == Lines * TblCols
          end == IF base >= p.d_cnt THEN base
                 ELSE IF base + room <= p.d_cnt THEN base + room ELSE p.d_cnt
          left == p.d_cnt - base - (TblCols - 1) * Lines
          rows == IF left <= 0 THEN 0 ELSE IF left < Lines THEN left ELSE Lines
<1>1. base \in Nat /\ room \in Nat /\ p.d_cnt \in Nat
  BY AtType, Geometry DEF PickStruct
<1>2. end \in Nat
  BY <1>1
<1>3. (TblCols - 1) * Lines \in Int
  BY Geometry
<1>4. left \in Int
  BY <1>1, <1>3
<1> HIDE DEF left
<1>5. Lines - rows \in Nat
  BY <1>4, Geometry
<1> HIDE DEF base, room, end, rows
<1>6. Dec(end) \in Nat
  BY <1>2, DecType
<1>7. DisplayPage(p) = [p EXCEPT !.d_idx = Dec(end), !.tbl_lines = p.d_cnt,
                                 !.y_offset = Lines - rows]
  BY DEF DisplayPage, base, room, end, left, rows
<1> QED
  BY <1>1, <1>5, <1>6, <1>7 DEF PickStruct, Redrawn

LEMMA PagesType ==
  ASSUME NEW p \in PickStruct
  PROVE  TblPages(p) \in Nat
<1>1. p.tbl_lines + Lines - 1 \in Nat
  BY Geometry DEF PickStruct
<1> QED
  BY <1>1, Geometry, DivMod DEF TblPages

LEMMA MoveToRedraws ==
  ASSUME NEW p \in PickStruct, NEW col \in Nat, NEW line \in Nat
  PROVE  Redrawn(p, MoveTo(p, col, line))
<1> DEFINE q == [p EXCEPT !.tbl_col = col, !.tbl_line = line, !.d_idx = At(p, col, line)]
<1>1. Redrawn(p, q)
  BY AtType DEF PickStruct, Redrawn
<1> HIDE DEF q
<1>2. MoveTo(p, col, line) = Reverse(q)
  BY DEF MoveTo, q
<1> QED
  BY <1>1, <1>2, ReverseRedraws DEF Redrawn

\* The cursor keys.
LEMMA KeysRedraw ==
  ASSUME NEW p \in PickStruct
  PROVE  /\ Redrawn(p, ToEnd(p)) /\ Redrawn(p, LeftOf(p)) /\ Redrawn(p, RightOf(p))
         /\ Redrawn(p, Below(p)) /\ Redrawn(p, Above(p)) /\ Redrawn(p, NextPage(p))
         /\ Redrawn(p, PrevPage(p)) /\ Redrawn(p, ToHome(p)) /\ Redrawn(p, ToLastPage(p))
<1>1. Redrawn(p, ToEnd(p))
  <2> DEFINE i == Dec(p.d_cnt)
            q == [p EXCEPT !.d_idx = i, !.tbl_page = i \div (Lines * TblCols),
                           !.tbl_line = (i \div TblCols) % Lines, !.tbl_col = i % TblCols]
  <2>1. i \in Nat
    BY DecType DEF PickStruct
  <2> HIDE DEF i
  <2>2. i \div (Lines * TblCols) \in Nat /\ (i \div TblCols) % Lines \in Nat
        /\ i % TblCols \in Nat
    <3>1. i \div (Lines * TblCols) \in Nat
      BY <2>1, Geometry, DivMod
    <3>2. i % TblCols \in Nat
      BY <2>1, Geometry, DivMod
    <3>3. (i \div TblCols) % Lines \in Nat
      BY <2>1, Geometry, LineType
    <3> QED
      BY <3>1, <3>2, <3>3
  <2>3. Redrawn(p, q)
    BY <2>1, <2>2 DEF PickStruct, Redrawn
  <2> HIDE DEF q
  <2>4. ToEnd(p) = IF q.tbl_page # p.tbl_page THEN DisplayPage(q) ELSE q
    BY DEF ToEnd, i, q
  <2> QED
    BY <2>3, <2>4, DisplayRedraws DEF Redrawn
<1>2. Redrawn(p, Reverse(p)) /\ Reverse(p).tbl_col = p.tbl_col /\ Reverse(p) \in PickStruct
  BY ReverseRedraws DEF Redrawn
<1>3. \A q \in PickStruct, c \in Nat, l \in Nat : Redrawn(q, MoveTo(q, c, l))
  BY MoveToRedraws
<1> DEFINE r == Reverse(p)
<1>4. r.tbl_col \in Nat /\ r.tbl_line \in Nat
  BY <1>2 DEF PickStruct
<1>5. \A c \in Nat, l \in Nat : Redrawn(p, MoveTo(r, c, l))
  BY <1>2, <1>3 DEF Redrawn
<1>6. Redrawn(p, p)
  BY DEF Redrawn
<1>7. Redrawn(p, LeftOf(p))
  BY <1>2, <1>4, <1>5, <1>6 DEF LeftOf
<1>8. Redrawn(p, RightOf(p))
  BY <1>2, <1>4, <1>5, <1>6 DEF RightOf
<1>9. Redrawn(p, Below(p)) /\ Redrawn(p, Above(p))
  BY <1>4, <1>5 DEF Below, Above
<1>10. \A c, l, n \in Nat :
           Redrawn(p, DisplayPage([p EXCEPT !.tbl_page = n, !.tbl_line = l, !.tbl_col = c]))
  <2> TAKE c, l, n \in Nat
  <2> DEFINE q == [p EXCEPT !.tbl_page = n, !.tbl_line = l, !.tbl_col = c]
  <2>1. Redrawn(p, q)
    BY DEF Redrawn, PickStruct
  <2> HIDE DEF q
  <2>2. Redrawn(p, DisplayPage(q))
    BY <2>1, DisplayRedraws DEF Redrawn
  <2> QED
    BY <2>2 DEF q
<1>11. \A c, n \in Nat : [p EXCEPT !.tbl_page = n, !.tbl_col = c]
                          = [p EXCEPT !.tbl_page = n, !.tbl_line = p.tbl_line, !.tbl_col = c]
  BY DEF PickStruct
<1>12. \A n \in Nat : [p EXCEPT !.tbl_page = n]
                       = [p EXCEPT !.tbl_page = n, !.tbl_line = p.tbl_line,
                                   !.tbl_col = p.tbl_col]
  BY DEF PickStruct
<1>13. p.tbl_line \in Nat /\ p.tbl_col \in Nat /\ p.tbl_page \in Nat
       /\ Dec(TblPages(p)) \in Nat
  BY PagesType, DecType DEF PickStruct
<1>14. Redrawn(p, NextPage(p))
  <2>1. NextPage(p) \in {p, DisplayPage(p),
                         DisplayPage([p EXCEPT !.tbl_page = p.tbl_page + 1, !.tbl_col = 0])}
    BY DEF NextPage
  <2>2. p.tbl_page + 1 \in Nat /\ 0 \in Nat
    BY <1>13
  <2>3. Redrawn(p, DisplayPage([p EXCEPT !.tbl_page = p.tbl_page + 1, !.tbl_col = 0]))
    BY <1>10, <1>11, <1>13, <2>2
  <2> QED
    BY <1>6, <2>1, <2>3, DisplayRedraws
<1>15. Redrawn(p, PrevPage(p))
  <2> DEFINE n == IF p.tbl_page > 0 THEN p.tbl_page - 1 ELSE p.tbl_page
  <2>1. PrevPage(p) \in {p, DisplayPage([p EXCEPT !.tbl_page = n])}
    BY DEF PrevPage
  <2>2. n \in Nat
    BY <1>13
  <2> HIDE DEF n
  <2>3. Redrawn(p, DisplayPage([p EXCEPT !.tbl_page = n]))
    BY <1>10, <1>12, <1>13, <2>2
  <2> QED
    BY <1>6, <2>1, <2>3
<1>16. Redrawn(p, ToHome(p)) /\ Redrawn(p, ToLastPage(p))
  BY <1>10, <1>12, <1>13 DEF ToHome, ToLastPage
<1> QED
  BY <1>1, <1>7, <1>8, <1>9, <1>14, <1>15, <1>16

LEMMA PointedRedraws ==
  ASSUME NEW p \in PickStruct, NEW y \in Nat, NEW col \in Nat
  PROVE  Redrawn(p, Pointed(p, y, col))
<1> DEFINE q == [Reverse(p) EXCEPT !.tbl_col = col]
<1>1. Redrawn(p, q)
  BY ReverseRedraws DEF PickStruct, Redrawn
<1>2. At(q, col, y) \in Nat
  BY <1>1, AtType DEF Redrawn
<1> HIDE DEF q
<1>3. Pointed(p, y, col) = IF col >= TblCols THEN q ELSE [q EXCEPT !.d_idx = At(q, col, y)]
  BY DEF Pointed, q
<1> QED
  BY <1>1, <1>2, <1>3 DEF PickStruct, Redrawn

-----------------------------------------------------------------------------
(* The n-th element of a set: match_objects in the order of the master list. *)

LEMMA NthRight ==
  ASSUME NEW S \in SUBSET Nat, IsFiniteSet(S)
  PROVE  /\ \A i \in Nat : i < Cardinality(S) => Nth(S, i) \in S
         /\ \A x \in S : \E i \in Nat : i < Cardinality(S) /\ Nth(S, i) = x
<1>1. ASSUME NEW i \in Nat, i < Cardinality(S)
      PROVE  Nth(S, i) \in S /\ Cardinality(Below0(S, Nth(S, i))) = i
  <2>1. \E x \in S : Cardinality(Below0(S, x)) = i
    BY <1>1, RankExists
  <2> QED
    BY <2>1 DEF Nth, Below0
<1>2. ASSUME NEW x \in S
      PROVE  \E i \in Nat : i < Cardinality(S) /\ Nth(S, i) = x
  <2> DEFINE i == Cardinality(Below0(S, x))
             z == Nth(S, i)
  <2>1. i \in Nat /\ i < Cardinality(S)
    BY RankGrows
  <2>2. z \in S /\ Cardinality(Below0(S, z)) = i
    BY <1>1, <2>1
  <2>3. ~(x < z) /\ ~(z < x)
    <3>1. x < z => i < Cardinality(Below0(S, z))
      BY <2>2, RankGrows
    <3>2. z < x => Cardinality(Below0(S, z)) < i
      BY <2>2, RankGrows
    <3> QED
      BY <2>1, <2>2, <3>1, <3>2
  <2>4. x \in Nat /\ z \in Nat
    BY <2>2
  <2>5. z = x
    BY <2>3, <2>4
  <2> QED
    BY <2>1, <2>5
<1> QED
  BY <1>1, <1>2

-----------------------------------------------------------------------------
(* What is listed. *)

Rows(p) == {p.d_object[i] : i \in {j \in Slot : j < p.d_cnt}}

LEMMA MatchRight ==
  ASSUME NEW p \in PickStruct, NEW S \in SUBSET Object
  PROVE  /\ MatchObjects(p, S) \in PickStruct /\ Rows(MatchObjects(p, S)) = S
         /\ MatchObjects(p, S).d_cnt = Cardinality(S)
<1> DEFINE n == Cardinality(S)
           f == [i \in Slot |-> IF i < n THEN Nth(S, i) ELSE p.d_object[i]]
<1>1. n \in Nat /\ n <= MCnt /\ S \in SUBSET Nat /\ IsFiniteSet(S)
  BY ObjectType, FS_Subset, FS_CardinalityType
<1>2. \A i \in Nat : i < n => i \in Slot
  BY <1>1, Geometry, TableAssumption DEF Slot
<1>3. f \in [Slot -> Object \cup {NullObject}]
  <2>1. ASSUME NEW i \in Slot PROVE f[i] \in Object \cup {NullObject}
    <3>1. i \in Nat
      BY ObjectType
    <3>2. i < n => Nth(S, i) \in S
      BY <1>1, <3>1, NthRight
    <3> QED
      BY <3>2 DEF PickStruct
  <2> QED
    BY <2>1
<1>4. {f[i] : i \in {j \in Slot : j < n}} = S
  <2>1. \A i \in Nat : i < n => Nth(S, i) \in S
    BY <1>1, NthRight
  <2>2. \A x \in S : \E i \in Nat : i < n /\ Nth(S, i) = x
    BY <1>1, NthRight
  <2>3. \A i \in Slot : i \in Nat /\ (i < n => f[i] = Nth(S, i))
    BY ObjectType
  <2> HIDE DEF f, n
  <2>4. \A i \in {j \in Slot : j < n} : f[i] \in S
    BY <2>1, <2>3
  <2>5. \A x \in S : \E i \in {j \in Slot : j < n} : f[i] = x
    BY <1>2, <2>2, <2>3
  <2> QED
    BY <2>4, <2>5
<1> HIDE DEF f, n
<1>5. MatchObjects(p, S) = [p EXCEPT !.d_cnt = n, !.d_idx = n, !.d_object = f]
  BY DEF MatchObjects, f, n
<1>6. MatchObjects(p, S) \in PickStruct /\ MatchObjects(p, S).d_cnt = n
      /\ MatchObjects(p, S).d_object = f
  BY <1>1, <1>3, <1>5 DEF PickStruct
<1> QED
  BY <1>4, <1>6 DEF Rows, n

-----------------------------------------------------------------------------
(* The parts of the type invariant: the table, and the selection. *)

Place1 == {"geometry", "objects", "field", "returned", "spinning", "crashed", "done"}

TableType ==
    /\ pc \in Place1 /\ pick \in PickStruct
    /\ field \in Text \cup {NoText} /\ view_file \in Object \cup {NullObject}
    /\ rc \in Reason /\ job.by \in Reason

SelectionType ==
    /\ f_selected \in [Slot -> BOOLEAN] /\ select_cnt \in Nat
    /\ chosen \in SUBSET Object

Marks(f) == {i \in Slot : f[i]}

LEMMA TypeParts == TypeOK <=> TableType /\ SelectionType
  BY DEF TypeOK, TableType, SelectionType, Place1

\* The table was redrawn and the list under it is the same.
Shows(p) == Redrawn(p, pick') /\ view_file' \in Object \cup {NullObject} /\ pc' \in Place1

LEMMA PreviewType ==
  ASSUME NEW p \in PickStruct, view_file \in Object \cup {NullObject}, Preview(p)
  PROVE  view_file' \in Object \cup {NullObject}
  BY DEF Preview, Drawable, PickStruct

LEMMA PromptShows ==
  ASSUME NEW p \in PickStruct, TableType, Prompt(p)
  PROVE  Shows(p)
<1>1. Redrawn(p, Shown(p)) /\ Reverse(p) \in PickStruct
  BY ShownRedraws, ReverseRedraws DEF Redrawn
<1>2. view_file' \in Object \cup {NullObject}
  BY <1>1, PreviewType DEF Prompt, TableType
<1> QED
  BY <1>1, <1>2 DEF Prompt, Shows, Place1

LEMMA RedrawnTwice ==
  ASSUME NEW p, NEW q, NEW r, Redrawn(p, q), Redrawn(q, r)
  PROVE  Redrawn(p, r)
  BY DEF Redrawn

LEMMA RedrawnRows ==
  ASSUME NEW p, NEW q, Redrawn(p, q)
  PROVE  Rows(q) = Rows(p) /\ q \in PickStruct
  BY DEF Redrawn, Rows

\* A key that is answered by drawing the table in another way.
LEMMA PromptStep ==
  ASSUME NEW p, TableType, Redrawn(pick, p), Prompt(p)
  PROVE  Shows(pick)
<1>1. p \in PickStruct
  BY DEF Redrawn
<1> QED
  BY <1>1, PromptShows, RedrawnTwice DEF Shows

\* The line editor: whatever it lists belongs to the text it leaves in the field.
LEMMA EditStep ==
  ASSUME TableType, NEW p \in PickStruct, NEW t \in Text \cup {NoText},
         NEW before \in Text \cup {NoText}, Edit(p, t, before)
  PROVE  /\ pick' \in PickStruct /\ field' \in Text \cup {NoText}
         /\ view_file' \in Object \cup {NullObject} /\ pc' \in Place1
         /\ field' # NoText => Rows(pick') \in {Match[field'], {}}
<1> DEFINE none == t # NoText /\ Match[t] = {}
           q == IF t = NoText THEN p
                ELSE IF none THEN MatchObjects(p, {})
                ELSE DisplayPage(MatchObjects(p, Match[t]))
           wild == ViewFiles /\ ~Drawable(q, q.d_idx)
<1>1. /\ field' = IF none THEN before ELSE t
      /\ pick' = [q EXCEPT !.fault = @ \/ wild]
      /\ pc' = IF wild THEN "crashed" ELSE "field"
      /\ Preview(q)
  BY DEF Edit
<1>2. q \in PickStruct /\ (t # NoText => Rows(q) = IF none THEN {} ELSE Match[t])
  <2>1. CASE t = NoText
    BY <2>1
  <2>2. CASE t # NoText /\ none
    BY <2>2, MatchRight
  <2>3. CASE t # NoText /\ ~none
    <3> DEFINE m == MatchObjects(p, Match[t])
    <3>1. Match[t] \in SUBSET Object
      BY <2>3, PickAssumption
    <3>2. m \in PickStruct /\ Rows(m) = Match[t]
      BY <3>1, MatchRight
    <3>3. q = DisplayPage(m)
      BY <2>3
    <3> HIDE DEF m, q
    <3>4. Redrawn(m, q)
      BY <3>2, <3>3, DisplayRedraws
    <3> QED
      BY <2>3, <3>2, <3>4, RedrawnRows
  <2> QED
    BY <2>1, <2>2, <2>3
<1> HIDE DEF q, wild
<1>3. pick' \in PickStruct /\ pick'.d_cnt = q.d_cnt /\ pick'.d_object = q.d_object
  <2>1. q \in PickStruct
    BY <1>2
  <2>2. wild \in BOOLEAN
    BY PickAssumption DEF wild, Drawable
  <2> QED
    BY <1>1, <2>1, <2>2 DEF PickStruct
<1>4. Rows(pick') = Rows(q)
  BY <1>3 DEF Rows
<1>5. view_file' \in Object \cup {NullObject}
  BY <1>1, <1>2, PreviewType DEF TableType
<1>6. field' # NoText => Rows(pick') \in {Match[field'], {}}
  <2>1. CASE none
    BY <1>2, <1>4, <2>1
  <2>2. CASE ~none
    BY <1>1, <1>2, <1>4, <2>2
  <2> QED
    BY <2>1, <2>2
<1> QED
  BY <1>1, <1>3, <1>5, <1>6 DEF Place1

-----------------------------------------------------------------------------
(* Every step keeps the types of the table and what a search lists. *)

TableInv == TableType /\ FilterShown

LEMMA ListedRows == Listed = Rows(pick)
  BY DEF Listed, Rows

\* What most steps come to: the list and the text stay as they are.
LEMMA SameListStep ==
  ASSUME TableInv, Shows(pick), field' = field, rc' \in Reason, job'.by \in Reason
  PROVE  TableInv'
<1>1. pick' \in PickStruct /\ Rows(pick') = Rows(pick)
  BY RedrawnRows DEF Shows
<1>2. Listed' = Rows(pick')
  BY DEF Listed, Rows
<1>3. FilterShown'
  BY <1>1, <1>2, ListedRows DEF TableInv, FilterShown
<1> QED
  BY <1>1, <1>3 DEF TableInv, TableType, Shows

\* The steps of the line editor.
LEMMA EditorStep ==
  ASSUME TableInv, NEW p \in PickStruct, NEW t \in Text \cup {NoText},
         NEW before \in Text \cup {NoText}, Edit(p, t, before), rc' = rc, job' = NoJob
  PROVE  TableInv'
<1>1. /\ pick' \in PickStruct /\ field' \in Text \cup {NoText}
      /\ view_file' \in Object \cup {NullObject} /\ pc' \in Place1
      /\ field' # NoText => Rows(pick') \in {Match[field'], {}}
  BY EditStep DEF TableInv
<1>2. Listed' = Rows(pick')
  BY DEF Listed, Rows
<1>3. job'.by \in Reason
  BY DEF NoJob, Reason
<1> QED
  BY <1>1, <1>2, <1>3 DEF TableInv, TableType, FilterShown

LEMMA InitTable == Init => TableInv
<1> SUFFICES ASSUME Init PROVE TableInv
  OBVIOUS
<1>1. FirstTable \in PickStruct
  BY Geometry, ObjectType DEF FirstTable, PickStruct, Object
<1> QED
  BY <1>1 DEF Init, TableInv, TableType, FilterShown, Place1, Reason, NoJob

LEMMA EngineTable == ASSUME TableInv, Engine PROVE TableInv'
<1>1. Redrawn(pick, pick) /\ pick \in PickStruct /\ pick.d_cnt \in Nat
  BY DEF TableInv, TableType, Redrawn, PickStruct
<1>2. CASE Open
  <2>1. rc' = rc /\ job' = NoJob /\ field' = field
    BY <1>2 DEF Open
  <2>2. Shows(pick)
    <3>1. CASE Prompt(DisplayPage(pick))
      BY <1>1, <3>1, DisplayRedraws, PromptStep DEF TableInv
    <3>2. CASE ~Prompt(DisplayPage(pick))
      BY <1>1, <1>2, <3>2 DEF Open, Shows, Place1, TableInv, TableType
    <3> QED
      BY <3>1, <3>2
  <2> QED
    BY <2>1, <2>2, SameListStep DEF NoJob, Reason, TableInv, TableType
<1>3. CASE Process
  <2> DEFINE p == IF select_cnt > 0 /\ OutSpec THEN [pick EXCEPT !.d_idx = pick.d_cnt]
                  ELSE pick
  <2>1. Redrawn(pick, p)
    BY <1>1 DEF Redrawn, PickStruct
  <2>2. Prompt(p) /\ rc' = "none" /\ field' = field /\ job' \in {Processed, NoJob}
    BY <1>3 DEF Process
  <2>3. job'.by \in Reason
    BY <2>2 DEF Processed, NoJob, Reason, TableInv, TableType
  <2> HIDE DEF p
  <2>4. Shows(pick)
    BY <2>1, <2>2, PromptStep DEF TableInv
  <2> QED
    BY <2>2, <2>3, <2>4, SameListStep DEF Reason
<1>4. CASE Leave
  <2>1. Shows(pick)
    BY <1>1, <1>4 DEF Leave, Shows, Place1, TableInv, TableType
  <2> QED
    BY <1>4, <2>1, SameListStep DEF Leave, NoJob, Reason, TableInv, TableType
<1> QED
  BY <1>2, <1>3, <1>4 DEF Engine

\* A key that moves the cursor or the page.
LEMMA KeyTable ==
  ASSUME TableInv, NEW p, Redrawn(pick, p), Key(p)
  PROVE  TableInv'
<1>1. Prompt(p) /\ field' = field /\ rc' = rc /\ job' = NoJob
  BY DEF Key
<1>2. Shows(pick)
  BY <1>1, PromptStep DEF TableInv
<1> QED
  BY <1>1, <1>2, SameListStep DEF TableInv, TableType, NoJob, Reason

LEMMA ReturnTable ==
  ASSUME TableInv, NEW p, Redrawn(pick, p), NEW why \in Reason, Return(p, why),
         field' = field, view_file' = view_file, job' = NoJob
  PROVE  TableInv'
<1>1. Shows(pick) /\ rc' \in Reason
  BY DEF Return, Shows, Place1, TableInv, TableType
<1> QED
  BY <1>1, SameListStep DEF NoJob, Reason

LEMMA ObjectsTable == ASSUME TableInv, Objects PROVE TableInv'
<1>1. pick \in PickStruct /\ Redrawn(pick, pick) /\ Redrawn(pick, Reverse(pick))
      /\ field \in Text \cup {NoText} /\ rc \in Reason
  BY ReverseRedraws DEF TableInv, TableType, Redrawn
<1>2. CASE Toggle
  <2> DEFINE p == Reverse(pick)
  <2>1. job' = NoJob /\ field' = field
    BY <1>2 DEF Toggle
  <2>2. CASE Return(p, "none") /\ view_file' = view_file
    BY <1>1, <2>1, <2>2, ReturnTable DEF Reason
  <2>3. CASE Return(p, "full") /\ view_file' = view_file
    BY <1>1, <2>1, <2>3, ReturnTable DEF Reason
  <2>4. CASE Prompt(p) /\ rc' = rc
    <3>1. Shows(pick)
      BY <1>1, <2>4, PromptStep DEF TableInv
    <3> QED
      BY <1>1, <2>1, <2>4, <3>1, SameListStep DEF NoJob, Reason
  <2> QED
    BY <1>2, <2>2, <2>3, <2>4 DEF Toggle
<1>3. CASE Accept
  BY <1>1, <1>3, ReturnTable DEF Accept, Reason
<1>4. CASE Cancel
  BY <1>1, <1>4, ReturnTable DEF Cancel, Reason
<1>5. CASE Help \/ View \/ OtherKey
  BY <1>1, <1>5, KeyTable, DisplayRedraws, PlaceRedraws DEF Help, View, OtherKey
<1>6. CASE End \/ Left \/ Right \/ Down \/ Up \/ NPage \/ PPage \/ Home \/ LastPage
  BY <1>1, <1>6, KeyTable, KeysRedraw
  DEF End, Left, Right, Down, Up, NPage, PPage, Home, LastPage
<1>7. CASE EnterField
  <2>1. rc' = rc /\ job' = NoJob
    BY <1>7 DEF EnterField
  <2>2. PICK p \in {pick, Place(pick)} : Edit(p, field, NoText)
    BY <1>7 DEF EnterField
  <2>3. p \in PickStruct
    BY <1>1, <2>2, PlaceRedraws DEF Redrawn
  <2> QED
    BY <1>1, <2>1, <2>2, <2>3, EditorStep
<1>8. ASSUME NEW at \in Pointer, Wheel(at[1], at[2]) PROVE TableInv'
  <2> DEFINE p == Pointed(pick, at[1], at[2])
  <2>1. at[1] \in Nat /\ at[2] \in Nat
    BY PickAssumption
  <2>2. Redrawn(pick, p)
    BY <1>1, <2>1, PointedRedraws
  <2>3. field' = field /\ rc' = rc /\ job' = NoJob
    BY <1>8 DEF Wheel
  <2> HIDE DEF p
  <2>4. Prompt(pick) \/ Prompt(p)
        \/ (pick' = p /\ pc' \in {"crashed", "spinning"} /\ view_file' = view_file)
    BY <1>8 DEF Wheel, p
  <2>5. Shows(pick)
    <3>1. CASE Prompt(pick)
      BY <1>1, <3>1, PromptStep DEF TableInv
    <3>2. CASE Prompt(p)
      BY <2>2, <3>2, PromptStep DEF TableInv
    <3>3. CASE pick' = p /\ pc' \in {"crashed", "spinning"} /\ view_file' = view_file
      BY <2>2, <3>3 DEF Shows, Place1, TableInv, TableType
    <3> QED
      BY <2>4, <3>1, <3>2, <3>3
  <2> QED
    BY <1>1, <2>3, <2>5, SameListStep DEF NoJob, Reason
<1>9. CASE Spin
  <2>1. Shows(pick)
    BY <1>1, <1>9 DEF Spin, Shows, Place1, TableInv, TableType
  <2> QED
    BY <1>1, <1>9, <2>1, SameListStep DEF Spin, NoJob, Reason
<1> QED
  BY <1>2, <1>3, <1>4, <1>5, <1>6, <1>7, <1>8, <1>9 DEF Objects

LEMMA EditorTable == ASSUME TableInv, Editor PROVE TableInv'
<1>1. pick \in PickStruct /\ Redrawn(pick, pick)
      /\ field \in Text \cup {NoText} /\ rc \in Reason
  BY DEF TableInv, TableType, Redrawn
<1>2. ASSUME NEW t \in Text \cup {NoText}, EditText(t) PROVE TableInv'
  BY <1>1, <1>2, EditorStep DEF EditText
<1>3. ASSUME NEW t \in Text \cup {NoText}, EraseText(t) PROVE TableInv'
  <2> DEFINE S == IF t = NoText THEN Object ELSE Match[t]
             p == DisplayPage(MatchObjects(pick, S))
  <2>1. S \in SUBSET Object
    BY PickAssumption
  <2>2. p \in PickStruct
    BY <1>1, <2>1, MatchRight, DisplayRedraws DEF Redrawn
  <2>3. Edit(p, t, field) /\ rc' = rc /\ job' = NoJob
    BY <1>3 DEF EraseText
  <2> QED
    BY <1>1, <2>2, <2>3, EditorStep
<1>4. CASE LeaveField
  <2>1. Shows(pick)
    BY <1>1, <1>4, PromptStep DEF LeaveField, TableInv
  <2> QED
    BY <1>1, <1>4, <2>1, SameListStep DEF LeaveField, NoJob, Reason
<1>5. ASSUME NEW why \in Reason, FieldReturn(why) PROVE TableInv'
  BY <1>1, <1>5, ReturnTable DEF FieldReturn
<1>6. CASE FieldHelp \/ FieldAccept \/ FieldCancel
  BY <1>5, <1>6 DEF FieldHelp, FieldAccept, FieldCancel, Reason
<1> QED
  BY <1>2, <1>3, <1>4, <1>6 DEF Editor, FieldClick

LEMMA NextTable == TableInv /\ [Next]_vars => TableInv'
<1> SUFFICES ASSUME TableInv, [Next]_vars PROVE TableInv'
  OBVIOUS
<1>1. CASE UNCHANGED vars
  BY <1>1 DEF vars, TableInv, TableType, FilterShown, Listed
<1> QED
  BY <1>1, EngineTable, ObjectsTable, EditorTable DEF Next, Ended

-----------------------------------------------------------------------------
(* Every step keeps the count of the marks. *)

CountInv == SelectionType /\ SelectCount

LEMMA MarksType ==
  ASSUME NEW f \in [Slot -> BOOLEAN]
  PROVE  IsFiniteSet(Marks(f)) /\ Cardinality(Marks(f)) \in Nat
  BY ObjectType, FS_Subset, FS_CardinalityType DEF Marks

\* A mark is taken off, and counted.
LEMMA UnmarkStep ==
  ASSUME CountInv, NEW i \in Slot, f_selected[i], select_cnt' = select_cnt - 1,
         f_selected' = [f_selected EXCEPT ![i] = FALSE], chosen' \in SUBSET chosen
  PROVE  CountInv' /\ select_cnt > 0
<1>1. f_selected' \in [Slot -> BOOLEAN] /\ f_selected \in [Slot -> BOOLEAN]
  BY DEF CountInv, SelectionType
<1>2. Marks(f_selected') = Marks(f_selected) \ {i} /\ i \in Marks(f_selected)
  BY <1>1 DEF Marks
<1>3. Cardinality(Marks(f_selected')) = Cardinality(Marks(f_selected)) - 1
  BY <1>1, <1>2, MarksType, FS_RemoveElement
<1>4. select_cnt = Cardinality(Marks(f_selected))
  BY DEF CountInv, SelectCount, Marks
<1>5. select_cnt' = Cardinality(Marks(f_selected')) /\ select_cnt' \in Nat
  BY <1>1, <1>3, <1>4, MarksType
<1>6. SelectCount'
  BY <1>5 DEF SelectCount, Marks
<1>7. SelectionType' /\ select_cnt > 0
  BY <1>1, <1>5 DEF CountInv, SelectionType
<1> QED
  BY <1>6, <1>7 DEF CountInv

\* A mark is set, and counted.
LEMMA MarkStep ==
  ASSUME CountInv, NEW i \in Slot, ~f_selected[i], select_cnt' = select_cnt + 1,
         f_selected' = [f_selected EXCEPT ![i] = TRUE],
         NEW o \in Object, chosen' = chosen \cup {o}
  PROVE  CountInv'
<1>1. f_selected' \in [Slot -> BOOLEAN] /\ f_selected \in [Slot -> BOOLEAN]
  BY DEF CountInv, SelectionType
<1>2. Marks(f_selected') = Marks(f_selected) \cup {i} /\ i \notin Marks(f_selected)
  BY <1>1 DEF Marks
<1>3. Cardinality(Marks(f_selected')) = Cardinality(Marks(f_selected)) + 1
  BY <1>1, <1>2, MarksType, FS_AddElement
<1>4. select_cnt = Cardinality(Marks(f_selected))
  BY DEF CountInv, SelectCount, Marks
<1>5. select_cnt' = Cardinality(Marks(f_selected')) /\ select_cnt' \in Nat
  BY <1>1, <1>3, <1>4, MarksType
<1>6. SelectCount'
  BY <1>5 DEF SelectCount, Marks
<1>7. SelectionType'
  BY <1>1, <1>5 DEF CountInv, SelectionType
<1> QED
  BY <1>6, <1>7 DEF CountInv

LEMMA DeselectStep ==
  ASSUME CountInv, NEW i, Deselect(i)
  PROVE  /\ CountInv' /\ select_cnt' <= select_cnt
         /\ i \in Slot /\ f_selected[i] => select_cnt' < select_cnt
<1>1. select_cnt \in Nat
  BY DEF CountInv, SelectionType
<1>2. CASE i \in Slot /\ f_selected[i]
  BY <1>1, <1>2, UnmarkStep DEF Deselect
<1>3. CASE ~(i \in Slot /\ f_selected[i])
  BY <1>1, <1>3 DEF Deselect, selection, CountInv, SelectionType, SelectCount
<1> QED
  BY <1>2, <1>3

\* The object that is marked or unmarked is one that is drawn.
LEMMA ToggleStep ==
  ASSUME TableInv, CountInv, Toggle
  PROVE  \/ UNCHANGED selection /\ Return(Reverse(pick), "none")
         \/ /\ CountInv' /\ Place(pick).d_idx \in Slot /\ ~Reverse(pick).fault
            /\ select_cnt' \in {select_cnt - 1, select_cnt + 1}
            /\ f_selected'[Place(pick).d_idx] = ~f_selected[Place(pick).d_idx]
            /\ IF SelectMax > 0 /\ select_cnt' = SelectMax
               THEN Return(Reverse(pick), "full")
                    /\ (select_cnt' = select_cnt + 1 => f_selected'[Place(pick).d_idx])
               ELSE Prompt(Reverse(pick)) /\ rc' = rc
<1> DEFINE p == Reverse(pick)
           i == p.d_idx
<1>1. pick \in PickStruct /\ p \in PickStruct /\ p.d_idx = Place(pick).d_idx
      /\ p.d_object = pick.d_object /\ (~p.fault => Drawable(pick, Place(pick).d_idx))
  BY ReverseRedraws DEF TableInv, TableType, Redrawn
<1>2. f_selected \in [Slot -> BOOLEAN] /\ select_cnt \in Nat /\ chosen \in SUBSET Object
  BY DEF CountInv, SelectionType
<1>3. CASE p.fault
  BY <1>3 DEF Toggle
<1>4. CASE ~p.fault
  <2>1. i \in Slot /\ p.d_object[i] \in Object
    BY <1>1, <1>4 DEF Drawable, PickStruct
  <2>2. /\ f_selected' = [f_selected EXCEPT ![i] = ~f_selected[i]]
        /\ select_cnt' = IF f_selected[i] THEN select_cnt - 1 ELSE select_cnt + 1
        /\ chosen' = IF f_selected[i] THEN chosen \ {p.d_object[i]}
                     ELSE chosen \cup {p.d_object[i]}
        /\ IF SelectMax > 0 /\ select_cnt' = SelectMax
           THEN Return(p, "full") ELSE Prompt(p) /\ rc' = rc
    BY <1>4 DEF Toggle
  <2> HIDE DEF p
  <2>3. CASE f_selected[i]
    <3>1. f_selected' = [f_selected EXCEPT ![i] = FALSE] /\ select_cnt' = select_cnt - 1
          /\ chosen' \in SUBSET chosen
      BY <2>2, <2>3
    <3>2. CountInv'
      BY <2>1, <2>3, <3>1, UnmarkStep
    <3>3. f_selected'[i] = ~f_selected[i]
      BY <1>2, <2>1, <2>2
    <3> QED
      BY <1>1, <1>2, <1>4, <2>1, <2>2, <3>1, <3>2, <3>3 DEF p
  <2>4. CASE ~f_selected[i]
    <3>1. f_selected' = [f_selected EXCEPT ![i] = TRUE] /\ select_cnt' = select_cnt + 1
          /\ chosen' = chosen \cup {p.d_object[i]}
      BY <2>2, <2>4
    <3>2. CountInv'
      BY <2>1, <2>4, <3>1, MarkStep
    <3>3. f_selected'[i] = ~f_selected[i] /\ f_selected'[i]
      BY <1>2, <2>1, <2>2, <2>4
    <3> QED
      BY <1>1, <1>2, <1>4, <2>1, <2>2, <3>1, <3>2, <3>3 DEF p
  <2> QED
    BY <2>3, <2>4
<1> QED
  BY <1>3, <1>4

LEMMA InitCount == Init => CountInv
<1> SUFFICES ASSUME Init PROVE CountInv
  OBVIOUS
<1>1. {i \in Slot : f_selected[i]} = {}
  BY DEF Init
<1> QED
  BY <1>1, FS_EmptySet DEF Init, CountInv, SelectionType, SelectCount

LEMMA SameSelection ==
  ASSUME CountInv, UNCHANGED selection
  PROVE  CountInv'
  BY DEF CountInv, SelectionType, SelectCount, selection

\* Only these steps touch the selection.
LEMMA SelectionSteps ==
  [Next]_vars => Toggle \/ Process \/ Cancel \/ UNCHANGED selection
<1>1. \A p : Key(p) => UNCHANGED selection
  BY DEF Key
<1>2. Engine => Process \/ UNCHANGED selection
  BY DEF Engine, Open, Leave
<1>3. Objects => Toggle \/ Cancel \/ UNCHANGED selection
  BY <1>1 DEF Objects, Accept, Help, View, End, Left, Right, Down, Up, NPage, PPage,
              Home, LastPage, OtherKey, EnterField, Wheel, Spin
<1>4. Editor => UNCHANGED selection
  BY DEF Editor, EditText, EraseText, LeaveField, FieldClick, FieldHelp, FieldAccept,
         FieldCancel, FieldReturn
<1>5. UNCHANGED vars => UNCHANGED selection
  BY DEF vars, selection
<1> QED
  BY <1>2, <1>3, <1>4, <1>5 DEF Next, Ended

LEMMA NextCount == TableInv /\ CountInv /\ [Next]_vars => CountInv'
<1> SUFFICES ASSUME TableInv, CountInv, [Next]_vars PROVE CountInv'
  OBVIOUS
<1>1. CASE Toggle
  BY <1>1, ToggleStep, SameSelection
<1>2. CASE Process
  BY <1>2, DeselectStep DEF Process
<1>3. CASE Cancel
  BY <1>3, DeselectStep DEF Cancel
<1>4. CASE UNCHANGED selection
  BY <1>4, SameSelection
<1> QED
  BY <1>1, <1>2, <1>3, <1>4, SelectionSteps

\* The table, the field, the preview and the selection always have their shapes: no key
\* leaves an index that is not a number or an entry that is neither an object nor null.
THEOREM TypeCorrect == Spec => []TypeOK
<1>1. Init => TableInv /\ CountInv
  BY InitTable, InitCount
<1>2. TableInv /\ CountInv /\ [Next]_vars => TableInv' /\ CountInv'
  BY NextTable, NextCount
<1>3. TableInv /\ CountInv => TypeOK
  BY TypeParts DEF TableInv, CountInv
<1> QED
  BY <1>1, <1>2, <1>3, PTL DEF Spec

\* select_cnt is the number of marks (toggle_object, deselect_object), though marks are
\* kept by index while searches move the objects under them.
THEOREM CountCorrect == Spec => []SelectCount
<1>1. Init => TableInv /\ CountInv
  BY InitTable, InitCount
<1>2. TableInv /\ CountInv /\ [Next]_vars => TableInv' /\ CountInv'
  BY NextTable, NextCount
<1>3. CountInv => SelectCount
  BY DEF CountInv
<1> QED
  BY <1>1, <1>2, <1>3, PTL DEF Spec

\* Under a search text exactly the objects that contain it are listed, or none when a
\* text nothing contains emptied the list (match_objects, picker).
THEOREM FilterCorrect == Spec => []FilterShown
<1>1. Init => TableInv
  BY InitTable
<1>2. TableInv /\ [Next]_vars => TableInv'
  BY NextTable
<1>3. TableInv => FilterShown
  BY DEF TableInv
<1> QED
  BY <1>1, <1>2, <1>3, PTL DEF Spec

-----------------------------------------------------------------------------
(* The limit of -n. *)

\* picker returns "full" with the cursor on the object that was marked last.
LimitInv ==
    SelectMax > 0 =>
        /\ select_cnt <= SelectMax
        /\ pc \in {"geometry", "objects", "field", "spinning"} => select_cnt < SelectMax
        /\ pc = "returned" =>
               IF rc = "full" THEN pick.d_idx \in Slot /\ f_selected[pick.d_idx]
               ELSE select_cnt < SelectMax

LEMMA LimitStep ==
  ASSUME ~OutSpec, TableInv, CountInv, LimitInv, [Next]_vars, SelectMax > 0
  PROVE  LimitInv'
<1>1. select_cnt \in Nat /\ SelectMax \in Nat /\ select_cnt <= SelectMax /\ pick \in PickStruct
  BY PickAssumption DEF CountInv, SelectionType, TableInv, TableType, LimitInv
<1>2. CASE Toggle
  <2>1. pc = "objects" /\ select_cnt < SelectMax
    BY <1>2 DEF Toggle, LimitInv
  <2>2. CASE UNCHANGED selection /\ Return(Reverse(pick), "none")
    BY <2>1, <2>2 DEF LimitInv, Return, selection
  <2>3. CASE ~(UNCHANGED selection /\ Return(Reverse(pick), "none"))
    <3> DEFINE i == Place(pick).d_idx
    <3>1. /\ i \in Slot
          /\ select_cnt' \in {select_cnt - 1, select_cnt + 1}
          /\ IF select_cnt' = SelectMax
             THEN Return(Reverse(pick), "full")
                  /\ (select_cnt' = select_cnt + 1 => f_selected'[i])
             ELSE Prompt(Reverse(pick)) /\ rc' = rc
      BY <1>2, <2>3, ToggleStep
    <3>2. CASE select_cnt' = SelectMax
      <4>1. select_cnt' = select_cnt + 1
        BY <1>1, <2>1, <3>1, <3>2
      <4>2. pick'.d_idx = i
        BY <1>1, <3>1, <3>2, ReverseRedraws DEF Return
      <4> QED
        BY <1>1, <3>1, <3>2, <4>1, <4>2 DEF LimitInv, Return
    <3>3. CASE select_cnt' # SelectMax
      <4>1. select_cnt' < SelectMax
        BY <1>1, <2>1, <3>1, <3>3
      <4> QED
        BY <1>1, <3>1, <3>3, <4>1 DEF LimitInv, Prompt
    <3> QED
      BY <3>2, <3>3
  <2> QED
    BY <2>2, <2>3
<1>3. CASE Process
  <2>1. pc = "returned" /\ Deselect(pick.d_idx) /\ pc' \in {"objects", "crashed"}
    BY <1>3 DEF Process, Prompt
  <2>2. select_cnt' <= select_cnt /\ select_cnt' \in Nat
        /\ (pick.d_idx \in Slot /\ f_selected[pick.d_idx] => select_cnt' < select_cnt)
    BY <2>1, DeselectStep DEF CountInv, SelectionType
  <2>3. select_cnt' < SelectMax
    BY <1>1, <2>1, <2>2 DEF LimitInv
  <2> QED
    BY <1>1, <2>1, <2>2, <2>3 DEF LimitInv
<1>4. CASE Cancel
  <2>1. select_cnt < SelectMax /\ rc' = "cancel" /\ pc' \in {"returned", "crashed"}
    BY <1>4 DEF Cancel, Return, LimitInv
  <2>2. select_cnt' <= select_cnt /\ select_cnt' \in Nat
    BY <1>4, DeselectStep DEF Cancel, CountInv, SelectionType
  <2>3. select_cnt' < SelectMax
    BY <1>1, <2>1, <2>2
  <2> QED
    BY <1>1, <2>1, <2>2, <2>3 DEF LimitInv
<1>5. CASE Leave
  BY <1>1, <1>5 DEF Leave, LimitInv, selection
<1>6. CASE /\ UNCHANGED selection
           /\ pc \in {"geometry", "objects", "field", "spinning"}
           /\ pc' = "returned" => rc' # "full"
  BY <1>1, <1>6 DEF LimitInv, selection
<1>7. CASE UNCHANGED vars
  BY <1>7 DEF vars, LimitInv
<1>8. [Next]_vars =>
          \/ Toggle \/ Process \/ Cancel \/ Leave \/ UNCHANGED vars
          \/ /\ UNCHANGED selection
             /\ pc \in {"geometry", "objects", "field", "spinning"}
             /\ pc' = "returned" => rc' # "full"
  <2>1. \A p : Key(p) => UNCHANGED selection /\ pc = "objects" /\ pc' # "returned"
    BY DEF Key, Prompt
  <2>2. Open => UNCHANGED selection /\ pc = "geometry" /\ pc' # "returned"
    BY DEF Open, Prompt
  <2>3. Accept => UNCHANGED selection /\ pc = "objects" /\ rc' # "full"
    BY DEF Accept, Return
  <2>4. EnterField => UNCHANGED selection /\ pc = "objects" /\ pc' # "returned"
    BY DEF EnterField, Edit
  <2>5. \A y, c : Wheel(y, c) => UNCHANGED selection /\ pc = "objects" /\ pc' # "returned"
    BY DEF Wheel, Prompt
  <2>6. Spin => UNCHANGED selection /\ pc = "spinning" /\ pc' # "returned"
    BY DEF Spin
  <2>7. \A t : EditText(t) \/ EraseText(t)
              => UNCHANGED selection /\ pc = "field" /\ pc' # "returned"
    BY DEF EditText, EraseText, Edit
  <2>8. LeaveField => UNCHANGED selection /\ pc = "field" /\ pc' # "returned"
    BY DEF LeaveField, Prompt
  <2>9. FieldHelp \/ FieldAccept \/ FieldCancel
        => UNCHANGED selection /\ pc = "field" /\ rc' # "full"
    BY DEF FieldHelp, FieldAccept, FieldCancel, FieldReturn, Return
  <2>10. Engine \/ Editor =>
             \/ Process \/ Leave
             \/ /\ UNCHANGED selection
                /\ pc \in {"geometry", "objects", "field", "spinning"}
                /\ pc' = "returned" => rc' # "full"
    BY <2>2, <2>7, <2>8, <2>9 DEF Engine, Editor, FieldClick
  <2>11. Objects =>
             \/ Toggle \/ Cancel
             \/ /\ UNCHANGED selection
                /\ pc \in {"geometry", "objects", "field", "spinning"}
                /\ pc' = "returned" => rc' # "full"
    BY <2>1, <2>3, <2>4, <2>5, <2>6
    DEF Objects, Help, View, End, Left, Right, Down, Up, NPage, PPage, Home, LastPage,
        OtherKey
  <2> QED
    BY <2>10, <2>11 DEF Next, Ended
<1> QED
  BY <1>2, <1>3, <1>4, <1>5, <1>6, <1>7, <1>8

\* Without -o the limit of -n is never passed, and picker awaits keys only below it:
\* toggle_object returns at the limit, and pick_engine takes that last mark off before
\* it calls picker again.
THEOREM LimitCorrect == ASSUME ~OutSpec PROVE Spec => []SelectLimit
<1>1. Init => TableInv /\ CountInv /\ LimitInv
  BY InitTable, InitCount, PickAssumption DEF Init, LimitInv
<1>2. TableInv /\ CountInv /\ LimitInv /\ [Next]_vars => TableInv' /\ CountInv' /\ LimitInv'
  BY NextTable, NextCount, LimitStep DEF LimitInv
<1>3. LimitInv => SelectLimit
  BY DEF LimitInv, SelectLimit
<1> QED
  BY <1>1, <1>2, <1>3, PTL DEF Spec

-----------------------------------------------------------------------------
(* The cursor, when nothing is searched or when all objects fit one page. *)

NoSearch == Text = {}
OnePage == MCnt <= PickLines /\ \A t \in Text : Match[t] # {}

\* The page and the column exist, and the list is not empty.
Geo(p) ==
    /\ p \in PickStruct /\ p.d_cnt \in 1..MCnt /\ p.tbl_lines \in 1..MCnt
    /\ p.tbl_page * Lines < MCnt /\ p.tbl_col < TblCols
    /\ NoSearch => p.d_cnt = MCnt /\ p.d_object = FirstTable.d_object

OnPage(p) == p.d_idx < p.d_cnt /\ p.d_idx \div (Lines * TblCols) = p.tbl_page

\* The indices of a page that exists do not wrap.
LEMMA AtOnPage ==
  ASSUME NEW p, Geo(p), NEW col \in Nat, col < TblCols, NEW line \in 0..(Lines - 1)
  PROVE  /\ PageBase(p) = Lines * TblCols * p.tbl_page
         /\ At(p, col, line) = Lines * TblCols * p.tbl_page + (col * Lines + line)
         /\ col * Lines + line \in 0..(Lines * TblCols - 1)
<1> DEFINE pg == p.tbl_page
           L == Lines
           C == TblCols
           M == MCnt
<1>1. L \in Nat \ {0} /\ C \in Nat \ {0} /\ M \in Nat \ {0} /\ L <= M /\ pg \in Nat
      /\ pg * L < M /\ line \in 0..(L - 1) /\ col < C /\ UIntMax \in Nat
      /\ 2 * M * C < UIntMax
  BY Geometry, UIntLimit DEF Geo, PickStruct
<1>2. PageBase(p) = Wrap(pg * L * C) /\ At(p, col, line) = Wrap(PageBase(p) + col * L + line)
  BY DEF PageBase, At
<1> HIDE DEF pg, L, C, M
<1>3. col * L + line \in Nat /\ col * L + line < L * C
  <2>1. (col + 1) * L <= C * L /\ col * L \in Nat /\ C * L \in Nat
    BY <1>1, Mul
  <2>2. (col + 1) * L = col * L + L /\ C * L = L * C
    BY <1>1
  <2> QED
    BY <1>1, <2>1, <2>2
<1>4. L * C <= M * C /\ L * C \in Nat /\ M * C \in Nat
  BY <1>1, Mul
<1>5. (pg * L) * C <= M * C /\ (pg * L) * C \in Nat
  <2>1. pg * L \in Nat /\ pg * L <= M
    BY <1>1
  <2> QED
    BY <1>1, <2>1, Mul
<1>6. 2 * M * C = M * C + M * C
  BY <1>1
<1>7. (pg * L) * C = L * C * pg
  BY <1>1
<1>8. Wrap((pg * L) * C) = (pg * L) * C
  <2>1. (pg * L) * C \in 0..UIntMax
    BY <1>1, <1>4, <1>5, <1>6
  <2> QED
    BY <2>1, WrapType
<1>9. Wrap((pg * L) * C + col * L + line) = (pg * L) * C + col * L + line
  <2>1. (pg * L) * C + col * L + line \in 0..UIntMax
    <3>1. col * L \in Nat
      BY <1>1
    <3> QED
      BY <1>1, <1>3, <1>4, <1>5, <1>6, <3>1
  <2> QED
    BY <2>1, WrapType
<1>10. PageBase(p) = (pg * L) * C /\ At(p, col, line) = (pg * L) * C + col * L + line
  BY <1>2, <1>8, <1>9
<1>11. col * L \in Nat
  BY <1>1
<1> QED
  BY <1>1, <1>3, <1>4, <1>5, <1>7, <1>10, <1>11 DEF L, C, pg

\* The cursor is placed on the page, and on a list of one page on an object.
LEMMA PlaceOnPage ==
  ASSUME NEW p, Geo(p)
  PROVE  /\ Place(p).d_idx \div (Lines * TblCols) = p.tbl_page
         /\ Place(p).d_idx = At(p, p.tbl_col, Place(p).tbl_line)
         /\ Place(p).tbl_line \in 0..(Lines - 1)
         /\ OnePage => Place(p).d_idx < p.d_cnt
<1> DEFINE i == IF p.d_idx >= p.d_cnt THEN Dec(p.d_cnt) ELSE p.d_idx
           line == (i \div TblCols) % Lines
<1>1. p \in PickStruct /\ p.tbl_col \in Nat /\ p.tbl_col < TblCols /\ p.tbl_page \in Nat
      /\ p.d_cnt \in Nat /\ p.d_cnt > 0 /\ p.d_idx \in Nat
  BY DEF Geo, PickStruct
<1>2. i \in Nat /\ i < p.d_cnt
  BY <1>1 DEF Dec
<1> HIDE DEF i
<1>3. line \in 0..(Lines - 1)
  BY <1>2, LineType
<1>4. Place(p).tbl_line = line /\ Place(p).d_idx = At(p, p.tbl_col, line)
  BY <1>1 DEF Place, PickStruct, i
<1> HIDE DEF line
<1>5. At(p, p.tbl_col, line) = Lines * TblCols * p.tbl_page + (p.tbl_col * Lines + line)
      /\ p.tbl_col * Lines + line \in 0..(Lines * TblCols - 1)
  BY <1>1, <1>3, AtOnPage
<1>6. At(p, p.tbl_col, line) \div (Lines * TblCols) = p.tbl_page
  <2> DEFINE B == Lines * TblCols
             r == p.tbl_col * Lines + line
  <2>1. B \in Nat \ {0} /\ r \in 0..(B - 1) /\ At(p, p.tbl_col, line) = B * p.tbl_page + r
    BY <1>5, Geometry
  <2> HIDE DEF B, r
  <2>2. (B * p.tbl_page + r) \div B = p.tbl_page
    BY <1>1, <2>1, DivModUnique
  <2> QED
    BY <2>1, <2>2 DEF B
<1>7. ASSUME OnePage PROVE At(p, p.tbl_col, line) < p.d_cnt
  <2>1. TblCols = 1 /\ Lines = MCnt
    BY <1>7 DEF OnePage, TblCols, Lines
  <2>2. p.tbl_col = 0
    BY <1>1, <2>1
  <2>3. p.tbl_page = 0
    <3>1. p.tbl_page * MCnt < MCnt
      BY <2>1 DEF Geo
    <3>2. p.tbl_page >= 1 => 1 * MCnt <= p.tbl_page * MCnt
      BY <1>1, Geometry, Mul
    <3> QED
      BY <1>1, <3>1, <3>2, Geometry
  <2>4. i < MCnt
    BY <1>1, <1>2, Geometry DEF Geo
  <2>5. line = i
    <3>1. i \div 1 = i
      BY <1>2
    <3>2. i % MCnt = i
      BY <1>2, <2>4, Geometry
    <3> QED
      BY <2>1, <3>1, <3>2 DEF line
  <2>6. At(p, p.tbl_col, line) = i
    <3>1. Lines * TblCols * p.tbl_page = 0 /\ p.tbl_col * Lines = 0
      BY <2>1, <2>2, <2>3, Geometry
    <3> QED
      BY <1>2, <1>5, <2>5, <3>1
  <2> QED
    BY <1>2, <2>6
<1> QED
  BY <1>3, <1>4, <1>6, <1>7

LEMMA GeoReverse ==
  ASSUME NEW p, Geo(p)
  PROVE  Geo(Reverse(p)) /\ Geo(Place(p))
<1>1. p \in PickStruct
  BY DEF Geo
<1>2. Redrawn(p, Place(p)) /\ Place(p).tbl_page = p.tbl_page /\ Place(p).tbl_col = p.tbl_col
      /\ Place(p).tbl_lines = p.tbl_lines
  BY <1>1, PlaceRedraws DEF Place, PickStruct
<1>3. Redrawn(p, Reverse(p)) /\ Reverse(p).tbl_page = p.tbl_page
      /\ Reverse(p).tbl_col = p.tbl_col
  BY <1>1, ReverseRedraws
<1>4. Reverse(p).tbl_lines = p.tbl_lines
  BY <1>2 DEF Reverse, Redrawn, PickStruct
<1> QED
  BY <1>2, <1>3, <1>4 DEF Geo, Redrawn

LEMMA ReverseOnPage ==
  ASSUME NEW p, Geo(p), NoSearch \/ OnePage, ~Reverse(p).fault
  PROVE  OnPage(Reverse(p))
<1>1. p \in PickStruct
  BY DEF Geo
<1>2. /\ Reverse(p).d_idx = Place(p).d_idx /\ Reverse(p).tbl_page = p.tbl_page
      /\ Reverse(p).d_cnt = p.d_cnt /\ Drawable(p, Place(p).d_idx)
  BY <1>1, ReverseRedraws DEF Redrawn
<1>3. NoSearch => Place(p).d_idx < p.d_cnt
  <2>1. \A i \in Slot : FirstTable.d_object[i] # NullObject => i < MCnt
    BY DEF FirstTable
  <2> QED
    BY <1>2, <2>1 DEF Geo, Drawable
<1> QED
  BY <1>2, <1>3, PlaceOnPage DEF OnPage

LEMMA GeoDisplay ==
  ASSUME NEW p, Geo(p)
  PROVE  Geo(DisplayPage(p))
<1>1. p \in PickStruct
  BY DEF Geo
<1> QED
  BY <1>1, DisplayRedraws DEF Geo, Redrawn

\* Another page that exists, a column that exists, a line or an index.
LEMMA GeoCursor ==
  ASSUME NEW p, Geo(p), NEW q, Redrawn(p, q), q.tbl_lines = p.tbl_lines,
         q.tbl_page * Lines < MCnt, q.tbl_col < TblCols
  PROVE  Geo(q)
  BY DEF Geo, Redrawn

LEMMA GeoMove ==
  ASSUME NEW p, Geo(p), NEW col \in Nat, col < TblCols, NEW line \in Nat
  PROVE  Geo(MoveTo(p, col, line))
<1> DEFINE q == [p EXCEPT !.tbl_col = col, !.tbl_line = line, !.d_idx = At(p, col, line)]
<1>1. p \in PickStruct
  BY DEF Geo
<1>2. Redrawn(p, q) /\ q.tbl_lines = p.tbl_lines /\ q.tbl_page = p.tbl_page /\ q.tbl_col = col
  BY <1>1, AtType DEF PickStruct, Redrawn
<1> HIDE DEF q
<1>3. Geo(q)
  BY <1>2, GeoCursor DEF Geo
<1>4. MoveTo(p, col, line) = Reverse(q)
  BY DEF MoveTo, q
<1> QED
  BY <1>3, <1>4, GeoReverse

\* The pages exist up to the last one.
LEMMA LastPageExists ==
  ASSUME NEW p, Geo(p)
  PROVE  /\ TblPages(p) \in Nat \ {0} /\ Dec(TblPages(p)) = TblPages(p) - 1
         /\ \A n \in Nat : n < TblPages(p) => n * Lines < MCnt
<1> DEFINE t == p.tbl_lines
           L == Lines
           n0 == TblPages(p)
<1>1. t \in 1..MCnt /\ L \in Nat \ {0} /\ MCnt \in Nat
  BY Geometry DEF Geo
<1>2. n0 = (t + L - 1) \div L
  BY DEF TblPages
<1> HIDE DEF t, L, n0
<1> DEFINE r == (t + L - 1) % L
<1>3. n0 \in Nat /\ r \in 0..(L - 1) /\ t + L - 1 = L * n0 + r
  <2>1. t + L - 1 \in Nat
    BY <1>1
  <2> QED
    BY <1>1, <1>2, <2>1, DivMod
<1> HIDE DEF r
<1>4. n0 # 0
  BY <1>1, <1>3
<1>5. ASSUME NEW n \in Nat, n < n0 PROVE n * L < MCnt
  <2>1. (n + 1) * L <= n0 * L /\ n * L \in Nat
    BY <1>1, <1>3, <1>5, Mul
  <2>2. (n + 1) * L = n * L + L /\ n0 * L = L * n0 /\ L * n0 \in Nat
    BY <1>1, <1>3
  <2> QED
    BY <1>1, <1>3, <2>1, <2>2
<1> QED
  BY <1>3, <1>4, <1>5 DEF n0, L, Dec

LEMMA GeoKeys ==
  ASSUME NEW p, Geo(p)
  PROVE  /\ Geo(ToEnd(p)) /\ Geo(LeftOf(p)) /\ Geo(RightOf(p)) /\ Geo(Below(p))
         /\ Geo(Above(p)) /\ Geo(NextPage(p)) /\ Geo(PrevPage(p)) /\ Geo(ToHome(p))
         /\ Geo(ToLastPage(p))
<1>1. p \in PickStruct /\ p.tbl_page \in Nat /\ p.tbl_col \in Nat /\ p.tbl_line \in Nat
      /\ p.tbl_col < TblCols /\ p.tbl_page * Lines < MCnt
  BY DEF Geo, PickStruct
<1>2. Geo(ToEnd(p))
  <2> DEFINE i == Dec(p.d_cnt)
             q == [p EXCEPT !.d_idx = i, !.tbl_page = i \div (Lines * TblCols),
                            !.tbl_line = (i \div TblCols) % Lines, !.tbl_col = i % TblCols]
  <2>1. i \in Nat /\ i < MCnt
    BY Geometry DEF Geo, Dec
  <2> HIDE DEF i
  <2>2. (i \div TblCols) % Lines \in Nat /\ i % TblCols \in Nat /\ i % TblCols < TblCols
    BY <2>1, LineType, DivMod, Geometry
  <2>3. i \div (Lines * TblCols) \in Nat /\ (i \div (Lines * TblCols)) * Lines < MCnt
    <3> DEFINE B == Lines * TblCols
    <3>2. Lines <= B /\ B \in Nat \ {0} /\ Lines \in Nat
      <4>1. 1 * Lines <= TblCols * Lines
        BY Geometry, Mul
      <4> QED
        BY <4>1, Geometry
    <3> HIDE DEF B
    <3> DEFINE n == i \div B
    <3> HIDE DEF n
    <3>1. n \in Nat /\ B * n <= i
      <4>1. n \in Nat /\ (i % B) \in 0..(B - 1) /\ i = B * n + (i % B)
        BY <2>1, <3>2, DivMod DEF n
      <4>2. B * n \in Nat
        BY <3>2, <4>1
      <4> QED
        BY <2>1, <4>1, <4>2
    <3> DEFINE L == Lines
    <3> HIDE DEF L
    <3>3. L \in Nat /\ L <= B /\ MCnt \in Nat
      BY <3>2, Geometry DEF L
    <3>4. L * n <= B * n /\ L * n \in Nat /\ B * n \in Nat
      BY <3>1, <3>2, <3>3, Mul
    <3>5. n * L = L * n
      BY <3>1, <3>3
    <3>6. n * Lines < MCnt
      BY <2>1, <3>1, <3>3, <3>4, <3>5 DEF L
    <3> QED
      BY <3>1, <3>6 DEF n, B
  <2>4. Redrawn(p, q) /\ q.tbl_lines = p.tbl_lines /\ q.tbl_col = i % TblCols
        /\ q.tbl_page = i \div (Lines * TblCols)
    BY <1>1, <2>1, <2>2, <2>3 DEF PickStruct, Redrawn
  <2> HIDE DEF q
  <2>5. Geo(q)
    BY <2>2, <2>3, <2>4, GeoCursor
  <2>6. ToEnd(p) = IF q.tbl_page # p.tbl_page THEN DisplayPage(q) ELSE q
    BY DEF ToEnd, i, q
  <2> QED
    BY <2>5, <2>6, GeoDisplay
<1> DEFINE r == Reverse(p)
<1>3. Geo(r) /\ r.tbl_col = p.tbl_col /\ r.tbl_line \in Nat
  BY <1>1, GeoReverse, ReverseRedraws DEF Redrawn, PickStruct
<1> HIDE DEF r
<1>4. \A c, l \in Nat : c < TblCols => Geo(MoveTo(r, c, l))
  BY <1>3, GeoMove
<1>5. Geo(LeftOf(p))
  BY <1>1, <1>3, <1>4, Geometry DEF LeftOf, r
<1>6. Geo(RightOf(p))
  BY <1>1, <1>3, <1>4, Geometry DEF RightOf, r
<1>7. Geo(Below(p)) /\ Geo(Above(p))
  BY <1>1, <1>3, <1>4 DEF Below, Above, r
<1>8. \A c, l, n \in Nat : c < TblCols /\ n * Lines < MCnt
          => Geo(DisplayPage([p EXCEPT !.tbl_page = n, !.tbl_line = l, !.tbl_col = c]))
  <2> SUFFICES ASSUME NEW c \in Nat, NEW l \in Nat, NEW n \in Nat, c < TblCols,
                      n * Lines < MCnt
               PROVE  Geo(DisplayPage([p EXCEPT !.tbl_page = n, !.tbl_line = l, !.tbl_col = c]))
    OBVIOUS
  <2> DEFINE q == [p EXCEPT !.tbl_page = n, !.tbl_line = l, !.tbl_col = c]
  <2>1. Redrawn(p, q) /\ q.tbl_lines = p.tbl_lines /\ q.tbl_col = c /\ q.tbl_page = n
    BY <1>1 DEF Redrawn, PickStruct
  <2> HIDE DEF q
  <2>2. Geo(DisplayPage(q))
    BY <2>1, GeoCursor, GeoDisplay
  <2> QED
    BY <2>2 DEF q
<1>9. \A c, n \in Nat : [p EXCEPT !.tbl_page = n, !.tbl_col = c]
                         = [p EXCEPT !.tbl_page = n, !.tbl_line = p.tbl_line, !.tbl_col = c]
  BY <1>1 DEF PickStruct
<1>10. \A n \in Nat : [p EXCEPT !.tbl_page = n]
                       = [p EXCEPT !.tbl_page = n, !.tbl_line = p.tbl_line,
                                   !.tbl_col = p.tbl_col]
  BY <1>1 DEF PickStruct
<1>11. 0 \in Nat /\ 0 < TblCols /\ 0 * Lines < MCnt
  BY Geometry
<1>12. Geo(NextPage(p))
  <2>1. NextPage(p) \in {p, DisplayPage(p)}
        \/ /\ p.tbl_page < Dec(TblPages(p))
           /\ NextPage(p) = DisplayPage([p EXCEPT !.tbl_page = p.tbl_page + 1,
                                                  !.tbl_col = 0])
    BY DEF NextPage
  <2>2. p.tbl_page + 1 \in Nat
        /\ (p.tbl_page < Dec(TblPages(p)) => (p.tbl_page + 1) * Lines < MCnt)
    BY <1>1, LastPageExists
  <2>3. p.tbl_page < Dec(TblPages(p))
        => Geo(DisplayPage([p EXCEPT !.tbl_page = p.tbl_page + 1, !.tbl_col = 0]))
    BY <1>1, <1>8, <1>9, <1>11, <2>2
  <2> QED
    BY <2>1, <2>3, GeoDisplay
<1>13. Geo(PrevPage(p))
  <2> DEFINE n == IF p.tbl_page > 0 THEN p.tbl_page - 1 ELSE p.tbl_page
  <2>1. PrevPage(p) \in {p, DisplayPage([p EXCEPT !.tbl_page = n])}
    BY DEF PrevPage
  <2>2. n \in Nat /\ n <= p.tbl_page
    BY <1>1
  <2> HIDE DEF n
  <2>3. n * Lines < MCnt
    <3>1. n * Lines <= p.tbl_page * Lines /\ n * Lines \in Nat /\ p.tbl_page * Lines \in Nat
      BY <1>1, <2>2, Geometry, Mul
    <3> QED
      BY <1>1, <3>1, Geometry
  <2>4. Geo(DisplayPage([p EXCEPT !.tbl_page = n]))
    BY <1>1, <1>8, <1>10, <2>2, <2>3
  <2> QED
    BY <2>1, <2>4
<1>14. Geo(ToHome(p))
  BY <1>8, <1>11 DEF ToHome
<1>15. Geo(ToLastPage(p))
  <2>1. Dec(TblPages(p)) \in Nat /\ Dec(TblPages(p)) * Lines < MCnt
    BY LastPageExists
  <2> QED
    BY <1>1, <1>8, <1>10, <2>1 DEF ToLastPage
<1> QED
  BY <1>2, <1>5, <1>6, <1>7, <1>12, <1>13, <1>14, <1>15

LEMMA GeoMatch ==
  ASSUME NEW p, Geo(p), NEW S \in SUBSET Object, S # {}, ~NoSearch
  PROVE  Geo(MatchObjects(p, S))
<1>1. p \in PickStruct
  BY DEF Geo
<1>2. Cardinality(S) \in 1..MCnt
  <2>1. IsFiniteSet(S) /\ Cardinality(S) \in Nat /\ Cardinality(S) <= MCnt
    BY ObjectType, FS_Subset, FS_CardinalityType
  <2> QED
    BY <2>1, FS_EmptySet, Geometry
<1>3. MatchObjects(p, S) \in PickStruct /\ MatchObjects(p, S).d_cnt = Cardinality(S)
  BY <1>1, MatchRight
<1>4. /\ MatchObjects(p, S).tbl_lines = p.tbl_lines /\ MatchObjects(p, S).tbl_page = p.tbl_page
      /\ MatchObjects(p, S).tbl_col = p.tbl_col
  BY <1>1 DEF MatchObjects, PickStruct
<1> QED
  BY <1>2, <1>3, <1>4 DEF Geo

LEMMA GeoPointed ==
  ASSUME NEW p, Geo(p), NEW y \in Nat, NEW col \in Nat, col < TblCols
  PROVE  Geo(Pointed(p, y, col))
<1> DEFINE r == Reverse(p)
<1>1. Geo(r) /\ r \in PickStruct
  BY GeoReverse DEF Geo
<1>2. Pointed(p, y, col) = [[r EXCEPT !.tbl_col = col]
                               EXCEPT !.d_idx = At([r EXCEPT !.tbl_col = col], col, y)]
  BY Geometry DEF Pointed
<1> HIDE DEF r
<1> DEFINE q == [r EXCEPT !.tbl_col = col]
<1>3. Geo(q)
  <2>1. Redrawn(r, q) /\ q.tbl_lines = r.tbl_lines /\ q.tbl_col = col
        /\ q.tbl_page = r.tbl_page
    BY <1>1 DEF Redrawn, PickStruct
  <2> HIDE DEF q
  <2> QED
    BY <1>1, <2>1, GeoCursor DEF Geo
<1>4. q \in PickStruct /\ At(q, col, y) \in Nat
  <2> HIDE DEF q
  <2> QED
    BY <1>3, AtType DEF Geo
<1> HIDE DEF q
<1> DEFINE w == [q EXCEPT !.d_idx = At(q, col, y)]
<1>5. Redrawn(q, w) /\ w.tbl_lines = q.tbl_lines /\ w.tbl_col = q.tbl_col
      /\ w.tbl_page = q.tbl_page
  BY <1>4 DEF Redrawn, PickStruct
<1>6. Pointed(p, y, col) = w
  BY <1>2 DEF q
<1> HIDE DEF w
<1>7. Geo(w)
  BY <1>3, <1>5, GeoCursor DEF Geo
<1> QED
  BY <1>6, <1>7

\* The line editor never empties the list: a search of a list of one page finds
\* something.
LEMMA GeoEdit ==
  ASSUME NoSearch \/ OnePage, NEW p, Geo(p), NEW t \in Text \cup {NoText}, NEW before,
         Edit(p, t, before)
  PROVE  Geo(pick') /\ pc' \in {"field", "crashed"}
<1> DEFINE none == t # NoText /\ Match[t] = {}
           q == IF t = NoText THEN p
                ELSE IF none THEN MatchObjects(p, {})
                ELSE DisplayPage(MatchObjects(p, Match[t]))
           wild == ViewFiles /\ ~Drawable(q, q.d_idx)
<1>1. pick' = [q EXCEPT !.fault = @ \/ wild] /\ pc' = IF wild THEN "crashed" ELSE "field"
  BY DEF Edit
<1>2. Geo(q)
  <2>1. CASE t = NoText
    BY <2>1
  <2>2. CASE t # NoText
    <3>1. t \in Text /\ ~NoSearch
      BY <2>2 DEF NoSearch
    <3>2. Match[t] # {} /\ Match[t] \in SUBSET Object
      BY <3>1, PickAssumption DEF OnePage
    <3>3. Geo(MatchObjects(p, Match[t]))
      BY <3>1, <3>2, GeoMatch
    <3>4. Geo(DisplayPage(MatchObjects(p, Match[t])))
      BY <3>3, GeoDisplay
    <3> QED
      BY <2>2, <3>2, <3>4
  <2> QED
    BY <2>1, <2>2
<1>3. wild \in BOOLEAN
  BY PickAssumption DEF Drawable
<1> HIDE DEF q, wild
<1>4. /\ Redrawn(q, pick') /\ pick'.tbl_lines = q.tbl_lines
      /\ pick'.tbl_page = q.tbl_page /\ pick'.tbl_col = q.tbl_col
  BY <1>1, <1>2, <1>3 DEF Geo, Redrawn, PickStruct
<1>5. Geo(pick')
  BY <1>2, <1>4, GeoCursor DEF Geo
<1> QED
  BY <1>1, <1>5

\* The table has a page and a column whenever a key, or picker, can look at it.
CursorInv == pc \notin {"spinning", "crashed"} => Geo(pick)

\* What every step comes to: the table is drawn and a key awaited, or it is left to the
\* line editor, to pick_engine or to nobody.
DrawnStep ==
    \/ \E p : Geo(p) /\ Prompt(p)
    \/ Geo(pick') /\ pc' \in {"field", "returned", "done"}
    \/ pc' \in {"spinning", "crashed"}
    \/ UNCHANGED vars

LEMMA ReturnDrawn ==
  ASSUME NEW p, Geo(p), NEW why, Return(p, why)
  PROVE  DrawnStep
  BY DEF Return, DrawnStep

LEMMA EngineDrawn == ASSUME TableInv, CursorInv, Engine PROVE DrawnStep
<1>1. CASE Open
  <2>1. Geo(DisplayPage(pick))
    BY <1>1, GeoDisplay DEF Open, CursorInv
  <2> QED
    BY <1>1, <2>1 DEF Open, DrawnStep
<1>2. CASE Process
  <2> DEFINE p == IF select_cnt > 0 /\ OutSpec THEN [pick EXCEPT !.d_idx = pick.d_cnt]
                  ELSE pick
  <2>1. Geo(pick) /\ pick \in PickStruct
    BY <1>2 DEF Process, CursorInv, Geo
  <2>2. Redrawn(pick, p) /\ p.tbl_lines = pick.tbl_lines /\ p.tbl_page = pick.tbl_page
        /\ p.tbl_col = pick.tbl_col
    BY <2>1 DEF Redrawn, PickStruct
  <2>3. Prompt(p)
    BY <1>2 DEF Process
  <2> HIDE DEF p
  <2>4. Geo(p)
    BY <2>1, <2>2, GeoCursor DEF Geo
  <2> QED
    BY <2>3, <2>4 DEF DrawnStep
<1>3. CASE Leave
  BY <1>3 DEF Leave, CursorInv, DrawnStep
<1> QED
  BY <1>1, <1>2, <1>3 DEF Engine

LEMMA ObjectsDrawn ==
  ASSUME NoSearch \/ OnePage, TableInv, CursorInv, Objects
  PROVE  DrawnStep
<1>1. CASE Spin
  BY <1>1 DEF Spin, DrawnStep
<1>2. CASE ~Spin
  <2>1. pc = "objects"
    BY <1>2 DEF Objects, Toggle, Accept, Cancel, Help, View, End, Left, Right, Down, Up,
                NPage, PPage, Home, LastPage, OtherKey, Key, EnterField, Wheel
  <2>2. Geo(pick) /\ Geo(Reverse(pick)) /\ Geo(Place(pick)) /\ Geo(DisplayPage(pick))
    BY <2>1, GeoReverse, GeoDisplay DEF CursorInv
  <2>3. CASE Toggle
    <3>1. Prompt(Reverse(pick)) \/ \E why : Return(Reverse(pick), why)
      BY <2>3 DEF Toggle
    <3> QED
      BY <2>2, <3>1, ReturnDrawn DEF DrawnStep
  <2>4. CASE Accept \/ Cancel
    BY <2>2, <2>4, ReturnDrawn DEF Accept, Cancel
  <2>5. ASSUME NEW p, Geo(p), Key(p) PROVE DrawnStep
    BY <2>5 DEF Key, DrawnStep
  <2>6. CASE \/ Help \/ View \/ End \/ Left \/ Right \/ Down \/ Up \/ NPage \/ PPage
             \/ Home \/ LastPage \/ OtherKey
    BY <2>2, <2>5, <2>6, GeoKeys
    DEF Help, View, End, Left, Right, Down, Up, NPage, PPage, Home, LastPage, OtherKey
  <2>7. CASE EnterField
    <3>1. PICK p \in {pick, Place(pick)} : Edit(p, field, NoText)
      BY <2>7 DEF EnterField
    <3>2. Geo(pick') /\ pc' \in {"field", "crashed"}
      BY <2>2, <3>1, GeoEdit DEF TableInv, TableType
    <3> QED
      BY <3>2 DEF DrawnStep
  <2>8. ASSUME NEW at \in Pointer, Wheel(at[1], at[2]) PROVE DrawnStep
    <3>1. at[1] \in Nat /\ at[2] \in Nat
      BY PickAssumption
    <3>2. CASE pc' \in {"spinning", "crashed"}
      BY <3>2 DEF DrawnStep
    <3>3. CASE Prompt(pick)
      BY <2>2, <3>3 DEF DrawnStep
    <3>4. CASE at[2] < TblCols /\ Prompt(Pointed(pick, at[1], at[2]))
      BY <2>2, <3>1, <3>4, GeoPointed DEF DrawnStep
    <3> QED
      BY <2>8, <3>2, <3>3, <3>4 DEF Wheel
  <2> QED
    BY <1>2, <2>3, <2>4, <2>6, <2>7, <2>8 DEF Objects
<1> QED
  BY <1>1, <1>2

LEMMA EditorDrawn ==
  ASSUME NoSearch \/ OnePage, TableInv, CursorInv, Editor
  PROVE  DrawnStep
<1>1. pc = "field" /\ Geo(pick)
  BY DEF Editor, EditText, EraseText, LeaveField, FieldClick, FieldHelp, FieldAccept,
         FieldCancel, FieldReturn, CursorInv
<1>2. ASSUME NEW t \in Text \cup {NoText}, EditText(t) PROVE DrawnStep
  BY <1>1, <1>2, GeoEdit DEF EditText, DrawnStep
<1>3. ASSUME NEW t \in Text \cup {NoText}, EraseText(t) PROVE DrawnStep
  <2> DEFINE S == IF t = NoText THEN Object ELSE Match[t]
  <2>1. field # NoText /\ Edit(DisplayPage(MatchObjects(pick, S)), t, field)
    BY <1>3 DEF EraseText
  <2>2. ~NoSearch /\ OnePage
    BY <2>1 DEF TableInv, TableType, NoSearch
  <2>3. S \in SUBSET Object /\ S # {}
    <3>1. 0 \in Object
      BY Geometry DEF Object
    <3>2. t # NoText => Match[t] # {} /\ Match[t] \in SUBSET Object
      BY <2>2, PickAssumption DEF OnePage
    <3> QED
      BY <3>1, <3>2
  <2> HIDE DEF S
  <2>4. Geo(DisplayPage(MatchObjects(pick, S)))
    BY <1>1, <2>2, <2>3, GeoMatch, GeoDisplay
  <2> QED
    BY <2>1, <2>4, GeoEdit DEF DrawnStep
<1>4. CASE LeaveField
  BY <1>1, <1>4 DEF LeaveField, DrawnStep
<1>5. CASE FieldHelp \/ FieldAccept \/ FieldCancel
  BY <1>1, <1>5, ReturnDrawn DEF FieldHelp, FieldAccept, FieldCancel, FieldReturn
<1> QED
  BY <1>2, <1>3, <1>4, <1>5 DEF Editor, FieldClick

LEMMA NextDrawn ==
  ASSUME NoSearch \/ OnePage, TableInv, CursorInv, [Next]_vars
  PROVE  DrawnStep
  BY EngineDrawn, ObjectsDrawn, EditorDrawn DEF Next, Ended, DrawnStep

\* A fault is never taken back.
LEMMA FaultStays ==
  ASSUME NEW p, Geo(p), ~Shown(p).fault
  PROVE  ~Reverse(p).fault
<1> DEFINE r == Reverse(p)
           q == Place(r)
<1>1. r \in PickStruct
  BY GeoReverse DEF Geo
<1> HIDE DEF r
<1>2. q \in PickStruct /\ q.fault = r.fault
  BY <1>1, PlaceRedraws, ZenonT(40) DEF Redrawn, Place, PickStruct
<1> HIDE DEF q
<1>3. Reverse(r) = [q EXCEPT !.fault = @ \/ ~Drawable(q, q.d_idx)]
  BY DEF Reverse, q
<1>4. Reverse(r).fault = (q.fault \/ ~Drawable(q, q.d_idx))
  BY <1>2, <1>3 DEF PickStruct
<1> QED
  BY <1>2, <1>4 DEF Shown, r

LEMMA InitCursor == Init => CursorInv
<1>1. Geo(FirstTable)
  <2>1. FirstTable \in PickStruct
    BY Geometry, ObjectType DEF FirstTable, PickStruct, Object
  <2> QED
    BY <2>1, Geometry DEF Geo, FirstTable
<1> QED
  BY <1>1 DEF Init, CursorInv

\* A key that is awaited finds the table on a page that exists and on an object.
LEMMA PromptCursor ==
  ASSUME NoSearch \/ OnePage, NEW p, Geo(p), Prompt(p), pc' = "objects"
  PROVE  /\ Geo(Reverse(p)) /\ ~Reverse(p).fault /\ OnPage(Reverse(p))
         /\ Geo(pick') /\ OnPage(pick') /\ pick' = Reverse(Reverse(p))
<1>1. pick' = Reverse(Reverse(p)) /\ ~Shown(p).fault
  BY DEF Prompt, Shown
<1>2. Geo(Reverse(p)) /\ ~Reverse(p).fault
  BY <1>1, FaultStays, GeoReverse
<1>3. Geo(pick')
  BY <1>1, <1>2, GeoReverse
<1> QED
  BY <1>1, <1>2, <1>3, ReverseOnPage DEF Shown

LEMMA NextCursor ==
  ASSUME NoSearch \/ OnePage, TableInv, CursorInv, [Next]_vars
  PROVE  CursorInv'
<1>1. CASE \E p : Geo(p) /\ Prompt(p)
  <2>1. PICK p : Geo(p) /\ Prompt(p)
    BY <1>1
  <2>2. pc' = "objects" \/ pc' = "crashed"
    BY <2>1 DEF Prompt
  <2> QED
    BY <2>1, <2>2, PromptCursor DEF CursorInv
<1>2. CASE Geo(pick') \/ pc' \in {"spinning", "crashed"}
  BY <1>2 DEF CursorInv
<1>3. CASE UNCHANGED vars
  BY <1>3 DEF vars, CursorInv
<1> QED
  BY <1>1, <1>2, <1>3, NextDrawn DEF DrawnStep

\* The cursor stays on the page it is shown on and on an object of the list, whatever
\* key, page turn or selection came before (reverse_object, remove_right_angle), when
\* nothing is searched or the list fits one page.
THEOREM CursorCorrect ==
  ASSUME NoSearch \/ OnePage
  PROVE  Spec => []CursorOnPage
<1> DEFINE Inv == TableInv /\ CursorInv /\ (pc = "objects" => OnPage(pick))
<1>1. Init => Inv
  BY InitTable, InitCursor DEF Init
<1>2. Inv /\ [Next]_vars => Inv'
  <2> SUFFICES ASSUME Inv, [Next]_vars PROVE Inv'
    OBVIOUS
  <2>1. TableInv' /\ CursorInv'
    BY NextTable, NextCursor
  <2>2. (pc = "objects" => OnPage(pick))'
    <3>1. CASE \E p : Geo(p) /\ Prompt(p)
      BY <3>1, PromptCursor
    <3>2. CASE pc' \in {"field", "returned", "done", "spinning", "crashed"}
      BY <3>2
    <3>3. CASE UNCHANGED vars
      BY <3>3 DEF vars, OnPage
    <3> QED
      BY <3>1, <3>2, <3>3, NextDrawn DEF DrawnStep
  <2> QED
    BY <2>1, <2>2
<1>3. Inv => CursorOnPage
  BY DEF CursorOnPage, OnPage
<1> QED
  BY <1>1, <1>2, <1>3, PTL DEF Spec

-----------------------------------------------------------------------------
(* The cursor in a table of one column. *)

\* The index, the page and the line agree.
OnObject(p) ==
    /\ Geo(p) /\ p.d_idx < p.d_cnt /\ p.tbl_line \in 0..(Lines - 1)
    /\ p.d_idx = Lines * p.tbl_page + p.tbl_line

LEMMA OneColumn ==
  ASSUME TblCols = 1, NEW p, Geo(p), NEW line \in 0..(Lines - 1)
  PROVE  /\ p.tbl_col = 0 /\ At(p, 0, line) = Lines * p.tbl_page + line
         /\ PageBase(p) = Lines * p.tbl_page
<1>1. p.tbl_col \in Nat /\ p.tbl_col < 1 /\ p.tbl_page \in Nat /\ Lines \in Nat \ {0}
  BY Geometry DEF Geo, PickStruct
<1>2. /\ PageBase(p) = Lines * TblCols * p.tbl_page
      /\ At(p, 0, line) = Lines * TblCols * p.tbl_page + (0 * Lines + line)
  BY AtOnPage
<1> QED
  BY <1>1, <1>2

\* Drawing the cursor on an object leaves it there.
LEMMA PlaceStays ==
  ASSUME TblCols = 1, NEW p, OnObject(p)
  PROVE  Place(p).d_idx = p.d_idx /\ Place(p).tbl_line = p.tbl_line
<1> DEFINE n == p.tbl_page
           l == p.tbl_line
           L == Lines
<1>1. /\ p \in PickStruct /\ Geo(p) /\ n \in Nat /\ l \in 0..(L - 1) /\ L \in Nat \ {0}
      /\ p.d_idx \in Nat /\ p.d_cnt \in Nat /\ p.d_idx < p.d_cnt /\ p.d_idx = L * n + l
  BY Geometry DEF OnObject, Geo, PickStruct
<1>2. (p.d_idx \div TblCols) % L = l
  <2>1. p.d_idx \div TblCols = p.d_idx
    BY <1>1
  <2> HIDE DEF n, l, L
  <2>2. (L * n + l) % L = l
    BY <1>1, DivModUnique
  <2> QED
    BY <1>1, <2>1, <2>2
<1>3. At(p, p.tbl_col, l) = p.d_idx
  BY <1>1, OneColumn
<1>4. Place(p) = [p EXCEPT !.tbl_line = l, !.d_idx = At(p, p.tbl_col, l)]
  <2>1. (IF p.d_idx >= p.d_cnt THEN Dec(p.d_cnt) ELSE p.d_idx) = p.d_idx
    BY <1>1
  <2> QED
    BY <1>2, <2>1, Zenon DEF Place
<1> QED
  BY <1>1, <1>3, <1>4 DEF PickStruct

LEMMA ReverseStays ==
  ASSUME TblCols = 1, NEW p, OnObject(p)
  PROVE  OnObject(Reverse(p)) /\ Reverse(p).d_idx = p.d_idx
         /\ Reverse(p).tbl_line = p.tbl_line /\ Reverse(p).d_cnt = p.d_cnt
         /\ Reverse(p).tbl_page = p.tbl_page /\ Reverse(p).d_object = p.d_object
<1>1. Geo(p) /\ p \in PickStruct
  BY DEF OnObject, Geo
<1> QED
  BY <1>1, GeoReverse, ReverseRedraws, PlaceStays DEF OnObject, Redrawn

\* Drawing the cursor anywhere on a page, on an object that is not null, leaves it on
\* an object.
LEMMA ReverseArrives ==
  ASSUME TblCols = 1, NoSearch \/ OnePage, NEW p, Geo(p), ~Reverse(p).fault
  PROVE  OnObject(Reverse(p))
<1> DEFINE r == Reverse(p)
<1>1. Geo(r) /\ OnPage(r)
  BY GeoReverse, ReverseOnPage
<1>2. /\ r.d_idx = At(p, p.tbl_col, r.tbl_line) /\ r.tbl_line \in 0..(Lines - 1)
      /\ r.tbl_page = p.tbl_page
  <2>1. p \in PickStruct
    BY DEF Geo
  <2> QED
    BY <2>1, PlaceOnPage, ReverseRedraws
<1> HIDE DEF r
<1>3. r.d_idx = Lines * r.tbl_page + r.tbl_line
  BY <1>2, OneColumn
<1> QED
  BY <1>1, <1>2, <1>3 DEF OnObject, OnPage, r

\* 'j' goes one object down.
LEMMA BelowRight ==
  ASSUME TblCols = 1, NEW p, OnObject(p), p.tbl_line < Lines - 1, p.d_idx + 1 < p.d_cnt
  PROVE  OnObject(Below(p)) /\ Below(p).d_idx = p.d_idx + 1
<1> DEFINE r == Reverse(p)
           l == r.tbl_line
<1>1. OnObject(r) /\ r.d_idx = p.d_idx /\ l = p.tbl_line /\ r.d_cnt = p.d_cnt
  BY ReverseStays
<1>2. Below(p) = MoveTo(r, r.tbl_col,
                        IF At(r, r.tbl_col, l) < Dec(r.d_cnt) /\ l < Lines - 1 THEN l + 1
                        ELSE l)
  BY DEF Below
<1> HIDE DEF r
<1>3. /\ Geo(r) /\ r \in PickStruct /\ l \in 0..(Lines - 1) /\ r.d_idx \in Nat
      /\ r.d_cnt \in Nat /\ r.d_cnt > 0 /\ r.tbl_page \in Nat /\ Lines \in Nat \ {0}
      /\ r.d_idx = Lines * r.tbl_page + l
  BY <1>1, Geometry DEF OnObject, Geo, PickStruct
<1>4. r.tbl_col = 0 /\ At(r, 0, l) = r.d_idx
  BY <1>3, OneColumn
<1>5. At(r, r.tbl_col, l) < Dec(r.d_cnt) /\ l < Lines - 1
  BY <1>1, <1>3, <1>4 DEF Dec
<1>6. l + 1 \in 0..(Lines - 1) /\ l + 1 \in Nat
  BY <1>3, <1>5
<1>7. At(r, 0, l + 1) = Lines * r.tbl_page + (l + 1)
  BY <1>3, <1>6, OneColumn
<1> DEFINE q == [r EXCEPT !.tbl_col = 0, !.tbl_line = l + 1, !.d_idx = At(r, 0, l + 1)]
<1>8. Below(p) = Reverse(q)
  BY <1>2, <1>4, <1>5 DEF MoveTo
<1>9. q.d_idx = p.d_idx + 1
  <2>1. Lines * r.tbl_page \in Nat
    BY <1>3
  <2>2. q.d_idx = At(r, 0, l + 1)
    BY <1>3 DEF PickStruct
  <2> QED
    BY <1>1, <1>3, <1>7, <2>1, <2>2
<1>10. /\ Redrawn(r, q) /\ q.tbl_lines = r.tbl_lines /\ q.tbl_page = r.tbl_page
       /\ q.tbl_col = 0 /\ q.tbl_line = l + 1
       /\ q.d_idx = Lines * r.tbl_page + (l + 1)
  BY <1>3, <1>6, <1>7, AtType DEF Redrawn, PickStruct
<1> HIDE DEF q
<1>11. Geo(q)
  BY <1>3, <1>10, GeoCursor, Geometry DEF Geo
<1>12. OnObject(q)
  BY <1>1, <1>6, <1>9, <1>10, <1>11 DEF OnObject, Redrawn
<1> QED
  BY <1>8, <1>9, <1>12, ReverseStays

\* KEY_END goes to the last object.
LEMMA EndRight ==
  ASSUME TblCols = 1, NEW p, Geo(p)
  PROVE  OnObject(ToEnd(p)) /\ ToEnd(p).d_idx = p.d_cnt - 1
<1> DEFINE i == Dec(p.d_cnt)
           n == i \div (Lines * TblCols)
           l == (i \div TblCols) % Lines
           c == i % TblCols
           q == [p EXCEPT !.d_idx = i, !.tbl_page = n, !.tbl_line = l, !.tbl_col = c]
<1>1. p \in PickStruct /\ p.d_cnt \in Nat /\ i \in Nat /\ i = p.d_cnt - 1 /\ i < p.d_cnt
      /\ Lines \in Nat \ {0}
  BY Geometry DEF Geo, PickStruct, Dec
<1>2. ToEnd(p) = IF q.tbl_page # p.tbl_page THEN DisplayPage(q) ELSE q
  BY DEF ToEnd
<1> HIDE DEF i
<1>3. n \in Nat /\ l \in 0..(Lines - 1) /\ i = Lines * n + l /\ c = 0
      /\ Lines * n \in Nat
  <2> DEFINE L == Lines
  <2>1. Lines * TblCols = L /\ i \div TblCols = i /\ i % TblCols = 0 /\ L \in Nat \ {0}
    BY <1>1
  <2> HIDE DEF L
  <2>2. i \div L \in Nat /\ i % L \in 0..(L - 1) /\ i = L * (i \div L) + (i % L)
    BY <1>1, <2>1, DivMod
  <2>3. n = i \div L /\ l = i % L
    BY <2>1 DEF L
  <2> HIDE DEF n, l
  <2>4. L * n \in Nat
    <3>1. n \in Nat
      BY <2>2, <2>3
    <3> QED
      BY <2>1, <3>1
  <2> QED
    BY <2>1, <2>2, <2>3, <2>4 DEF L
<1> HIDE DEF n, l, c
<1>4. /\ q \in PickStruct /\ q.d_cnt = p.d_cnt /\ q.tbl_page = n /\ q.tbl_line = l
      /\ q.d_idx = i
  <2>1. i \in Nat /\ n \in Nat /\ l \in Nat /\ c \in Nat
    BY <1>1, <1>3
  <2> QED
    BY <1>1, <2>1 DEF PickStruct
<1>5. Geo(ToEnd(p))
  BY GeoKeys
<1> HIDE DEF q
<1>6. CASE n # p.tbl_page
  <2>1. ToEnd(p) = DisplayPage(q)
    BY <1>2, <1>4, <1>6
  <2>2. DisplayPage(q).tbl_page = n /\ DisplayPage(q).d_cnt = p.d_cnt
        /\ DisplayPage(q).tbl_line = l
    <3>1. DisplayPage(q).tbl_line = l
      BY <1>4 DEF DisplayPage, PickStruct
    <3> QED
      BY <1>4, <3>1, DisplayRedraws DEF Redrawn
  <2>3. PageBase(q) = Lines * n
    <3>1. Geo(DisplayPage(q)) /\ 0 \in 0..(Lines - 1)
      BY <1>1, <1>5, <2>1
    <3>2. PageBase(DisplayPage(q)) = Lines * n
      BY <2>2, <3>1, OneColumn
    <3> QED
      BY <1>4, <2>2, <3>2 DEF PageBase
  <2>4. DisplayPage(q).d_idx = i
    <3> DEFINE base == PageBase(q)
               room == Lines * TblCols
               end == IF base >= q.d_cnt THEN base
                      ELSE IF base + room <= q.d_cnt THEN base + room ELSE q.d_cnt
    <3>1. base \in Nat /\ base = Lines * n /\ room = Lines /\ q.d_cnt = i + 1
      BY <1>1, <1>3, <1>4, <2>3
    <3>2. DisplayPage(q).d_idx = Dec(end)
      BY <1>4 DEF DisplayPage, PickStruct
    <3> HIDE DEF base, room
    <3>3. end = q.d_cnt
      BY <1>1, <1>3, <3>1
    <3> QED
      BY <1>1, <3>1, <3>2, <3>3 DEF Dec
  <2> QED
    BY <1>1, <1>3, <1>5, <2>1, <2>2, <2>4 DEF OnObject
<1>7. CASE n = p.tbl_page
  <2>1. ToEnd(p) = q
    BY <1>2, <1>4, <1>7
  <2> QED
    BY <1>1, <1>3, <1>4, <1>5, <2>1 DEF OnObject
<1> QED
  BY <1>6, <1>7

\* The cursor of an awaited key, and the preview of what is under it.
ObjectInv ==
    pc = "objects" =>
        OnObject(pick) /\ (ViewFiles => view_file = pick.d_object[pick.d_idx])

LEMMA PromptObject ==
  ASSUME TblCols = 1, NoSearch \/ OnePage, NEW p, Geo(p), Prompt(p), pc' = "objects"
  PROVE  ObjectInv'
<1> DEFINE r == Reverse(p)
<1>1. Geo(r) /\ ~r.fault /\ pick' = Reverse(r)
  BY PromptCursor
<1>2. OnObject(r)
  BY <1>1, ReverseArrives
<1>3. Drawable(r, r.d_idx)
  <2>1. p \in PickStruct
    BY DEF Geo
  <2> QED
    BY <1>1, <2>1, ReverseRedraws DEF Drawable, Redrawn
<1>4. ViewFiles => view_file' = r.d_object[r.d_idx]
  BY <1>3 DEF Prompt, Preview
<1> HIDE DEF r
<1>5. OnObject(pick') /\ pick'.d_idx = r.d_idx /\ pick'.d_object = r.d_object
  BY <1>1, <1>2, ReverseStays
<1> QED
  BY <1>4, <1>5 DEF ObjectInv

LEMMA NextObject ==
  ASSUME TblCols = 1, NoSearch \/ OnePage, TableInv, CursorInv, ObjectInv, [Next]_vars
  PROVE  ObjectInv'
<1>1. CASE \E p : Geo(p) /\ Prompt(p)
  <2>1. PICK p : Geo(p) /\ Prompt(p)
    BY <1>1
  <2>2. pc' # "objects" => ObjectInv'
    BY DEF ObjectInv
  <2> QED
    BY <2>1, <2>2, PromptObject
<1>2. CASE pc' \in {"field", "returned", "done", "spinning", "crashed"}
  BY <1>2 DEF ObjectInv
<1>3. CASE UNCHANGED vars
  BY <1>3 DEF vars, ObjectInv
<1> QED
  BY <1>1, <1>2, <1>3, NextDrawn DEF DrawnStep

\* The preview is the object under the cursor, after any key, search or selection
\* (picker, reverse_object): in a table of one column the cursor, drawn twice, is still
\* where the preview was opened.
THEOREM ViewCorrect ==
  ASSUME TblCols = 1, NoSearch \/ OnePage
  PROVE  Spec => []ViewFollows
<1>1. Init => TableInv /\ CursorInv /\ ObjectInv
  BY InitTable, InitCursor DEF Init, ObjectInv
<1>2. TableInv /\ CursorInv /\ ObjectInv /\ [Next]_vars
      => TableInv' /\ CursorInv' /\ ObjectInv'
  BY NextTable, NextCursor, NextObject
<1>3. ObjectInv => ViewFollows
  BY DEF ObjectInv, ViewFollows
<1> QED
  BY <1>1, <1>2, <1>3, PTL DEF Spec

LEMMA ShownStays ==
  ASSUME TblCols = 1, NEW p, OnObject(p)
  PROVE  Shown(p).d_idx = p.d_idx
  BY ReverseStays DEF Shown

\* In a table of one column 'j' goes to the next object and KEY_END to the last one,
\* from wherever the keys, searches and selections before left the cursor.
THEOREM KeysCorrect ==
  ASSUME TblCols = 1, NoSearch \/ OnePage
  PROVE  Spec => []KeysMove
<1>1. Init => TableInv /\ CursorInv /\ ObjectInv
  BY InitTable, InitCursor DEF Init, ObjectInv
<1>2. TableInv /\ CursorInv /\ ObjectInv /\ [Next]_vars
      => TableInv' /\ CursorInv' /\ ObjectInv'
  BY NextTable, NextCursor, NextObject
<1>3. ObjectInv => KeysMove
  <2> SUFFICES ASSUME OnObject(pick)
               PROVE  /\ (pick.tbl_line < Lines - 1 /\ pick.d_idx + 1 < pick.d_cnt)
                             => Shown(Below(pick)).d_idx = pick.d_idx + 1
                      /\ Shown(ToEnd(pick)).d_idx = pick.d_cnt - 1
    BY DEF ObjectInv, KeysMove
  <2> QED
    BY BelowRight, EndRight, ShownStays DEF OnObject
<1> QED
  BY <1>1, <1>2, <1>3, PTL DEF Spec

-----------------------------------------------------------------------------
(* What is processed, when nothing is searched and the command has room for all objects. *)

\* The marks are on the rows of the objects the user marked, and all rows are objects.
ChosenInv == chosen = Marks(f_selected) /\ chosen \in SUBSET Object

JobInv == job.by # "none" => job.given = job.wanted

\* Room for the names of all objects, as arguments of their own or joined in one.
RoomForAll == IF Command = "plain" THEN MCnt <= MaxArgs ELSE Object \in Joinable

\* The list is the master list: an object is at its own index.
LEMMA OwnIndex ==
  ASSUME NoSearch, NEW p, Geo(p)
  PROVE  /\ p.d_cnt = MCnt
         /\ \A i \in Object : i \in Slot /\ i < p.d_cnt /\ p.d_object[i] = i
         /\ \A i \in Slot : Drawable(p, i) \/ i < p.d_cnt => i \in Object
<1>1. p.d_object = FirstTable.d_object /\ p.d_cnt = MCnt
  BY DEF Geo
<1>2. \A i \in Slot : FirstTable.d_object[i] = IF i < MCnt THEN i ELSE NullObject
  BY DEF FirstTable
<1>3. \A i \in Object : i \in Slot /\ i < MCnt
  BY Geometry, ObjectType DEF Object
<1>4. \A i \in Slot : i < MCnt => i \in Object
  BY Geometry, ObjectType DEF Object
<1> QED
  BY <1>1, <1>2, <1>3, <1>4 DEF Drawable

LEMMA UnmarkChosen ==
  ASSUME NoSearch, Geo(pick), CountInv, ChosenInv, NEW i, Deselect(i)
  PROVE  ChosenInv'
<1>1. CASE i \in Slot /\ f_selected[i]
  <2>1. i \in Object
    BY <1>1 DEF ChosenInv, Marks
  <2>2. pick.d_object[i] = i
    BY <2>1, OwnIndex
  <2>3. f_selected' = [f_selected EXCEPT ![i] = FALSE] /\ chosen' = chosen \ {i}
        /\ f_selected \in [Slot -> BOOLEAN]
    BY <1>1, <2>2 DEF Deselect, CountInv, SelectionType
  <2>4. Marks(f_selected') = Marks(f_selected) \ {i}
    BY <1>1, <2>3 DEF Marks
  <2> QED
    BY <2>3, <2>4 DEF ChosenInv
<1>2. CASE ~(i \in Slot /\ f_selected[i])
  BY <1>2 DEF Deselect, selection, ChosenInv
<1> QED
  BY <1>1, <1>2

LEMMA ToggleChosen ==
  ASSUME NoSearch, Geo(pick), CountInv, ChosenInv, Toggle
  PROVE  ChosenInv'
<1> DEFINE p == Reverse(pick)
           i == p.d_idx
<1>1. Geo(p) /\ f_selected \in [Slot -> BOOLEAN]
  BY GeoReverse DEF CountInv, SelectionType
<1>2. CASE p.fault
  BY <1>2 DEF Toggle, selection, ChosenInv
<1>3. CASE ~p.fault
  <2>1. Drawable(p, i)
    <3>1. pick \in PickStruct
      BY DEF Geo
    <3> QED
      BY <1>3, <3>1, ReverseRedraws DEF Redrawn, Drawable
  <2>2. i \in Object /\ i \in Slot /\ p.d_object[i] = i
    <3> HIDE DEF p
    <3>1. i \in Slot
      BY <2>1 DEF Drawable
    <3> QED
      BY <1>1, <2>1, <3>1, OwnIndex
  <2>3. /\ f_selected' = [f_selected EXCEPT ![i] = ~f_selected[i]]
        /\ chosen' = IF f_selected[i] THEN chosen \ {i} ELSE chosen \cup {i}
    BY <1>3, <2>2 DEF Toggle
  <2> HIDE DEF p
  <2>4. CASE f_selected[i]
    <3>1. Marks(f_selected') = Marks(f_selected) \ {i}
      BY <1>1, <2>2, <2>3, <2>4 DEF Marks
    <3> QED
      BY <2>3, <2>4, <3>1 DEF ChosenInv
  <2>5. CASE ~f_selected[i]
    <3>1. Marks(f_selected') = Marks(f_selected) \cup {i}
      BY <1>1, <2>2, <2>3, <2>5 DEF Marks
    <3> QED
      BY <2>2, <2>3, <2>5, <3>1 DEF ChosenInv
  <2> QED
    BY <2>4, <2>5
<1> QED
  BY <1>2, <1>3

LEMMA NextChosen ==
  ASSUME NoSearch, CountInv, CursorInv, ChosenInv, [Next]_vars
  PROVE  ChosenInv'
<1>1. CASE Toggle
  BY <1>1, ToggleChosen DEF Toggle, CursorInv
<1>2. CASE Process
  BY <1>2, UnmarkChosen DEF Process, CursorInv
<1>3. CASE Cancel
  BY <1>3, UnmarkChosen DEF Cancel, CursorInv
<1>4. CASE UNCHANGED selection
  BY <1>4 DEF selection, ChosenInv
<1> QED
  BY <1>1, <1>2, <1>3, <1>4, SelectionSteps

\* What is marked is passed on, all of it.
LEMMA ProcessedAll ==
  ASSUME NoSearch, RoomForAll, Geo(pick), ChosenInv
  PROVE  Processed.given = Processed.wanted
<1>1. Marked = chosen
  <2>1. \A i \in {j \in Slot : j < pick.d_cnt /\ f_selected[j]} :
            pick.d_object[i] = i /\ i \in chosen
    <3>1. \A i \in Slot : i < pick.d_cnt => i \in Object /\ pick.d_object[i] = i
      BY OwnIndex
    <3> QED
      BY <3>1 DEF ChosenInv, Marks
  <2>2. \A i \in chosen : i \in {j \in Slot : j < pick.d_cnt /\ f_selected[j]}
    BY OwnIndex DEF ChosenInv, Marks
  <2> QED
    BY <2>1, <2>2 DEF Marked
<1>2. Fitting(chosen) = chosen
  <2>1. CASE Command = "plain"
    <3>1. chosen \in SUBSET Nat /\ IsFiniteSet(chosen) /\ Cardinality(chosen) <= MCnt
          /\ Cardinality(chosen) \in Nat
      BY ObjectType, FS_Subset, FS_CardinalityType DEF ChosenInv
    <3>2. \A o \in chosen : Cardinality(Below0(chosen, o)) < MaxArgs
      <4> SUFFICES ASSUME NEW o \in chosen PROVE Cardinality(Below0(chosen, o)) < MaxArgs
        OBVIOUS
      <4>1. Cardinality(Below0(chosen, o)) < Cardinality(chosen)
            /\ Cardinality(Below0(chosen, o)) \in Nat
        BY <3>1, RankGrows
      <4> QED
        BY <2>1, <3>1, <4>1, Geometry, PickAssumption DEF RoomForAll
    <3> QED
      BY <2>1, <3>2 DEF Fitting, Below0
  <2>2. CASE Command # "plain"
    <3>1. \A S : S \subseteq Object => S \in Joinable
      BY <2>2, PickAssumption DEF RoomForAll
    <3>2. \A o \in chosen : {x \in chosen : x < o} \cup {o} \in Joinable
      BY <3>1 DEF ChosenInv
    <3> QED
      BY <2>2, <3>2 DEF Fitting
  <2> QED
    BY <2>1, <2>2
<1> QED
  BY <1>1, <1>2 DEF Processed

LEMMA NextJob ==
  ASSUME NoSearch, RoomForAll, CursorInv, ChosenInv, JobInv, [Next]_vars
  PROVE  JobInv'
<1>1. CASE Process
  <2>1. job' = Processed \/ job' = NoJob
    BY <1>1 DEF Process
  <2>2. Geo(pick)
    BY <1>1 DEF Process, CursorInv
  <2> QED
    BY <2>1, <2>2, ProcessedAll DEF JobInv, NoJob
<1>2. CASE job' = NoJob
  BY <1>2 DEF JobInv, NoJob
<1>3. CASE UNCHANGED vars
  BY <1>3 DEF vars, JobInv
<1>4. [Next]_vars => Process \/ job' = NoJob \/ UNCHANGED vars
  <2>1. \A p : Key(p) => job' = NoJob
    BY DEF Key
  <2>2. Engine => Process \/ job' = NoJob
    BY DEF Engine, Open, Leave
  <2>3. Objects => job' = NoJob
    BY <2>1 DEF Objects, Toggle, Cancel, Accept, Help, View, End, Left, Right, Down, Up,
                NPage, PPage, Home, LastPage, OtherKey, EnterField, Wheel, Spin
  <2>4. Editor => job' = NoJob
    BY DEF Editor, EditText, EraseText, LeaveField, FieldClick, FieldHelp, FieldAccept,
           FieldCancel, FieldReturn
  <2> QED
    BY <2>2, <2>3, <2>4 DEF Next, Ended
<1> QED
  BY <1>1, <1>2, <1>3, <1>4

\* What is passed to the command is what the user marked, whatever was marked, taken off
\* and processed before, when nothing is searched and there is room for all objects: in
\* eargv, or for their names in the MAXLEN - 1 characters of a joined argument
\* (output_objects, exec_objects, deselect_object).
THEOREM ChosenCorrect ==
  ASSUME NoSearch, RoomForAll
  PROVE  Spec => []ProcessesChosen
<1> DEFINE Inv == TableInv /\ CountInv /\ CursorInv /\ ChosenInv /\ JobInv
<1>1. Init => Inv
  <2> SUFFICES ASSUME Init PROVE Inv
    OBVIOUS
  <2>1. Marks(f_selected) = {} /\ chosen = {} /\ job.by = "none"
    BY DEF Init, Marks, NoJob
  <2> QED
    BY <2>1, InitTable, InitCount, InitCursor DEF ChosenInv, JobInv
<1>2. Inv /\ [Next]_vars => Inv'
  BY NextTable, NextCount, NextCursor, NextChosen, NextJob
<1>3. Inv => ProcessesChosen
  BY DEF JobInv, ProcessesChosen
<1> QED
  BY <1>1, <1>2, <1>3, PTL DEF Spec
=============================================================================
