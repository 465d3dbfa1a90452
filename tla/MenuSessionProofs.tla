------------------------- MODULE MenuSessionProofs -------------------------
(***************************************************************************)
(* Proofs about MenuSession: which structures are allocated, that popups    *)
(* nest like a stack, which windows are open and how a program ends.        *)
(***************************************************************************)
EXTENDS MenuSession, NumberLemmas, FiniteSetTheorems, TLAPS

-----------------------------------------------------------------------------
(* The structure of a kind that the innermost engine has. *)

Having(fr, n, k) == {i \in 1..n : Held(fr[i])[k] # Null}

\* Among the first n engines.
Inner(fr, n, k) ==
    IF Having(fr, n, k) = {} THEN Null
    ELSE Held(fr[CHOOSE i \in Having(fr, n, k) : \A j \in Having(fr, n, k) : j <= i])[k]

LEMMA HeldIs ==
  ASSUME NEW f, NEW k \in Kind
  PROVE  Held(f)[k] = IF f.kind = k THEN f.obj ELSE IF k = "view" THEN f.aux ELSE Null
  BY DEF Held

\* The innermost engine that has one, if any has.
LEMMA InnerIs ==
  ASSUME NEW fr, NEW n \in Nat, NEW k
  PROVE  \/ Having(fr, n, k) = {} /\ Inner(fr, n, k) = Null
         \/ \E i \in Having(fr, n, k) : /\ \A j \in Having(fr, n, k) : j <= i
                                        /\ Inner(fr, n, k) = Held(fr[i])[k]
<1> DEFINE T == Having(fr, n, k)
<1>1. CASE T = {}
  BY <1>1 DEF Inner
<1>2. CASE T # {}
  <2>1. T \in SUBSET (0..n)
    BY DEF Having
  <2>2. \E x \in T : \A y \in T : y <= x
    BY <1>2, <2>1, NatMax
  <2> HIDE DEF T
  <2>3. /\ (CHOOSE i \in T : \A j \in T : j <= i) \in T
        /\ \A j \in T : j <= (CHOOSE i \in T : \A j0 \in T : j0 <= i)
    BY <2>2
  <2> QED
    BY <1>2, <2>3 DEF Inner, T
<1> QED
  BY <1>1, <1>2

\* It is the one an engine with the index i has when no later one has any.
LEMMA InnerAt ==
  ASSUME NEW fr, NEW n \in Nat, NEW k, NEW i \in 1..n, Held(fr[i])[k] # Null,
         \A j \in 1..n : Held(fr[j])[k] # Null => j <= i
  PROVE  Inner(fr, n, k) = Held(fr[i])[k]
<1>1. i \in Having(fr, n, k) /\ \A j \in Having(fr, n, k) : j <= i
  BY DEF Having
<1>2. PICK m \in Having(fr, n, k) : /\ \A j \in Having(fr, n, k) : j <= m
                                    /\ Inner(fr, n, k) = Held(fr[m])[k]
  BY <1>1, InnerIs
<1>3. m \in 1..n /\ m <= i /\ i <= m
  BY <1>1, <1>2 DEF Having
<1>4. m = i
  BY <1>3
<1> QED
  BY <1>2, <1>4

LEMMA InnerStep ==
  ASSUME NEW fr, NEW n \in Nat, NEW k
  PROVE  /\ Inner(fr, 0, k) = Null
         /\ Inner(fr, n + 1, k) = IF Held(fr[n + 1])[k] # Null THEN Held(fr[n + 1])[k]
                                  ELSE Inner(fr, n, k)
<1>1. Inner(fr, 0, k) = Null
  BY DEF Inner, Having
<1>2. CASE Held(fr[n + 1])[k] # Null
  <2>1. n + 1 \in 1..(n + 1) /\ \A j \in 1..(n + 1) : j <= n + 1
    OBVIOUS
  <2> QED
    BY <1>1, <1>2, <2>1, InnerAt
<1>3. CASE Held(fr[n + 1])[k] = Null
  <2>1. Having(fr, n + 1, k) = Having(fr, n, k)
    <3>1. \A i \in 1..(n + 1) : i = n + 1 \/ i \in 1..n
      OBVIOUS
    <3>2. \A i \in 1..n : i \in 1..(n + 1)
      OBVIOUS
    <3> QED
      BY <1>3, <3>1, <3>2 DEF Having
  <2>2. Inner(fr, n + 1, k) = Inner(fr, n, k)
    <3>1. CASE Having(fr, n, k) = {}
      BY <2>1, <3>1 DEF Inner
    <3>2. CASE Having(fr, n, k) # {}
      <4>1. PICK i \in Having(fr, n, k) : /\ \A j \in Having(fr, n, k) : j <= i
                                          /\ Inner(fr, n, k) = Held(fr[i])[k]
        BY <3>2, InnerIs
      <4>2. /\ i \in 1..(n + 1) /\ Held(fr[i])[k] # Null
            /\ \A j \in 1..(n + 1) : Held(fr[j])[k] # Null => j <= i
        BY <2>1, <4>1 DEF Having
      <4>3. Inner(fr, n + 1, k) = Held(fr[i])[k]
        BY <4>2, InnerAt
      <4> QED
        BY <4>1, <4>3
    <3> QED
      BY <3>1, <3>2
  <2> QED
    BY <1>1, <1>3, <2>2
<1> QED
  BY <1>2, <1>3

LEMMA InnerLast ==
  ASSUME NEW fr, NEW n \in Nat \ {0}, NEW k
  PROVE  Inner(fr, n, k) = IF Held(fr[n])[k] # Null THEN Held(fr[n])[k]
                           ELSE Inner(fr, n - 1, k)
<1> DEFINE m == n - 1
<1>1. m \in Nat /\ m + 1 = n
  OBVIOUS
<1> HIDE DEF m
<1>2. Inner(fr, m + 1, k) = IF Held(fr[m + 1])[k] # Null THEN Held(fr[m + 1])[k]
                            ELSE Inner(fr, m, k)
  BY <1>1, InnerStep
<1> QED
  BY <1>1, <1>2 DEF m

\* It depends on the first n engines alone.
LEMMA InnerSame ==
  ASSUME NEW fr, NEW gr, NEW n \in Nat, NEW k,
         \A i \in 1..n : Held(gr[i])[k] = Held(fr[i])[k]
  PROVE  Inner(gr, n, k) = Inner(fr, n, k)
<1>1. Having(gr, n, k) = Having(fr, n, k)
  BY DEF Having
<1>2. CASE Having(fr, n, k) = {}
  BY <1>1, <1>2 DEF Inner
<1>3. CASE Having(fr, n, k) # {}
  <2>1. PICK i \in Having(fr, n, k) : /\ \A j \in Having(fr, n, k) : j <= i
                                      /\ Inner(fr, n, k) = Held(fr[i])[k]
    BY <1>3, InnerIs
  <2>2. i \in 1..n /\ Held(gr[i])[k] # Null /\ \A j \in 1..n : Held(gr[j])[k] # Null => j <= i
    BY <1>1, <2>1 DEF Having
  <2>3. Inner(gr, n, k) = Held(gr[i])[k]
    BY <2>2, InnerAt
  <2> QED
    BY <2>1, <2>2, <2>3
<1> QED
  BY <1>2, <1>3

-----------------------------------------------------------------------------
(* The structures of the engines on the call stack. *)

InitStruct ==
    [ptr : [Kind -> Id \cup {Null}], cnt : [Kind -> 0 .. MaxFrames + 1],
     live : [Kind -> SUBSET Id], pick : Id \cup {Null}]

\* Each engine has the structure it works on, and what its caller worked on is saved.
Engines(fr) ==
    \A i \in 1..Len(fr) :
        /\ fr[i].kind \in Kind =>
               fr[i].obj # Null /\ fr[i].saved = Inner(fr, i - 1, fr[i].kind)
        /\ fr[i].kind \notin Kind => fr[i].obj = Null
        /\ fr[i].aux # Null => fr[i].kind = "pick" /\ fr[i].stage = "run"
        /\ fr[i].stage = "failed" => fr[i].kind \in Kind
        /\ fr[i].stage = "ending" => fr[i].kind = "form"

\* Menus and picks are started by menus.
Nested(fr) ==
    \A i \in 1..Len(fr) :
        fr[i].kind \in {"menu", "pick"} => \A j \in 1..(i - 1) : fr[j].kind = "menu"

HeldSet(fr, k) == {Held(fr[i])[k] : i \in 1..Len(fr)} \ {Null}

\* What init knows of the structures of kind k.
Known(fr, in, k) ==
    /\ in.ptr[k] = Inner(fr, Len(fr), k)
    /\ in.live[k] = HeldSet(fr, k)
    /\ in.cnt[k] = Cardinality(HeldSet(fr, k))
    /\ \A i, j \in 1..Len(fr) :
           Held(fr[i])[k] # Null /\ Held(fr[i])[k] = Held(fr[j])[k] => i = j

PickKnown(fr, in) == \A i \in 1..Len(fr) : fr[i].kind = "pick" => in.pick = fr[i].obj

Whole(fr, in) ==
    /\ fr \in Seq(Frame) /\ in \in InitStruct
    /\ Engines(fr) /\ Nested(fr) /\ PickKnown(fr, in)
    /\ \A k \in Kind : Known(fr, in, k)

LEMMA FrameHeld ==
  ASSUME NEW f \in Frame, NEW k \in Kind
  PROVE  Held(f)[k] \in Id \cup {Null}
  BY HeldIs DEF Frame

LEMMA HeldSetType ==
  ASSUME NEW fr \in Seq(Frame), NEW k \in Kind
  PROVE  /\ HeldSet(fr, k) \in SUBSET Id /\ IsFiniteSet(HeldSet(fr, k))
         /\ Cardinality(HeldSet(fr, k)) \in Nat /\ Cardinality(HeldSet(fr, k)) <= Len(fr)
<1> DEFINE n == Len(fr)
           h == [i \in 1..n |-> Held(fr[i])[k]]
           T == {h[i] : i \in 1..n}
<1>1. n \in Nat /\ \A i \in 1..n : fr[i] \in Frame
  OBVIOUS
<1>2. IsFiniteSet(T) /\ Cardinality(T) \in Nat /\ Cardinality(T) <= n
  BY <1>1, ImageSmall
<1>3. HeldSet(fr, k) = T \ {Null}
  BY DEF HeldSet
<1>4. HeldSet(fr, k) \in SUBSET Id
  BY <1>1, FrameHeld DEF HeldSet
<1> HIDE DEF T, n
<1>5. HeldSet(fr, k) \in SUBSET T
  BY <1>3
<1>6. IsFiniteSet(HeldSet(fr, k)) /\ Cardinality(HeldSet(fr, k)) <= Cardinality(T)
      /\ Cardinality(HeldSet(fr, k)) \in Nat
  BY <1>2, <1>5, FS_Subset, FS_CardinalityType
<1> QED
  BY <1>1, <1>2, <1>4, <1>6 DEF n

-----------------------------------------------------------------------------
(* An engine starts, one ends. *)

\* The same engines with the same structures, in other windows or other stages.
Alike(fr, gr) ==
    /\ gr \in Seq(Frame) /\ Len(gr) = Len(fr)
    /\ \A i \in 1..Len(fr) : /\ gr[i].kind = fr[i].kind /\ gr[i].obj = fr[i].obj
                             /\ gr[i].saved = fr[i].saved /\ gr[i].aux = fr[i].aux

Staged(gr) ==
    \A i \in 1..Len(gr) :
        /\ gr[i].aux # Null => gr[i].stage = "run"
        /\ gr[i].stage = "failed" => gr[i].kind \in Kind
        /\ gr[i].stage = "ending" => gr[i].kind = "form"

LEMMA AlikeWhole ==
  ASSUME NEW fr, NEW in, Whole(fr, in), NEW gr, Alike(fr, gr), Staged(gr)
  PROVE  Whole(gr, in)
<1> DEFINE n == Len(fr)
<1>1. n \in Nat /\ Len(gr) = n /\ fr \in Seq(Frame) /\ gr \in Seq(Frame)
  BY DEF Whole, Alike
<1>2. ASSUME NEW k \in Kind PROVE \A i \in 1..n : Held(gr[i])[k] = Held(fr[i])[k]
  BY HeldIs DEF Alike
<1>3. ASSUME NEW k \in Kind, NEW m \in 0..n PROVE Inner(gr, m, k) = Inner(fr, m, k)
  <2>1. \A i \in 1..m : Held(gr[i])[k] = Held(fr[i])[k]
    BY <1>1, <1>2
  <2> QED
    BY <1>1, <2>1, InnerSame
<1>4. Engines(gr)
  <2> SUFFICES ASSUME NEW i \in 1..n
               PROVE  /\ gr[i].kind \in Kind =>
                             gr[i].obj # Null /\ gr[i].saved = Inner(gr, i - 1, gr[i].kind)
                      /\ gr[i].kind \notin Kind => gr[i].obj = Null
                      /\ gr[i].aux # Null => gr[i].kind = "pick"
    BY <1>1 DEF Engines, Staged
  <2>1. i - 1 \in 0..n
    BY <1>1
  <2> QED
    BY <1>3, <2>1 DEF Whole, Engines, Alike
<1>5. Nested(gr) /\ PickKnown(gr, in)
  BY <1>1, SMTT(40) DEF Whole, Nested, PickKnown, Alike
<1>6. ASSUME NEW k \in Kind PROVE Known(gr, in, k)
  <2>1. HeldSet(gr, k) = HeldSet(fr, k)
    BY <1>1, <1>2 DEF HeldSet
  <2>2. Inner(gr, n, k) = Inner(fr, n, k)
    BY <1>1, <1>3
  <2> QED
    BY <1>1, <1>2, <2>1, <2>2 DEF Whole, Known
<1> QED
  BY <1>1, <1>4, <1>5, <1>6 DEF Whole

LEMMA AppendFrame ==
  ASSUME NEW fr \in Seq(Frame), NEW f \in Frame
  PROVE  /\ Append(fr, f) \in Seq(Frame) /\ Len(Append(fr, f)) = Len(fr) + 1
         /\ Len(fr) \in Nat /\ Append(fr, f)[Len(fr) + 1] = f
         /\ \A i \in 1..Len(fr) : Append(fr, f)[i] = fr[i]
         /\ \A k : \A n \in 0..Len(fr) : Inner(Append(fr, f), n, k) = Inner(fr, n, k)
         /\ \A k : Inner(Append(fr, f), Len(fr) + 1, k)
                   = IF Held(f)[k] # Null THEN Held(f)[k] ELSE Inner(fr, Len(fr), k)
         /\ \A k : HeldSet(Append(fr, f), k) = HeldSet(fr, k) \cup ({Held(f)[k]} \ {Null})
<1> DEFINE g == Append(fr, f)
           n == Len(fr)
<1>1. g \in Seq(Frame) /\ Len(g) = n + 1 /\ n \in Nat /\ g[n + 1] = f
      /\ \A i \in 1..n : g[i] = fr[i]
  OBVIOUS
<1> HIDE DEF g
<1>2. ASSUME NEW m \in 0..n, NEW k PROVE Inner(g, m, k) = Inner(fr, m, k)
  <2>1. m \in Nat /\ \A i \in 1..m : Held(g[i])[k] = Held(fr[i])[k]
    BY <1>1
  <2> QED
    BY <2>1, InnerSame
<1>3. ASSUME NEW k
      PROVE  Inner(g, n + 1, k)
             = IF Held(f)[k] # Null THEN Held(f)[k] ELSE Inner(fr, n, k)
  <2>1. n \in 0..n
    BY <1>1
  <2> QED
    BY <1>1, <1>2, <2>1, InnerStep
<1>4. ASSUME NEW k PROVE HeldSet(g, k) = HeldSet(fr, k) \cup ({Held(f)[k]} \ {Null})
  <2>1. \A i \in 1..(n + 1) : i = n + 1 \/ i \in 1..n
    BY <1>1
  <2>2. n + 1 \in 1..(n + 1) /\ \A i \in 1..n : i \in 1..(n + 1)
    BY <1>1
  <2> QED
    BY <1>1, <2>1, <2>2 DEF HeldSet
<1> QED
  BY <1>1, <1>2, <1>3, <1>4 DEF g

\* A message, the key test, a child: nothing is allocated.
LEMMA PushWhole ==
  ASSUME NEW fr, NEW in, Whole(fr, in), NEW f \in Frame, f.kind \notin Kind, f.obj = Null,
         f.aux = Null, f.stage = "run"
  PROVE  Whole(Append(fr, f), in)
<1> DEFINE g == Append(fr, f)
           n == Len(fr)
<1>1. fr \in Seq(Frame)
  BY DEF Whole
<1>2. /\ g \in Seq(Frame) /\ Len(g) = n + 1 /\ n \in Nat /\ g[n + 1] = f
      /\ \A i \in 1..n : g[i] = fr[i]
      /\ \A k : \A m \in 0..n : Inner(g, m, k) = Inner(fr, m, k)
      /\ \A k : Inner(g, n + 1, k) = IF Held(f)[k] # Null THEN Held(f)[k]
                                     ELSE Inner(fr, n, k)
      /\ \A k : HeldSet(g, k) = HeldSet(fr, k) \cup ({Held(f)[k]} \ {Null})
  BY <1>1, AppendFrame
<1> HIDE DEF g
<1>3. \A i \in 1..(n + 1) : i \in 1..n \/ i = n + 1
  BY <1>2
<1>4. \A k \in Kind : Held(f)[k] = Null
  BY HeldIs
<1>5. Engines(g)
  <2> SUFFICES ASSUME NEW i \in 1..n
               PROVE  /\ g[i].kind \in Kind =>
                             g[i].obj # Null /\ g[i].saved = Inner(g, i - 1, g[i].kind)
                      /\ g[i].kind \notin Kind => g[i].obj = Null
                      /\ g[i].aux # Null => g[i].kind = "pick" /\ g[i].stage = "run"
                      /\ g[i].stage = "failed" => g[i].kind \in Kind
                      /\ g[i].stage = "ending" => g[i].kind = "form"
    BY <1>2, <1>3 DEF Engines
  <2>1. i - 1 \in 0..n
    BY <1>2
  <2> QED
    BY <1>2, <2>1 DEF Whole, Engines
<1>6. Nested(g) /\ PickKnown(g, in)
  <2>1. \A i \in 1..n : \A j \in 1..(i - 1) : j \in 1..n
    BY <1>2
  <2>2. f.kind \notin {"menu", "pick"}
    BY DEF Kind
  <2> QED
    BY <1>2, <1>3, <2>1, <2>2 DEF Whole, Nested, PickKnown
<1>7. ASSUME NEW k \in Kind PROVE Known(g, in, k)
  <2>1. HeldSet(g, k) = HeldSet(fr, k) /\ Inner(g, n + 1, k) = Inner(fr, n, k)
    BY <1>2, <1>4
  <2>2. \A i \in 1..(n + 1) : Held(g[i])[k] # Null => i \in 1..n
    BY <1>2, <1>3, <1>4
  <2> QED
    BY <1>2, <2>1, <2>2, SMTT(40) DEF Whole, Known
<1> QED
  BY <1>2, <1>5, <1>6, <1>7 DEF Whole, g

\* An engine of kind k starts with a new structure o.
Made(in, k, o) ==
    [ptr |-> [in.ptr EXCEPT ![k] = o], cnt |-> [in.cnt EXCEPT ![k] = @ + 1],
     live |-> [in.live EXCEPT ![k] = @ \cup {o}],
     pick |-> IF k = "pick" THEN o ELSE in.pick]

OnlyMenus(fr) == \A i \in 1..Len(fr) : fr[i].kind = "menu"

LEMMA StartWhole ==
  ASSUME NEW fr, NEW in, Whole(fr, in), Len(fr) <= MaxFrames, NEW k \in Kind,
         k \in {"menu", "pick"} => OnlyMenus(fr),
         NEW o \in Id, o \notin in.live[k],
         NEW f \in Frame, f.kind = k, f.obj = o, f.saved = in.ptr[k], f.aux = Null,
         f.stage = "ending" => k = "form"
  PROVE  Whole(Append(fr, f), Made(in, k, o))
<1> DEFINE g == Append(fr, f)
           n == Len(fr)
           m == Made(in, k, o)
<1>1. fr \in Seq(Frame) /\ in \in InitStruct
  BY DEF Whole
<1>2. /\ g \in Seq(Frame) /\ Len(g) = n + 1 /\ n \in Nat /\ g[n + 1] = f
      /\ \A i \in 1..n : g[i] = fr[i]
      /\ \A c : \A i \in 0..n : Inner(g, i, c) = Inner(fr, i, c)
      /\ \A c : Inner(g, n + 1, c) = IF Held(f)[c] # Null THEN Held(f)[c]
                                     ELSE Inner(fr, n, c)
      /\ \A c : HeldSet(g, c) = HeldSet(fr, c) \cup ({Held(f)[c]} \ {Null})
  BY <1>1, AppendFrame
<1> HIDE DEF g
<1>3. \A i \in 1..(n + 1) : i \in 1..n \/ i = n + 1
  BY <1>2
<1>4. Held(f)[k] = o /\ o # Null /\ \A c \in Kind : c # k => Held(f)[c] = Null
  BY HeldIs DEF Id, Null
<1>5. \A c \in Kind : /\ in.ptr[c] = Inner(fr, n, c) /\ in.live[c] = HeldSet(fr, c)
                      /\ in.cnt[c] = Cardinality(HeldSet(fr, c))
                      /\ IsFiniteSet(HeldSet(fr, c)) /\ Cardinality(HeldSet(fr, c)) \in Nat
                      /\ Cardinality(HeldSet(fr, c)) <= n
  BY <1>1, HeldSetType DEF Whole, Known
<1>6. /\ \A c \in Kind : m.ptr[c] = (IF c = k THEN o ELSE in.ptr[c])
                         /\ m.cnt[c] = (IF c = k THEN in.cnt[c] + 1 ELSE in.cnt[c])
                         /\ m.live[c] = (IF c = k THEN in.live[c] \cup {o} ELSE in.live[c])
      /\ m.pick = IF k = "pick" THEN o ELSE in.pick
      /\ m \in InitStruct
  <2>1. in.cnt[k] + 1 \in 0..(MaxFrames + 1)
    BY <1>2, <1>5, SessionAssumption
  <2> QED
    BY <1>1, <2>1 DEF Made, InitStruct
<1> HIDE DEF m
<1>7. Engines(g)
  <2>1. \A i \in 1..n : i - 1 \in 0..n
    BY <1>2
  <2>2. /\ f.obj # Null /\ f.saved = Inner(g, (n + 1) - 1, f.kind)
    BY <1>2, <1>4, <1>5
  <2>3. f.stage = "failed" => f.kind \in Kind
    OBVIOUS
  <2> SUFFICES ASSUME NEW i \in 1..n
               PROVE  /\ g[i].kind \in Kind =>
                             g[i].obj # Null /\ g[i].saved = Inner(g, i - 1, g[i].kind)
                      /\ g[i].kind \notin Kind => g[i].obj = Null
                      /\ g[i].aux # Null => g[i].kind = "pick" /\ g[i].stage = "run"
                      /\ g[i].stage = "failed" => g[i].kind \in Kind
                      /\ g[i].stage = "ending" => g[i].kind = "form"
    BY <1>2, <1>3, <2>2, <2>3 DEF Engines
  <2> QED
    BY <1>2, <2>1 DEF Whole, Engines
<1>8. Nested(g)
  <2>1. \A i \in 1..n : \A j \in 1..(i - 1) : j \in 1..n
    BY <1>2
  <2>2. \A j \in 1..((n + 1) - 1) : j \in 1..n
    BY <1>2
  <2> QED
    BY <1>2, <1>3, <2>1, <2>2 DEF Whole, Nested, OnlyMenus
<1>9. PickKnown(g, m)
  BY <1>2, <1>3, <1>6 DEF Whole, PickKnown, OnlyMenus
<1>10. ASSUME NEW c \in Kind PROVE Known(g, m, c)
  <2>1. CASE c = k
    <3>1. o \notin HeldSet(fr, c)
      BY <1>5, <2>1
    <3>2. HeldSet(g, c) = HeldSet(fr, c) \cup {o} /\ Inner(g, n + 1, c) = o
      BY <1>2, <1>4, <2>1
    <3>3. Cardinality(HeldSet(g, c)) = Cardinality(HeldSet(fr, c)) + 1
      <4>1. IsFiniteSet(HeldSet(fr, c))
        BY <1>5
      <4>2. Cardinality(HeldSet(fr, c) \cup {o}) = Cardinality(HeldSet(fr, c)) + 1
        BY <3>1, <4>1, FS_AddElement
      <4> QED
        BY <3>2, <4>2
    <3>4. \A i \in 1..n : Held(g[i])[c] # o
      BY <1>2, <1>4, <3>1 DEF HeldSet
    <3>5. \A i, j \in 1..(n + 1) : Held(g[i])[c] # Null /\ Held(g[i])[c] = Held(g[j])[c]
              => i = j
      BY <1>2, <1>3, <1>4, <2>1, <3>4 DEF Whole, Known
    <3> QED
      BY <1>2, <1>5, <1>6, <2>1, <3>2, <3>3, <3>5, ZenonT(40) DEF Known
  <2>2. CASE c # k
    <3>1. HeldSet(g, c) = HeldSet(fr, c) /\ Inner(g, n + 1, c) = Inner(fr, n, c)
      <4>1. Held(f)[c] = Null /\ {Held(f)[c]} \ {Null} = {}
        BY <1>4, <2>2
      <4> QED
        BY <1>2, <4>1
    <3>2. \A i \in 1..(n + 1) : Held(g[i])[c] # Null => i \in 1..n
      BY <1>2, <1>3, <1>4, <2>2
    <3>3. \A i, j \in 1..(n + 1) : Held(g[i])[c] # Null /\ Held(g[i])[c] = Held(g[j])[c]
              => i = j
      BY <1>2, <3>2, SMTT(30) DEF Whole, Known
    <3> QED
      BY <1>2, <1>5, <1>6, <2>2, <3>1, <3>3, ZenonT(40) DEF Known
  <2> QED
    BY <2>1, <2>2
<1> QED
  BY <1>2, <1>6, <1>7, <1>8, <1>9, <1>10 DEF Whole, g, m

LEMMA Prefix ==
  ASSUME NEW S, NEW s \in Seq(S), NEW n \in Nat, n <= Len(s)
  PROVE  /\ SubSeq(s, 1, n) \in Seq(S) /\ Len(SubSeq(s, 1, n)) = n
         /\ \A i \in 1..n : SubSeq(s, 1, n)[i] = s[i]
  OBVIOUS

LEMMA FrontFrame ==
  ASSUME NEW fr \in Seq(Frame), fr # <<>>
  PROVE  /\ Front(fr) \in Seq(Frame) /\ Len(Front(fr)) = Len(fr) - 1
         /\ Len(fr) \in Nat \ {0} /\ Len(fr) - 1 \in Nat
         /\ Last(fr) = fr[Len(fr)] /\ Last(fr) \in Frame
         /\ \A i \in 1..(Len(fr) - 1) : Front(fr)[i] = fr[i]
         /\ \A k : \A n \in 0..(Len(fr) - 1) : Inner(Front(fr), n, k) = Inner(fr, n, k)
         /\ \A k : HeldSet(fr, k)
                   = HeldSet(Front(fr), k) \cup ({Held(fr[Len(fr)])[k]} \ {Null})
<1> DEFINE g == Front(fr)
           n == Len(fr)
<1>1. g \in Seq(Frame) /\ Len(g) = n - 1 /\ n \in Nat \ {0} /\ n - 1 \in Nat
      /\ Last(fr) = fr[n] /\ fr[n] \in Frame /\ \A i \in 1..(n - 1) : g[i] = fr[i]
  <2>1. n \in Nat \ {0}
    OBVIOUS
  <2>2. n - 1 \in Nat /\ \A i \in 1..(n - 1) : i \in 1..n
    BY <2>1
  <2>3. Last(fr) = fr[n] /\ fr[n] \in Frame
    BY <2>1 DEF Last
  <2>4. g \in Seq(Frame) /\ Len(g) = n - 1 /\ \A i \in 1..(n - 1) : g[i] = fr[i]
    <3>1. n - 1 <= Len(fr) /\ g = SubSeq(fr, 1, n - 1)
      BY <2>1 DEF Front
    <3> HIDE DEF g, n
    <3> QED
      BY <2>2, <3>1, Prefix
  <2> QED
    BY <2>1, <2>2, <2>3, <2>4
<1> HIDE DEF g
<1>2. ASSUME NEW m \in 0..(n - 1), NEW k PROVE Inner(g, m, k) = Inner(fr, m, k)
  <2>1. m \in Nat /\ \A i \in 1..m : Held(g[i])[k] = Held(fr[i])[k]
    BY <1>1
  <2> QED
    BY <2>1, InnerSame
<1>3. ASSUME NEW k PROVE HeldSet(fr, k) = HeldSet(g, k) \cup ({Held(fr[n])[k]} \ {Null})
  <2>1. \A i \in 1..n : i = n \/ i \in 1..(n - 1)
    BY <1>1
  <2>2. n \in 1..n /\ \A i \in 1..(n - 1) : i \in 1..n
    BY <1>1
  <2> QED
    BY <1>1, <2>1, <2>2 DEF HeldSet
<1> QED
  BY <1>1, <1>2, <1>3 DEF g

\* What holds of all engines holds of all but the last.
LEMMA FrontEngines ==
  ASSUME NEW fr, NEW in, Whole(fr, in), fr # <<>>
  PROVE  /\ Front(fr) \in Seq(Frame) /\ Engines(Front(fr)) /\ Nested(Front(fr))
         /\ PickKnown(Front(fr), in)
<1> DEFINE g == Front(fr)
           n == Len(fr)
<1>1. fr \in Seq(Frame)
  BY DEF Whole
<1>2. /\ g \in Seq(Frame) /\ Len(g) = n - 1 /\ n \in Nat \ {0} /\ n - 1 \in Nat
      /\ \A i \in 1..(n - 1) : g[i] = fr[i]
      /\ \A k : \A m \in 0..(n - 1) : Inner(g, m, k) = Inner(fr, m, k)
  BY <1>1, FrontFrame
<1> HIDE DEF g
<1>3. Engines(g)
  <2> SUFFICES ASSUME NEW i \in 1..(n - 1)
               PROVE  /\ g[i].kind \in Kind =>
                             g[i].obj # Null /\ g[i].saved = Inner(g, i - 1, g[i].kind)
                      /\ g[i].kind \notin Kind => g[i].obj = Null
                      /\ g[i].aux # Null => g[i].kind = "pick" /\ g[i].stage = "run"
                      /\ g[i].stage = "failed" => g[i].kind \in Kind
                      /\ g[i].stage = "ending" => g[i].kind = "form"
    BY <1>2 DEF Engines
  <2>1. i - 1 \in 0..(n - 1) /\ i \in 1..n
    BY <1>2
  <2> QED
    BY <1>2, <2>1 DEF Whole, Engines
<1>4. Nested(g) /\ PickKnown(g, in)
  <2>1. \A i \in 1..(n - 1) : i \in 1..n /\ \A j \in 1..(i - 1) : j \in 1..(n - 1)
    BY <1>2
  <2> QED
    BY <1>2, <2>1 DEF Whole, Nested, PickKnown
<1> QED
  BY <1>2, <1>3, <1>4 DEF g

\* No structure belongs to two of them.
LEMMA KnownFront ==
  ASSUME NEW fr, NEW in, Whole(fr, in), fr # <<>>, NEW k \in Kind
  PROVE  \A i, j \in 1..(Len(fr) - 1) :
             Held(Front(fr)[i])[k] # Null /\ Held(Front(fr)[i])[k] = Held(Front(fr)[j])[k]
             => i = j
<1>1. fr \in Seq(Frame)
  BY DEF Whole
<1>2. \A i \in 1..(Len(fr) - 1) : i \in 1..Len(fr) /\ Front(fr)[i] = fr[i]
  BY <1>1, FrontFrame
<1> QED
  BY <1>2 DEF Whole, Known

\* A message, the key test or a child ends.
LEMMA PopWhole ==
  ASSUME NEW fr, NEW in, Whole(fr, in), fr # <<>>, Last(fr).kind \notin Kind
  PROVE  Whole(Front(fr), in)
<1> DEFINE g == Front(fr)
           n == Len(fr)
<1>1. fr \in Seq(Frame) /\ in \in InitStruct
  BY DEF Whole
<1>2. /\ g \in Seq(Frame) /\ Len(g) = n - 1 /\ n \in Nat \ {0} /\ n - 1 \in Nat
      /\ \A i \in 1..(n - 1) : g[i] = fr[i]
      /\ \A k : \A m \in 0..(n - 1) : Inner(g, m, k) = Inner(fr, m, k)
      /\ \A k : HeldSet(fr, k) = HeldSet(g, k) \cup ({Held(fr[n])[k]} \ {Null})
      /\ Last(fr) = fr[n]
  BY <1>1, FrontFrame
<1>3. Engines(g) /\ Nested(g) /\ PickKnown(g, in)
  BY FrontEngines
<1> HIDE DEF g
<1>4. \A k \in Kind : Held(fr[n])[k] = Null
  <2>1. fr[n].obj = Null /\ fr[n].aux = Null /\ fr[n].kind \notin Kind
    <3>1. n \in 1..n
      BY <1>2
    <3> QED
      BY <1>2, <3>1 DEF Whole, Engines, Kind
  <2> QED
    BY <2>1, HeldIs
<1>5. ASSUME NEW k \in Kind PROVE Known(g, in, k)
  <2>1. HeldSet(fr, k) = HeldSet(g, k)
    <3>1. {Held(fr[n])[k]} \ {Null} = {}
      BY <1>4
    <3> QED
      BY <1>2, <3>1
  <2>2. Inner(fr, n, k) = Inner(g, n - 1, k)
    <3>1. Inner(fr, n, k) = Inner(fr, n - 1, k)
      BY <1>2, <1>4, InnerLast
    <3>2. n - 1 \in 0..(n - 1)
      BY <1>2
    <3> QED
      BY <1>2, <3>1, <3>2
  <2>3. \A i, j \in 1..(n - 1) : Held(g[i])[k] # Null /\ Held(g[i])[k] = Held(g[j])[k]
            => i = j
    BY KnownFront DEF g
  <2> QED
    BY <1>2, <2>1, <2>2, <2>3 DEF Whole, Known
<1> QED
  BY <1>1, <1>2, <1>3, <1>5 DEF Whole, g

\* The structure of kind k is destroyed; p is put in its place.
Unmade(in, k, p) ==
    [in EXCEPT !.ptr[k] = p, !.cnt[k] = @ - 1, !.live[k] = @ \ {in.ptr[k]}]

\* An engine of kind k, that has no preview, ends.
LEMMA EndWhole ==
  ASSUME NEW fr, NEW in, Whole(fr, in), fr # <<>>, NEW k \in Kind, Last(fr).kind = k,
         Last(fr).aux = Null
  PROVE  /\ in.ptr[k] = Last(fr).obj /\ in.ptr[k] # Null
         /\ k = "pick" => in.pick = in.ptr[k]
         /\ Whole(Front(fr), Unmade(in, k, Last(fr).saved))
<1> DEFINE g == Front(fr)
           n == Len(fr)
           f == fr[n]
           m == Unmade(in, k, Last(fr).saved)
<1>1. fr \in Seq(Frame) /\ in \in InitStruct
  BY DEF Whole
<1>2. /\ g \in Seq(Frame) /\ Len(g) = n - 1 /\ n \in Nat \ {0} /\ n - 1 \in Nat
      /\ \A i \in 1..(n - 1) : g[i] = fr[i]
      /\ \A c : \A j \in 0..(n - 1) : Inner(g, j, c) = Inner(fr, j, c)
      /\ \A c : HeldSet(fr, c) = HeldSet(g, c) \cup ({Held(f)[c]} \ {Null})
      /\ Last(fr) = f /\ f \in Frame /\ n \in 1..n
  BY <1>1, FrontFrame
<1>3. Engines(g) /\ Nested(g) /\ PickKnown(g, in)
  BY FrontEngines
<1> HIDE DEF g, f
<1>4. /\ f.kind = k /\ f.obj # Null /\ f.obj \in Id /\ f.aux = Null
      /\ f.saved = Inner(g, n - 1, k) /\ f.saved \in Id \cup {Null}
  <2>1. f.obj # Null /\ f.saved = Inner(fr, n - 1, k)
    BY <1>2 DEF Whole, Engines, f
  <2>2. n - 1 \in 0..(n - 1)
    BY <1>2
  <2> QED
    BY <1>2, <2>1, <2>2 DEF Frame
<1>5. Held(f)[k] = f.obj /\ \A c \in Kind : c # k => Held(f)[c] = Null
  BY <1>4, HeldIs
<1>6. \A c \in Kind : Inner(fr, n, c) = IF c = k THEN f.obj ELSE Inner(g, n - 1, c)
  <2> SUFFICES ASSUME NEW c \in Kind
               PROVE  Inner(fr, n, c) = IF c = k THEN f.obj ELSE Inner(g, n - 1, c)
    OBVIOUS
  <2>1. Inner(fr, n, c) = IF Held(f)[c] # Null THEN Held(f)[c] ELSE Inner(fr, n - 1, c)
    BY <1>2, InnerLast DEF f
  <2>2. n - 1 \in 0..(n - 1)
    BY <1>2
  <2> QED
    BY <1>2, <1>4, <1>5, <2>1, <2>2
<1>7. \A c \in Kind : /\ in.ptr[c] = Inner(fr, n, c) /\ in.live[c] = HeldSet(fr, c)
                      /\ in.cnt[c] = Cardinality(HeldSet(fr, c))
                      /\ IsFiniteSet(HeldSet(fr, c)) /\ Cardinality(HeldSet(fr, c)) \in Nat
  BY <1>1, HeldSetType DEF Whole, Known
<1>8. in.ptr[k] = f.obj
  BY <1>6, <1>7
<1>9. k = "pick" => in.pick = f.obj
  BY <1>2, <1>4 DEF Whole, PickKnown, f
<1>10. f.obj \in HeldSet(fr, k) /\ HeldSet(g, k) = HeldSet(fr, k) \ {f.obj}
  <2>1. {Held(f)[k]} \ {Null} = {f.obj}
    BY <1>4, <1>5
  <2>2. \A i \in 1..(n - 1) : Held(g[i])[k] # f.obj
    <3>1. \A i \in 1..(n - 1) : i \in 1..n /\ i # n
      BY <1>2
    <3> QED
      BY <1>2, <1>4, <1>5, <3>1, SMTT(40) DEF Whole, Known, f
  <2>3. f.obj \notin HeldSet(g, k)
    BY <1>2, <2>2 DEF HeldSet
  <2>4. HeldSet(fr, k) = HeldSet(g, k) \cup {f.obj}
    BY <1>2, <2>1
  <2> QED
    BY <2>3, <2>4
<1>11. Cardinality(HeldSet(g, k)) = Cardinality(HeldSet(fr, k)) - 1
       /\ Cardinality(HeldSet(g, k)) \in Nat
  <2>1. IsFiniteSet(HeldSet(fr, k))
    BY <1>7
  <2>2. Cardinality(HeldSet(fr, k) \ {f.obj}) = Cardinality(HeldSet(fr, k)) - 1
    BY <1>10, <2>1, FS_RemoveElement
  <2> QED
    BY <1>2, <1>10, <2>2, HeldSetType
<1>12. /\ \A c \in Kind :
              /\ m.ptr[c] = (IF c = k THEN f.saved ELSE in.ptr[c])
              /\ m.cnt[c] = (IF c = k THEN in.cnt[c] - 1 ELSE in.cnt[c])
              /\ m.live[c] = (IF c = k THEN in.live[c] \ {f.obj} ELSE in.live[c])
       /\ m.pick = in.pick
       /\ m \in InitStruct
  <2>1. in.cnt[k] - 1 \in 0..(MaxFrames + 1)
    <3>1. in.cnt[k] \in 0..(MaxFrames + 1)
      BY <1>1 DEF InitStruct
    <3> QED
      BY <1>7, <1>11, <3>1, SessionAssumption
  <2> QED
    BY <1>1, <1>2, <1>4, <1>8, <2>1 DEF Unmade, InitStruct
<1> HIDE DEF m
<1>13. ASSUME NEW c \in Kind PROVE Known(g, m, c)
  <2>3. \A i, j \in 1..(n - 1) : Held(g[i])[c] # Null /\ Held(g[i])[c] = Held(g[j])[c]
            => i = j
    BY KnownFront DEF g
  <2>1. CASE c = k
    BY <1>2, <1>4, <1>7, <1>10, <1>11, <1>12, <2>1, <2>3 DEF Known
  <2>2. CASE c # k
    <3>1. HeldSet(fr, c) = HeldSet(g, c)
      <4>1. {Held(f)[c]} \ {Null} = {}
        BY <1>5, <2>2
      <4> QED
        BY <1>2, <4>1
    <3>2. /\ m.ptr[c] = Inner(g, n - 1, c) /\ m.live[c] = HeldSet(g, c)
          /\ m.cnt[c] = Cardinality(HeldSet(g, c))
      BY <1>6, <1>7, <1>12, <2>2, <3>1
    <3> QED
      BY <1>2, <2>3, <3>2 DEF Known
  <2> QED
    BY <2>1, <2>2
<1>14. PickKnown(g, m)
  BY <1>3, <1>12 DEF PickKnown
<1> QED
  BY <1>2, <1>3, <1>4, <1>8, <1>9, <1>12, <1>13, <1>14 DEF Whole, g, m

-----------------------------------------------------------------------------
(* What the calls of a handler leave of the world, field by field. *)

Path == {"shutdown", "ckeys", "formdesc", "maxwin", "exit"}
Status == {"running", "exited", "killed", "crashed"}

WorldStruct ==
    [frames : Seq(Frame), init : InitStruct, tm : TermStruct, lost : SUBSET Path,
     status : Status]

\* Only the calls, only the terminal may differ.
FramesOnly(v, w) ==
    /\ v \in WorldStruct /\ v.init = w.init /\ v.tm = w.tm /\ v.lost = w.lost
    /\ v.status = w.status
TermOnly(v, w) ==
    /\ v \in WorldStruct /\ v.frames = w.frames /\ v.init = w.init /\ v.lost = w.lost
    /\ v.status = w.status

\* Signals and modes: the windows stay as they are.
Modal(u, t) ==
    /\ u \in TermStruct /\ u.ui_surface = t.ui_surface /\ u.live = t.live
    /\ u.f_curses_open = t.f_curses_open

LEMMA ModesAre ==
  ASSUME NEW t \in TermStruct
  PROVE  /\ Modal(SigProgMode(t), t) /\ SigProgMode(t).handlers = "program"
         /\ SigProgMode(t).tty = t.tty
         /\ Modal(SigDflMode(t), t) /\ SigDflMode(t).handlers = "default"
         /\ SigDflMode(t).tty = t.tty
         /\ Modal(RestoreShell(t), t) /\ RestoreShell(t).handlers = t.handlers
         /\ RestoreShell(t).tty = "shell"
         /\ Modal(RestoreCurses(t), t) /\ RestoreCurses(t).handlers = t.handlers
         /\ RestoreCurses(t).tty = "curses"
         /\ Modal(UiResume(t), t) /\ UiResume(t).handlers = t.handlers
         /\ UiResume(t).tty = IF t.f_curses_open THEN "curses" ELSE t.tty
<1>1. /\ Modal(SigProgMode(t), t) /\ SigProgMode(t).handlers = "program"
      /\ SigProgMode(t).tty = t.tty
  BY DEF Modal, SigProgMode, TermStruct
<1>2. /\ Modal(SigDflMode(t), t) /\ SigDflMode(t).handlers = "default"
      /\ SigDflMode(t).tty = t.tty
  BY DEF Modal, SigDflMode, TermStruct
<1>3. /\ Modal(RestoreShell(t), t) /\ RestoreShell(t).handlers = t.handlers
      /\ RestoreShell(t).tty = "shell"
  BY DEF Modal, RestoreShell, TermStruct
<1>4. /\ Modal(RestoreCurses(t), t) /\ RestoreCurses(t).handlers = t.handlers
      /\ RestoreCurses(t).tty = "curses"
  BY DEF Modal, RestoreCurses, TermStruct
<1>5. Modal(t, t)
  BY DEF Modal
<1> QED
  BY <1>1, <1>2, <1>3, <1>4, <1>5 DEF UiResume

\* The calls that end the screen.
LEMMA ShutdownIs ==
  ASSUME NEW t \in TermStruct
  PROVE  /\ UiShutdown(t) \in TermStruct
         /\ UiShutdown(t).ui_surface = <<>> /\ ~UiShutdown(t).f_curses_open
         /\ UiShutdown(t).live = t.live \ ToSet(t.ui_surface)
         /\ UiShutdown(t).handlers = t.handlers /\ UiShutdown(t).tty = t.tty
<1>1. <<>> \in Seq(Surface) /\ t.live \ ToSet(t.ui_surface) \in SUBSET Surface
  BY DEF TermStruct
<1> QED
  BY <1>1 DEF UiShutdown, TermStruct

LEMMA DestroyCursesIs ==
  ASSUME NEW t \in TermStruct
  PROVE  /\ DestroyCurses(t) \in TermStruct /\ ~DestroyCurses(t).f_curses_open
         /\ DestroyCurses(t).ui_surface = IF t.f_curses_open THEN <<>> ELSE t.ui_surface
         /\ t.f_curses_open => /\ DestroyCurses(t).live = t.live \ ToSet(t.ui_surface)
                               /\ DestroyCurses(t).tty = "shell"
                               /\ DestroyCurses(t).handlers = "default"
<1> DEFINE u == UiShutdown(t)
           v == RestoreShell(u)
<1>1. u \in TermStruct /\ u.ui_surface = <<>> /\ ~u.f_curses_open
      /\ u.live = t.live \ ToSet(t.ui_surface)
  BY ShutdownIs
<1> HIDE DEF u
<1>2. /\ v \in TermStruct /\ v.ui_surface = <<>> /\ ~v.f_curses_open /\ v.live = u.live
      /\ v.tty = "shell"
  BY <1>1, ModesAre DEF Modal
<1> HIDE DEF v
<1>3. /\ SigDflMode(v) \in TermStruct /\ SigDflMode(v).ui_surface = <<>>
      /\ ~SigDflMode(v).f_curses_open /\ SigDflMode(v).live = u.live
      /\ SigDflMode(v).tty = "shell" /\ SigDflMode(v).handlers = "default"
  BY <1>2, ModesAre DEF Modal
<1>4. DestroyCurses(t) = IF t.f_curses_open THEN SigDflMode(v) ELSE t
  BY DEF DestroyCurses, u, v
<1> QED
  BY <1>1, <1>3, <1>4 DEF TermStruct

LEMMA AbendedIs ==
  ASSUME NEW t \in TermStruct
  PROVE  /\ Abended(t) \in TermStruct /\ ~Abended(t).f_curses_open
         /\ Abended(t).ui_surface = IF t.f_curses_open THEN <<>> ELSE t.ui_surface
         /\ Abended(t).tty = "shell" /\ Abended(t).handlers = "default"
         /\ t.f_curses_open => Abended(t).live = t.live \ ToSet(t.ui_surface)
<1> DEFINE u == DestroyCurses(t)
           v == RestoreShell(u)
<1>1. /\ u \in TermStruct /\ ~u.f_curses_open
      /\ u.ui_surface = IF t.f_curses_open THEN <<>> ELSE t.ui_surface
      /\ t.f_curses_open => u.live = t.live \ ToSet(t.ui_surface)
  BY DestroyCursesIs
<1> HIDE DEF u
<1>2. /\ v \in TermStruct /\ v.ui_surface = u.ui_surface /\ ~v.f_curses_open
      /\ v.live = u.live /\ v.tty = "shell"
  BY <1>1, ModesAre DEF Modal
<1> HIDE DEF v
<1>3. /\ SigDflMode(v) \in TermStruct /\ SigDflMode(v).ui_surface = u.ui_surface
      /\ ~SigDflMode(v).f_curses_open /\ SigDflMode(v).live = u.live
      /\ SigDflMode(v).tty = "shell" /\ SigDflMode(v).handlers = "default"
  BY <1>1, <1>2, ModesAre DEF Modal
<1> QED
  BY <1>1, <1>3 DEF Abended, u, v

\* The surface on top is destroyed; any other is left alone.
LEMMA CloseIs ==
  ASSUME NEW t \in TermStruct, NEW s
  PROVE  LET u == CmSurfaceDestroy(t, s)
             n == Len(t.ui_surface)
         IN  /\ u \in TermStruct /\ u.f_curses_open = t.f_curses_open
             /\ u.handlers = t.handlers /\ u.tty = t.tty
             /\ \/ u = t /\ (t.ui_surface = <<>> \/ s # t.ui_surface[n])
                \/ /\ n \in Nat \ {0} /\ t.ui_surface[n] = s /\ u.live = t.live \ {s}
                   /\ Len(u.ui_surface) = n - 1
                   /\ \A i \in 1..(n - 1) : u.ui_surface[i] = t.ui_surface[i]
<1> DEFINE u == CmSurfaceDestroy(t, s)
           ui == t.ui_surface
           n == Len(ui)
<1>1. ui \in Seq(Surface) /\ n \in Nat
  BY DEF TermStruct
<1>2. CASE ui = <<>>
  BY <1>2 DEF CmSurfaceDestroy
<1>3. CASE ui # <<>>
  <2>1. n \in Nat \ {0} /\ Top(t) = ui[n] /\ n - 1 \in Nat /\ n - 1 <= n
    BY <1>1, <1>3 DEF Top, Last
  <2>2. CASE ui[n] # s
    BY <1>3, <2>1, <2>2 DEF CmSurfaceDestroy
  <2>3. CASE ui[n] = s
    <3>1. Front(ui) \in Seq(Surface) /\ Len(Front(ui)) = n - 1
          /\ \A i \in 1..(n - 1) : Front(ui)[i] = ui[i]
      BY <1>1, <2>1, Prefix DEF Front
    <3>2. u = [SurfaceDestroy(t, s) EXCEPT !.ui_surface = Front(@)]
      BY <1>3, <2>1, <2>3 DEF CmSurfaceDestroy
    <3>3. /\ SurfaceDestroy(t, s) \in TermStruct /\ SurfaceDestroy(t, s).ui_surface = ui
          /\ SurfaceDestroy(t, s).live = t.live \ {s}
          /\ SurfaceDestroy(t, s).f_curses_open = t.f_curses_open
          /\ SurfaceDestroy(t, s).handlers = t.handlers /\ SurfaceDestroy(t, s).tty = t.tty
      BY DEF SurfaceDestroy, TermStruct
    <3>4. /\ u \in TermStruct /\ u.f_curses_open = t.f_curses_open
          /\ u.handlers = t.handlers /\ u.tty = t.tty
          /\ u.live = t.live \ {s} /\ u.ui_surface = Front(ui)
      <4> HIDE DEF ui, n, u
      <4>1. \A x \in TermStruct : x.ui_surface = ui =>
                [x EXCEPT !.ui_surface = Front(@)] = [x EXCEPT !.ui_surface = Front(ui)]
        OBVIOUS
      <4> QED
        BY <3>1, <3>2, <3>3 DEF TermStruct
    <3> QED
      BY <2>1, <2>3, <3>1, <3>4
  <2> QED
    BY <2>2, <2>3
<1> QED
  BY <1>2, <1>3

LEMMA BoxWinNewIs ==
  ASSUME NEW t \in TermStruct, FreeSurface(t) \in Surface
  PROVE  /\ Allocated(t) \in TermStruct
         /\ Allocated(t).live = t.live \cup {FreeSurface(t)}
         /\ Allocated(t).ui_surface = t.ui_surface
         /\ BoxWinNew(t) \in TermStruct
         /\ BoxWinNew(t).live = t.live \cup {FreeSurface(t)}
         /\ BoxWinNew(t).ui_surface = Append(t.ui_surface, FreeSurface(t))
         /\ \A u \in {Allocated(t), BoxWinNew(t)} :
                /\ u.f_curses_open = t.f_curses_open /\ u.handlers = t.handlers
                /\ u.tty = t.tty
<1> DEFINE s == FreeSurface(t)
           ui == t.ui_surface
<1>1. s \in Surface /\ ui \in Seq(Surface) /\ Append(ui, s) \in Seq(Surface)
      /\ t.live \cup {s} \in SUBSET Surface
  BY DEF TermStruct
<1> HIDE DEF s
<1>2. /\ Allocated(t) \in TermStruct /\ Allocated(t).live = t.live \cup {s}
      /\ Allocated(t).ui_surface = ui /\ Allocated(t).f_curses_open = t.f_curses_open
      /\ Allocated(t).handlers = t.handlers /\ Allocated(t).tty = t.tty
  BY <1>1 DEF Allocated, TermStruct, s
<1> HIDE DEF ui
<1>3. BoxWinNew(t) = [Allocated(t) EXCEPT !.ui_surface = Append(ui, s)]
  BY <1>2 DEF BoxWinNew, s, TermStruct
<1>4. /\ BoxWinNew(t) \in TermStruct /\ BoxWinNew(t).live = t.live \cup {s}
      /\ BoxWinNew(t).ui_surface = Append(ui, s)
      /\ BoxWinNew(t).f_curses_open = t.f_curses_open
      /\ BoxWinNew(t).handlers = t.handlers /\ BoxWinNew(t).tty = t.tty
  BY <1>1, <1>2, <1>3 DEF TermStruct
<1> QED
  BY <1>2, <1>4 DEF s, ui

LEMMA PushIs ==
  ASSUME NEW w \in WorldStruct, NEW f \in Frame
  PROVE  FramesOnly(Push(w, f), w) /\ Push(w, f).frames = Append(w.frames, f)
<1>1. Append(w.frames, f) \in Seq(Frame)
  BY DEF WorldStruct
<1> QED
  BY <1>1 DEF Push, WorldStruct, FramesOnly

LEMMA PopIs ==
  ASSUME NEW w \in WorldStruct, w.frames # <<>>
  PROVE  FramesOnly(Pop(w), w) /\ Pop(w).frames = Front(w.frames)
<1>1. Front(w.frames) \in Seq(Frame)
  BY FrontFrame DEF WorldStruct
<1> QED
  BY <1>1 DEF Pop, WorldStruct, FramesOnly

LEMMA StageIs ==
  ASSUME NEW w \in WorldStruct, w.frames # <<>>, NEW x \in {"run", "failed", "ending"}
  PROVE  LET v == Stage(w, x)
             n == Len(w.frames)
         IN  /\ FramesOnly(v, w) /\ Len(v.frames) = n
             /\ \A i \in 1..(n - 1) : v.frames[i] = w.frames[i]
             /\ v.frames[n] = [w.frames[n] EXCEPT !.stage = x]
<1> DEFINE fr == w.frames
           n == Len(fr)
           f == [fr[n] EXCEPT !.stage = x]
<1>1. fr \in Seq(Frame) /\ n \in Nat \ {0} /\ fr[n] \in Frame /\ n \in 1..n
  BY FrontFrame DEF WorldStruct
<1>2. f \in Frame
  BY <1>1 DEF Frame
<1>3. Stage(w, x) = [w EXCEPT !.frames = [fr EXCEPT ![n] = f]]
  BY DEF Stage, WorldStruct
<1> HIDE DEF fr, n, f
<1>4. [fr EXCEPT ![n] = f] \in Seq(Frame) /\ Len([fr EXCEPT ![n] = f]) = n
      /\ [fr EXCEPT ![n] = f][n] = f
      /\ \A i \in 1..(n - 1) : [fr EXCEPT ![n] = f][i] = fr[i]
  BY <1>1, <1>2 DEF n
<1>5. /\ FramesOnly(Stage(w, x), w) /\ Stage(w, x).frames = [fr EXCEPT ![n] = f]
  BY <1>3, <1>4 DEF WorldStruct, FramesOnly
<1> QED
  BY <1>4, <1>5 DEF fr, n, f

LEMMA LosingIs ==
  ASSUME NEW w \in WorldStruct, NEW p \in Path
  PROVE  LET v == Losing(w, p)
         IN  /\ v \in WorldStruct /\ v.frames = w.frames /\ v.init = w.init
             /\ v.tm = w.tm /\ v.status = w.status /\ v.lost = w.lost \cup {p}
<1>1. w.lost \cup {p} \in SUBSET Path
  BY DEF WorldStruct
<1> QED
  BY <1>1 DEF Losing, WorldStruct

LEMMA CrashedIs ==
  ASSUME NEW w \in WorldStruct
  PROVE  LET v == Crashed(w)
         IN  /\ v \in WorldStruct /\ v.frames = w.frames /\ v.init = w.init
             /\ v.tm = w.tm /\ v.status = "crashed" /\ v.lost = w.lost
  BY DEF Crashed, WorldStruct, Status

LEMMA AbendIs ==
  ASSUME NEW w \in WorldStruct
  PROVE  LET v == Abend(w)
         IN  /\ v \in WorldStruct /\ v.frames = w.frames /\ v.init = w.init
             /\ v.tm = Abended(w.tm) /\ v.status = "exited" /\ v.lost = w.lost
<1>1. Abended(w.tm) \in TermStruct
  BY AbendedIs DEF WorldStruct
<1> QED
  BY <1>1 DEF Abend, WorldStruct, Status

LEMMA TermIs ==
  ASSUME NEW w \in WorldStruct, NEW t \in TermStruct
  PROVE  TermOnly([w EXCEPT !.tm = t], w) /\ [w EXCEPT !.tm = t].tm = t
  BY DEF TermOnly, WorldStruct

LEMMA ExitNowIs ==
  ASSUME NEW w \in WorldStruct
  PROVE  LET v == ExitNow(w)
         IN  /\ v \in WorldStruct /\ v.frames = w.frames /\ v.init = w.init
             /\ v.tm = (IF w.tm.f_curses_open THEN UiShutdown(w.tm) ELSE w.tm)
             /\ v.status = "exited" /\ v.lost = w.lost \cup {"exit"}
<1> DEFINE u == Losing(w, "exit")
           t == IF w.tm.f_curses_open THEN UiShutdown(w.tm) ELSE w.tm
<1>1. /\ u \in WorldStruct /\ u.frames = w.frames /\ u.init = w.init
      /\ u.tm = w.tm /\ u.status = w.status /\ u.lost = w.lost \cup {"exit"}
  BY LosingIs DEF Path
<1>2. t \in TermStruct
  BY ShutdownIs DEF WorldStruct
<1>3. ExitNow(w) = [u EXCEPT !.tm = IF @.f_curses_open THEN UiShutdown(@) ELSE @,
                             !.status = "exited"]
  BY DEF ExitNow
<1> HIDE DEF u
<1>4. ExitNow(w) = [u EXCEPT !.tm = t, !.status = "exited"]
  BY <1>1, <1>3 DEF WorldStruct
<1> HIDE DEF t
<1>5. /\ ExitNow(w) \in WorldStruct /\ ExitNow(w).frames = u.frames
      /\ ExitNow(w).init = u.init /\ ExitNow(w).tm = t
      /\ ExitNow(w).status = "exited" /\ ExitNow(w).lost = u.lost
  BY <1>1, <1>2, <1>4 DEF WorldStruct, Status
<1> QED
  BY <1>1, <1>5 DEF t

LEMMA CloseTopIs ==
  ASSUME NEW w \in WorldStruct, NEW s
  PROVE  TermOnly(CloseTop(w, s), w) /\ CloseTop(w, s).tm = CmSurfaceDestroy(w.tm, s)
<1>1. CmSurfaceDestroy(w.tm, s) \in TermStruct
  BY CloseIs DEF WorldStruct
<1> QED
  BY <1>1 DEF CloseTop, WorldStruct, TermOnly

LEMMA FreeIs ==
  ASSUME NEW w \in WorldStruct, NEW s
  PROVE  /\ TermOnly(Free(w, s), w) /\ Free(w, s).tm = SurfaceDestroy(w.tm, s)
         /\ Free(w, s).tm.ui_surface = w.tm.ui_surface
         /\ Free(w, s).tm.live = w.tm.live \ {s}
         /\ Free(w, s).tm.f_curses_open = w.tm.f_curses_open
         /\ Free(w, s).tm.handlers = w.tm.handlers /\ Free(w, s).tm.tty = w.tm.tty
<1> DEFINE t == SurfaceDestroy(w.tm, s)
<1>1. /\ t \in TermStruct /\ t.ui_surface = w.tm.ui_surface /\ t.live = w.tm.live \ {s}
      /\ t.f_curses_open = w.tm.f_curses_open /\ t.handlers = w.tm.handlers
      /\ t.tty = w.tm.tty
  BY DEF SurfaceDestroy, TermStruct, WorldStruct
<1>2. TermOnly(Free(w, s), w) /\ Free(w, s).tm = t
  <2> HIDE DEF t
  <2> QED
    BY <1>1 DEF Free, WorldStruct, TermOnly, t
<1> QED
  BY <1>1, <1>2

\* A box is opened: a window more, or the end of them.
LEMMA OpenBoxIs ==
  ASSUME NEW w \in WorldStruct, NEW f \in Frame, FreeSurface(w.tm) \in Surface
  PROVE  LET v == OpenBox(w, f)
             s == FreeSurface(w.tm)
         IN  /\ v \in WorldStruct /\ v.init = w.init
             /\ v.lost = w.lost \/ v.lost = w.lost \cup {"maxwin"}
             /\ \/ /\ v.status = "crashed" /\ v.frames = w.frames /\ v.tm = w.tm
                   /\ "maxwin" \in v.lost /\ Len(w.tm.ui_surface) > MaxWin
                \/ /\ v.status = w.status /\ v.tm = BoxWinNew(w.tm)
                   /\ v.frames = Append(w.frames, [f EXCEPT !.box = s])
                   /\ Len(w.tm.ui_surface) <= MaxWin
                   /\ Len(w.tm.ui_surface) = MaxWin => "maxwin" \in v.lost
                   /\ Len(w.tm.ui_surface) < MaxWin => v.lost = w.lost
<1> DEFINE s == FreeSurface(w.tm)
           g == [f EXCEPT !.box = s]
           n == Len(w.tm.ui_surface)
<1>1. g \in Frame /\ n \in Nat /\ w.tm \in TermStruct /\ "maxwin" \in Path
  BY DEF Frame, Path, WorldStruct, TermStruct
<1>2. CASE n <= MaxWin
  <2> DEFINE x == Push(w, g)
             y == IF n = MaxWin THEN Losing(x, "maxwin") ELSE x
  <2>1. FramesOnly(x, w) /\ x.frames = Append(w.frames, g)
    BY <1>1, PushIs
  <2>2. x \in WorldStruct
    BY <2>1 DEF FramesOnly
  <2> HIDE DEF x, g
  <2>3. /\ y \in WorldStruct /\ y.frames = x.frames /\ y.init = x.init
        /\ y.tm = x.tm /\ y.status = x.status
        /\ y.lost = IF n = MaxWin THEN x.lost \cup {"maxwin"} ELSE x.lost
    BY <1>1, <2>2, LosingIs
  <2>4. OpenBox(w, f) = [y EXCEPT !.tm = BoxWinNew(@)]
    BY <1>2 DEF OpenBox, WindowsLeft, x, g
  <2> HIDE DEF y
  <2>5. OpenBox(w, f) = [y EXCEPT !.tm = BoxWinNew(w.tm)]
    BY <2>1, <2>3, <2>4 DEF FramesOnly, WorldStruct
  <2>6. BoxWinNew(w.tm) \in TermStruct
    BY <1>1, BoxWinNewIs
  <2>7. TermOnly(OpenBox(w, f), y) /\ OpenBox(w, f).tm = BoxWinNew(w.tm)
    BY <2>3, <2>5, <2>6, TermIs
  <2> HIDE DEF n
  <2> QED
    BY <1>2, <2>1, <2>3, <2>7, TerminalAssumption DEF FramesOnly, TermOnly, g, n
<1>3. CASE n > MaxWin
  <2>1. OpenBox(w, f) = Crashed(Losing(w, "maxwin"))
    BY <1>1, <1>3, TerminalAssumption DEF OpenBox, WindowsLeft
  <2> QED
    BY <1>1, <1>3, <2>1, LosingIs, CrashedIs
<1> QED
  BY <1>1, <1>2, <1>3, TerminalAssumption

-----------------------------------------------------------------------------
(* Memory: there always is a structure and a surface to allocate, and mem.c  *)
(* makes and destroys what the lemmas about Whole speak of.                  *)

\* No surface is allocated that neither the stack of surfaces nor an engine has.
Leak(fr, t) ==
    \A s \in t.live :
        \/ \E i \in 1..Len(t.ui_surface) : t.ui_surface[i] = s
        \/ \E i \in 1..Len(fr) : fr[i].kind = "view" /\ fr[i].box = s
        \/ \E i \in 1..Len(fr) : fr[i].aux # Null /\ fr[i].auxbox = s

\* The length bound is reached by a message alone.
Deep(fr) ==
    Len(fr) <= MaxFrames + 1 /\ (Len(fr) = MaxFrames + 1 => Last(fr).kind = "notice")

LEMMA FreeSurfaceExists ==
  ASSUME NEW fr \in Seq(Frame), NEW t \in TermStruct, Len(fr) <= MaxFrames + 1,
         Len(t.ui_surface) <= MaxWin + 1, Leak(fr, t)
  PROVE  FreeSurface(t) \in Surface \ t.live
<1> DEFINE n == Len(fr)
           m == Len(t.ui_surface)
           b == [i \in 1..n |-> fr[i].box]
           a == [i \in 1..n |-> fr[i].auxbox]
           U == {t.ui_surface[i] : i \in 1..m}
           B == {b[i] : i \in 1..n}
           A == {a[i] : i \in 1..n}
           N == 2 * MaxFrames + MaxWin + 4
<1>1. n \in Nat /\ m \in Nat /\ MaxFrames \in Nat /\ MaxWin \in Nat /\ N \in Nat
      /\ n <= MaxFrames + 1 /\ m <= MaxWin + 1 /\ 1..N \subseteq Surface
  BY SessionAssumption, TerminalAssumption DEF TermStruct
<1>2. t.live \subseteq U \cup (B \cup A)
  BY DEF Leak
<1>3. /\ IsFiniteSet(U) /\ Cardinality(U) \in Nat /\ Cardinality(U) <= m
      /\ IsFiniteSet(B) /\ Cardinality(B) \in Nat /\ Cardinality(B) <= n
      /\ IsFiniteSet(A) /\ Cardinality(A) \in Nat /\ Cardinality(A) <= n
  BY <1>1, ImageSmall
<1> HIDE DEF n, m, U, B, A, N
<1>4. /\ IsFiniteSet(B \cup A) /\ Cardinality(B \cup A) \in Nat
      /\ Cardinality(B \cup A) <= Cardinality(B) + Cardinality(A)
  BY <1>3, UnionSmall
<1>5. /\ IsFiniteSet(U \cup (B \cup A)) /\ Cardinality(U \cup (B \cup A)) \in Nat
      /\ Cardinality(U \cup (B \cup A)) <= Cardinality(U) + Cardinality(B \cup A)
  BY <1>3, <1>4, UnionSmall
<1>6. Cardinality(U \cup (B \cup A)) < N
  BY <1>1, <1>3, <1>4, <1>5 DEF N
<1>7. Surface \ t.live # {}
  <2>1. SUFFICES ASSUME 1..N \subseteq U \cup (B \cup A) PROVE FALSE
    BY <1>1, <1>2
  <2>2. Cardinality(1..N) <= Cardinality(U \cup (B \cup A))
    BY <1>5, <2>1, FS_Subset
  <2>3. Cardinality(1..N) = N
    <3>1. Cardinality(1..N) = IF 1 > N THEN 0 ELSE N - 1 + 1
      BY <1>1, FS_Interval
    <3> QED
      BY <1>1, <3>1
  <2> QED
    BY <1>1, <1>5, <1>6, <2>2, <2>3
<1>8. Surface \ t.live \in SUBSET Nat
  BY TerminalAssumption
<1>9. \E s \in Surface \ t.live : \A r \in Surface \ t.live : s <= r
  BY <1>7, <1>8, NatMin
<1> QED
  BY <1>9 DEF FreeSurface

LEMMA FreeIdExists ==
  ASSUME NEW w \in WorldStruct, Whole(w.frames, w.init), Len(w.frames) <= MaxFrames,
         NEW k \in Kind
  PROVE  FreeId(w, k) \in Id \ w.init.live[k] /\ w.init.cnt[k] + 1 \in 0..(MaxFrames + 1)
<1> DEFINE L == w.init.live[k]
           N == MaxFrames + 1
<1>1. N \in Nat /\ N > 0 /\ MaxFrames \in Nat
  BY SessionAssumption
<1>2. L = HeldSet(w.frames, k) /\ w.init.cnt[k] = Cardinality(L) /\ w.frames \in Seq(Frame)
  BY DEF Whole, Known
<1>3. IsFiniteSet(L) /\ Cardinality(L) \in Nat /\ Cardinality(L) <= Len(w.frames)
  BY <1>2, HeldSetType
<1>4. Len(w.frames) \in Nat
  BY <1>2
<1>5. w.init.cnt[k] + 1 \in 0..N
  BY <1>1, <1>2, <1>3, <1>4
<1> HIDE DEF L
<1>6. Id \ L # {}
  <2>1. SUFFICES ASSUME 1..N \subseteq L PROVE FALSE
    BY DEF Id
  <2>2. Cardinality(1..N) <= Cardinality(L)
    BY <1>3, <2>1, FS_Subset
  <2>3. Cardinality(1..N) = IF 1 > N THEN 0 ELSE N - 1 + 1
    BY <1>1, FS_Interval
  <2> QED
    BY <1>1, <1>3, <1>4, <2>2, <2>3
<1>7. Id \ L \in SUBSET Nat
  BY DEF Id
<1>8. \E i \in Id \ L : \A j \in Id \ L : i <= j
  BY <1>6, <1>7, NatMin
<1>9. FreeId(w, k) = CHOOSE i \in Id \ L : \A j \in Id \ L : i <= j
  BY DEF FreeId, L
<1>10. FreeId(w, k) \in Id \ L
  BY <1>8, <1>9
<1> QED
  BY <1>5, <1>10 DEF L

\* The structures alone may differ.
InitOnly(v, w) ==
    /\ v \in WorldStruct /\ v.frames = w.frames /\ v.tm = w.tm /\ v.lost = w.lost
    /\ v.status = w.status

LEMMA MadeType ==
  ASSUME NEW in \in InitStruct, NEW k \in Kind, NEW o \in Id,
         in.cnt[k] + 1 \in 0..(MaxFrames + 1)
  PROVE  Made(in, k, o) \in InitStruct
<1>1. in.live[k] \cup {o} \in SUBSET Id
  BY DEF InitStruct
<1> QED
  BY <1>1 DEF Made, InitStruct

\* A structure for the engine that starts.
LEMMA NewFrameIs ==
  ASSUME NEW w \in WorldStruct, NEW k \in Kind, FreeId(w, k) \in Id,
         w.init.cnt[k] + 1 \in 0..(MaxFrames + 1)
  PROVE  LET p == NewFrame(w, k)
             o == FreeId(w, k)
         IN  /\ InitOnly(p[1], w) /\ p[1].init = Made(w.init, k, o)
             /\ p[2] = FrameOf(k, o, w.init.ptr[k]) /\ p[2] \in Frame
<1> DEFINE in == w.init
           o == FreeId(w, k)
           u == [w EXCEPT !.init.ptr[k] = Null]
           j == [in EXCEPT !.ptr[k] = Null]
           m == Made(in, k, o)
           v == New(u, k)
<1>1. in \in InitStruct /\ o \in Id /\ m \in InitStruct
  BY MadeType DEF WorldStruct
<1>2. j \in InitStruct /\ j.live = in.live /\ j.cnt = in.cnt /\ j.pick = in.pick
      /\ j.ptr = [in.ptr EXCEPT ![k] = Null]
  BY <1>1 DEF InitStruct
<1>3. u = [w EXCEPT !.init = j]
  BY DEF WorldStruct
<1> HIDE DEF j
<1>4. InitOnly(u, w) /\ u.init = j
  BY <1>2, <1>3 DEF InitOnly, WorldStruct
<1>5. FreeId(u, k) = o
  BY <1>2, <1>4 DEF FreeId
<1>6. [j EXCEPT !.ptr[k] = o, !.cnt[k] = @ + 1, !.live[k] = @ \cup {o},
                !.pick = IF k = "pick" THEN o ELSE @] = m
  <2> HIDE DEF in, o
  <2>1. \A x \in [Kind -> Id \cup {Null}] :
            [[x EXCEPT ![k] = Null] EXCEPT ![k] = o] = [x EXCEPT ![k] = o]
    OBVIOUS
  <2>2. in.ptr \in [Kind -> Id \cup {Null}]
    BY <1>1 DEF InitStruct
  <2>3. [j.ptr EXCEPT ![k] = o] = [in.ptr EXCEPT ![k] = o]
    BY <1>2, <2>1, <2>2
  <2> DEFINE q == IF k = "pick" THEN o ELSE j.pick
             x == [j EXCEPT !.ptr[k] = o, !.cnt[k] = @ + 1, !.live[k] = @ \cup {o},
                            !.pick = q]
  <2>4. /\ q \in Id \cup {Null} /\ j.cnt[k] + 1 \in 0..(MaxFrames + 1)
        /\ j.live[k] \cup {o} \in SUBSET Id /\ q = m.pick
    BY <1>1, <1>2 DEF InitStruct, Made, in, o
  <2> HIDE DEF q
  <2>5. /\ x \in InitStruct /\ x.ptr = [j.ptr EXCEPT ![k] = o]
        /\ x.cnt = [j.cnt EXCEPT ![k] = @ + 1] /\ x.pick = q
        /\ x.live = [j.live EXCEPT ![k] = @ \cup {o}]
    BY <1>1, <1>2, <2>4 DEF InitStruct, o
  <2>6. /\ m.ptr = [in.ptr EXCEPT ![k] = o] /\ m.cnt = [in.cnt EXCEPT ![k] = @ + 1]
        /\ m.live = [in.live EXCEPT ![k] = @ \cup {o}]
    BY DEF Made
  <2>7. x.ptr = m.ptr /\ x.cnt = m.cnt /\ x.live = m.live /\ x.pick = m.pick
    <3> HIDE DEF x, m
    <3> QED
      BY <1>2, <2>3, <2>4, <2>5, <2>6
  <2>8. x = m
    <3> HIDE DEF x, m
    <3> QED
      BY <1>1, <2>5, <2>7 DEF InitStruct
  <2> QED
    BY <2>8 DEF q
<1>7. v = [u EXCEPT !.init = m]
  <2>1. v = [u EXCEPT !.init.ptr[k] = o, !.init.cnt[k] = @ + 1,
                      !.init.live[k] = @ \cup {o},
                      !.init.pick = IF k = "pick" THEN o ELSE @]
    <3>1. \A a : New(a, k) = [a EXCEPT !.init.ptr[k] = FreeId(a, k), !.init.cnt[k] = @ + 1,
                                  !.init.live[k] = @ \cup {FreeId(a, k)},
                                  !.init.pick = IF k = "pick" THEN FreeId(a, k) ELSE @]
      BY DEF New
    <3> HIDE DEF u, o
    <3> QED
      BY <1>5, <3>1, Zenon
  <2>2. v = [u EXCEPT !.init = [j EXCEPT !.ptr[k] = o, !.cnt[k] = @ + 1,
                      !.live[k] = @ \cup {o}, !.pick = IF k = "pick" THEN o ELSE @]]
    <3> HIDE DEF u, v, o
    <3> QED
      BY <1>2, <1>4, <2>1, ZenonT(40) DEF InitOnly, WorldStruct, InitStruct
  <2> QED
    BY <1>6, <2>2
<1> HIDE DEF u, v
<1>8. InitOnly(v, w) /\ v.init = m
  <2> HIDE DEF m
  <2> QED
    BY <1>1, <1>4, <1>7 DEF InitOnly, WorldStruct
<1>9. v.init.ptr[k] = o
  BY <1>1, <1>8 DEF Made, InitStruct
<1>10. FrameOf(k, o, in.ptr[k]) \in Frame
  BY <1>1 DEF FrameOf, Frame, InitStruct
<1>11. NewFrame(w, k) = <<v, FrameOf(k, v.init.ptr[k], w.init.ptr[k])>>
  BY DEF NewFrame, u, v
<1> QED
  BY <1>8, <1>9, <1>10, <1>11

\* p is put in the place of the structure of kind k.
Put(in, k, p) == [in EXCEPT !.ptr[k] = p]

\* To destroy a structure and then to fill its place.
LEMMA UnmadeIs ==
  ASSUME NEW in \in InitStruct, NEW k \in Kind, NEW p \in Id \cup {Null},
         in.cnt[k] - 1 \in 0..(MaxFrames + 1)
  PROVE  /\ Unmade(in, k, p) \in InitStruct /\ Unmade(in, k, p).ptr[k] = p
         /\ Put(Unmade(in, k, Null), k, p) = Unmade(in, k, p)
<1> DEFINE c == in.cnt[k] - 1
           l == in.live[k] \ {in.ptr[k]}
           u(x) == Unmade(in, k, x)
<1>1. c \in 0..(MaxFrames + 1) /\ l \in SUBSET Id
  BY DEF InitStruct
<1>2. \A x : u(x) = [in EXCEPT !.ptr[k] = x, !.cnt[k] = c, !.live[k] = l]
  BY DEF Unmade, InitStruct
<1> HIDE DEF c, l, u
<1>3. ASSUME NEW x \in Id \cup {Null}
      PROVE  /\ u(x) \in InitStruct /\ u(x).ptr = [in.ptr EXCEPT ![k] = x]
             /\ u(x).cnt = [in.cnt EXCEPT ![k] = c] /\ u(x).live = [in.live EXCEPT ![k] = l]
             /\ u(x).pick = in.pick /\ u(x).ptr[k] = x
  BY <1>1, <1>2 DEF InitStruct
<1>4. Put(u(Null), k, p) = u(p)
  <2> DEFINE a == u(Null)
             b == u(p)
             d == [a EXCEPT !.ptr[k] = p]
  <2>1. /\ a \in InitStruct /\ a.ptr = [in.ptr EXCEPT ![k] = Null] /\ a.cnt = b.cnt
        /\ a.live = b.live /\ a.pick = b.pick /\ b.ptr = [in.ptr EXCEPT ![k] = p]
        /\ b \in InitStruct
    BY <1>3
  <2> HIDE DEF a, b
  <2>2. [a.ptr EXCEPT ![k] = p] = [in.ptr EXCEPT ![k] = p]
    BY <2>1 DEF InitStruct
  <2>3. d \in InitStruct /\ d.ptr = [a.ptr EXCEPT ![k] = p] /\ d.cnt = a.cnt
        /\ d.live = a.live /\ d.pick = a.pick
    BY <2>1 DEF InitStruct
  <2> HIDE DEF d
  <2>4. d = b
    BY <2>1, <2>2, <2>3 DEF InitStruct
  <2> QED
    BY <2>4 DEF a, b, d, Put
<1> QED
  BY <1>3, <1>4 DEF c, l, u

\* There is a structure to destroy, and it is the one that is meant.
Ends(in, k) ==
    /\ in.ptr[k] # Null /\ in.cnt[k] - 1 \in 0..(MaxFrames + 1)
    /\ k = "pick" => in.pick = in.ptr[k]

LEMMA DestroyIs ==
  ASSUME NEW w \in WorldStruct, NEW k \in Kind, Ends(w.init, k)
  PROVE  InitOnly(Destroy(w, k), w) /\ Destroy(w, k).init = Unmade(w.init, k, Null)
<1> DEFINE in == w.init
           m == Unmade(in, k, Null)
<1>1. in \in InitStruct /\ m \in InitStruct
  BY UnmadeIs DEF Ends, WorldStruct
<1>2. Destroy(w, k) = [w EXCEPT !.init.ptr[k] = Null, !.init.cnt[k] = @ - 1,
                                !.init.live[k] = @ \ {in.ptr[k]}]
  BY DEF Destroy, Ends
<1>3. Destroy(w, k) = [w EXCEPT !.init = m]
  <2> HIDE DEF in
  <2>1. in = w.init
    BY DEF in
  <2> QED
    BY <1>1, <1>2, <2>1 DEF Unmade, WorldStruct, InitStruct
<1> HIDE DEF m
<1> QED
  BY <1>1, <1>3 DEF InitOnly, WorldStruct, m

LEMMA DestroyNothing ==
  ASSUME NEW w \in WorldStruct, NEW k \in Kind, w.init.ptr[k] = Null, k # "menu"
  PROVE  Destroy(w, k) = w
  BY DEF Destroy

\* The caller's structure is put in the place of p.
LEMMA PutIs ==
  ASSUME NEW w \in WorldStruct, NEW k \in Kind, NEW p \in Id \cup {Null}, w.frames # <<>>
  PROVE  LET v == Pop([w EXCEPT !.init.ptr[k] = p])
         IN  /\ v \in WorldStruct /\ v.frames = Front(w.frames) /\ v.tm = w.tm
             /\ v.lost = w.lost /\ v.status = w.status
             /\ v.init = Put(w.init, k, p)
<1> DEFINE j == [w.init EXCEPT !.ptr[k] = p]
           u == [w EXCEPT !.init = j]
<1>1. j \in InitStruct
  BY DEF WorldStruct, InitStruct
<1>2. [w EXCEPT !.init.ptr[k] = p] = u
  BY DEF WorldStruct
<1> HIDE DEF j
<1>3. u \in WorldStruct /\ u.init = j /\ InitOnly(u, w)
  BY <1>1 DEF WorldStruct, InitOnly
<1>4. FramesOnly(Pop(u), u) /\ Pop(u).frames = Front(u.frames)
  BY <1>3, PopIs DEF InitOnly
<1> QED
  BY <1>2, <1>3, <1>4 DEF FramesOnly, InitOnly, j, Put

\* What popups.c does after an engine, when it did not destroy its structure itself.
LEMMA BackIs ==
  ASSUME NEW w \in WorldStruct, NEW k \in Kind, Ends(w.init, k), w.frames # <<>>,
         w.status # "crashed"
  PROVE  LET v == Back(w, k)
         IN  /\ v \in WorldStruct /\ v.frames = Front(w.frames) /\ v.tm = w.tm
             /\ v.lost = w.lost /\ v.status = w.status
             /\ v.init = Unmade(w.init, k, Last(w.frames).saved)
<1> DEFINE x == Destroy(w, k)
           p == Last(w.frames).saved
<1>1. InitOnly(x, w) /\ x.init = Unmade(w.init, k, Null)
  BY DestroyIs
<1>2. p \in Id \cup {Null} /\ w.init \in InitStruct
  <2>1. Last(w.frames) \in Frame
    BY FrontFrame DEF WorldStruct
  <2> QED
    BY <2>1 DEF Frame, WorldStruct
<1> HIDE DEF x, p
<1>3. Put(x.init, k, p) = Unmade(w.init, k, p)
  <2>1. w.init.cnt[k] - 1 \in 0..(MaxFrames + 1)
    BY DEF Ends
  <2>2. Put(Unmade(w.init, k, Null), k, p) = Unmade(w.init, k, p)
    BY <1>2, <2>1, UnmadeIs
  <2> QED
    BY <1>1, <2>2
<1>4. Back(w, k) = Pop([x EXCEPT !.init.ptr[k] = p])
  BY <1>1 DEF Back, x, p, InitOnly
<1> DEFINE v == Pop([x EXCEPT !.init.ptr[k] = p])
<1>5. /\ v \in WorldStruct /\ v.frames = Front(x.frames) /\ v.tm = x.tm
      /\ v.lost = x.lost /\ v.status = x.status /\ v.init = Put(x.init, k, p)
  <2>1. x \in WorldStruct /\ x.frames # <<>>
    BY <1>1 DEF InitOnly
  <2> QED
    BY <1>2, <2>1, PutIs
<1> HIDE DEF v
<1> QED
  BY <1>1, <1>3, <1>4, <1>5 DEF InitOnly, p, v

\* And when it did.
LEMMA BackEmpty ==
  ASSUME NEW w \in WorldStruct, NEW k \in Kind, k # "menu", Ends(w.init, k),
         w.frames # <<>>, w.status # "crashed"
  PROVE  LET v == Back(Destroy(w, k), k)
         IN  /\ v \in WorldStruct /\ v.frames = Front(w.frames) /\ v.tm = w.tm
             /\ v.lost = w.lost /\ v.status = w.status
             /\ v.init = Unmade(w.init, k, Last(w.frames).saved)
<1> DEFINE x == Destroy(w, k)
           p == Last(w.frames).saved
<1>1. InitOnly(x, w) /\ x.init = Unmade(w.init, k, Null)
  BY DestroyIs
<1>2. p \in Id \cup {Null} /\ w.init \in InitStruct
  <2>1. Last(w.frames) \in Frame
    BY FrontFrame DEF WorldStruct
  <2> QED
    BY <2>1 DEF Frame, WorldStruct
<1>3. x.init.ptr[k] = Null
  <2>1. w.init.cnt[k] - 1 \in 0..(MaxFrames + 1)
    BY DEF Ends
  <2>2. Unmade(w.init, k, Null).ptr[k] = Null
    BY <1>2, <2>1, UnmadeIs
  <2> QED
    BY <1>1, <2>2
<1> HIDE DEF x, p
<1>4. Destroy(x, k) = x
  BY <1>1, <1>3, DestroyNothing DEF InitOnly
<1>5. Put(x.init, k, p) = Unmade(w.init, k, p)
  <2>1. w.init.cnt[k] - 1 \in 0..(MaxFrames + 1)
    BY DEF Ends
  <2>2. Put(Unmade(w.init, k, Null), k, p) = Unmade(w.init, k, p)
    BY <1>2, <2>1, UnmadeIs
  <2> QED
    BY <1>1, <2>2
<1>6. Last(x.frames).saved = p
  BY <1>1 DEF InitOnly, p
<1>7. Back(x, k) = Pop([x EXCEPT !.init.ptr[k] = p])
  BY <1>1, <1>4, <1>6 DEF Back, InitOnly
<1> DEFINE v == Pop([x EXCEPT !.init.ptr[k] = p])
<1>8. /\ v \in WorldStruct /\ v.frames = Front(x.frames) /\ v.tm = x.tm
      /\ v.lost = x.lost /\ v.status = x.status /\ v.init = Put(x.init, k, p)
  <2>1. x \in WorldStruct /\ x.frames # <<>>
    BY <1>1 DEF InitOnly
  <2> QED
    BY <1>2, <2>1, PutIs
<1> HIDE DEF v
<1> QED
  BY <1>1, <1>5, <1>7, <1>8 DEF InitOnly, p, v, x

-----------------------------------------------------------------------------
(* The preview of a pick: a structure of the pager that the pick holds.       *)

\* gr is fr but for the preview of the last engine.
ButPreview(fr, gr) ==
    /\ gr \in Seq(Frame) /\ Len(gr) = Len(fr)
    /\ \A i \in 1..(Len(fr) - 1) : gr[i] = fr[i]
    /\ gr[Len(fr)].kind = fr[Len(fr)].kind /\ gr[Len(fr)].obj = fr[Len(fr)].obj
    /\ gr[Len(fr)].saved = fr[Len(fr)].saved /\ gr[Len(fr)].stage = fr[Len(fr)].stage

\* All but what init knows of the pager is the same.
LEMMA PreviewSame ==
  ASSUME NEW fr, NEW in, Whole(fr, in), fr # <<>>, Last(fr).kind = "pick",
         Last(fr).stage = "run", NEW gr, ButPreview(fr, gr)
  PROVE  /\ Engines(gr) /\ Nested(gr) /\ PickKnown(gr, in)
         /\ \A k \in Kind : k # "view" =>
                /\ Inner(gr, Len(gr), k) = Inner(fr, Len(fr), k)
                /\ HeldSet(gr, k) = HeldSet(fr, k)
                /\ \A i \in 1..Len(fr) : Held(gr[i])[k] = Held(fr[i])[k]
         /\ \A i \in 1..(Len(fr) - 1) : fr[i].kind = "menu" /\ fr[i].aux = Null
         /\ HeldSet(fr, "view") = {fr[Len(fr)].aux} \ {Null}
         /\ HeldSet(gr, "view") = {gr[Len(fr)].aux} \ {Null}
         /\ Inner(fr, Len(fr), "view") = fr[Len(fr)].aux
         /\ Inner(gr, Len(fr), "view") = gr[Len(fr)].aux
         /\ \A i \in 1..Len(fr) : /\ Held(fr[i])["view"] # Null => i = Len(fr)
                                  /\ Held(gr[i])["view"] # Null => i = Len(fr)
<1> DEFINE n == Len(fr)
<1>1. /\ fr \in Seq(Frame) /\ gr \in Seq(Frame) /\ n \in Nat \ {0} /\ n - 1 \in Nat
      /\ n \in 1..n /\ Len(gr) = n /\ Last(fr) = fr[n]
  BY FrontFrame DEF Whole, ButPreview
<1>2. \A i \in 1..n : i \in 1..(n - 1) \/ i = n
  BY <1>1
<1>3. \A i \in 1..(n - 1) : i \in 1..n /\ gr[i] = fr[i] /\ i - 1 \in 0..n
  <2>1. \A i \in 1..(n - 1) : gr[i] = fr[i]
    BY DEF ButPreview
  <2>2. \A i \in 1..(n - 1) : i \in 1..n /\ i - 1 \in 0..n
    <3> HIDE DEF n
    <3> QED
      BY <1>1
  <2> QED
    BY <2>1, <2>2
<1>4. /\ gr[n].kind = "pick" /\ fr[n].kind = "pick" /\ gr[n].obj = fr[n].obj
      /\ gr[n].saved = fr[n].saved /\ gr[n].stage = "run" /\ fr[n].stage = "run"
  BY <1>1 DEF ButPreview
<1> HIDE DEF n
<1>5. \A k \in Kind : k # "view" => \A i \in 1..n : Held(gr[i])[k] = Held(fr[i])[k]
  BY <1>2, <1>3, <1>4, HeldIs
<1>6. ASSUME NEW k \in Kind, NEW m \in 0..n, k # "view" \/ m < n
      PROVE  Inner(gr, m, k) = Inner(fr, m, k)
  <2>1. m \in Nat /\ \A i \in 1..m : i \in 1..n /\ (m < n => i \in 1..(n - 1))
    BY <1>1, SMTT(30)
  <2>2. \A i \in 1..m : Held(gr[i])[k] = Held(fr[i])[k]
    BY <1>3, <1>5, <1>6, <2>1, SMTT(30)
  <2> QED
    BY <2>1, <2>2, InnerSame, ZenonT(40)
<1>7. Engines(gr)
  <2> SUFFICES ASSUME NEW i \in 1..n
               PROVE  /\ gr[i].kind \in Kind =>
                             gr[i].obj # Null /\ gr[i].saved = Inner(gr, i - 1, gr[i].kind)
                      /\ gr[i].kind \notin Kind => gr[i].obj = Null
                      /\ gr[i].aux # Null => gr[i].kind = "pick" /\ gr[i].stage = "run"
                      /\ gr[i].stage = "failed" => gr[i].kind \in Kind
                      /\ gr[i].stage = "ending" => gr[i].kind = "form"
    BY <1>1 DEF Engines
  <2>1. i - 1 \in 0..n /\ i - 1 < n
    BY <1>1
  <2>2. gr[i].kind = fr[i].kind /\ gr[i].obj = fr[i].obj /\ gr[i].saved = fr[i].saved
        /\ gr[i].stage = fr[i].stage /\ (i # n => gr[i] = fr[i])
    BY <1>2, <1>3, <1>4
  <2>3. \A k \in Kind : Inner(gr, i - 1, k) = Inner(fr, i - 1, k)
    BY <1>6, <2>1
  <2> QED
    BY <1>4, <2>2, <2>3 DEF Whole, Engines, n
<1>8. Nested(gr) /\ PickKnown(gr, in)
  <2>1. \A i \in 1..n : gr[i].kind = fr[i].kind /\ gr[i].obj = fr[i].obj
    BY <1>2, <1>3, <1>4
  <2>2. \A i \in 1..n : \A j \in 1..(i - 1) : j \in 1..n
    BY <1>1
  <2> QED
    BY <1>1, <2>1, <2>2 DEF Whole, Nested, PickKnown, n
<1>9. \A k \in Kind : k # "view" => HeldSet(gr, k) = HeldSet(fr, k)
  BY <1>1, <1>5 DEF HeldSet, n
<1>10. \A i \in 1..(n - 1) : fr[i].kind = "menu" /\ fr[i].aux = Null
  <2>1. \A i \in 1..(n - 1) : fr[i].kind = "menu"
    BY <1>1, <1>4 DEF Whole, Nested, n
  <2> QED
    BY <1>3, <2>1 DEF Whole, Engines, n
<1>11. "view" \in Kind
  BY DEF Kind
<1>12. /\ \A i \in 1..(n - 1) : Held(fr[i])["view"] = Null /\ Held(gr[i])["view"] = Null
       /\ Held(fr[n])["view"] = fr[n].aux /\ Held(gr[n])["view"] = gr[n].aux
  BY <1>3, <1>4, <1>10, <1>11, HeldIs
<1>13. ASSUME NEW s, Len(s) = n, Held(s[n])["view"] = s[n].aux,
              \A i \in 1..(n - 1) : Held(s[i])["view"] = Null
       PROVE  HeldSet(s, "view") = {s[n].aux} \ {Null} /\ Inner(s, n, "view") = s[n].aux
  <2>1. HeldSet(s, "view") = {s[n].aux} \ {Null}
    <3>1. \A i \in 1..n : Held(s[i])["view"] \in {Null, s[n].aux}
      BY <1>2, <1>13
    <3>2. HeldSet(s, "view") \subseteq {s[n].aux} \ {Null}
      BY <1>13, <3>1 DEF HeldSet
    <3>3. s[n].aux \in {Held(s[i])["view"] : i \in 1..n}
      BY <1>1, <1>13
    <3> QED
      BY <1>13, <3>2, <3>3 DEF HeldSet
  <2>2. Inner(s, n - 1, "view") = Null
    <3>1. Having(s, n - 1, "view") = {}
      BY <1>13 DEF Having
    <3> QED
      BY <3>1 DEF Inner
  <2>3. Inner(s, n, "view") = IF Held(s[n])["view"] # Null THEN Held(s[n])["view"]
                              ELSE Inner(s, n - 1, "view")
    BY <1>1, InnerLast
  <2> QED
    BY <1>13, <2>1, <2>2, <2>3
<1>14. HeldSet(fr, "view") = {fr[n].aux} \ {Null} /\ Inner(fr, n, "view") = fr[n].aux
  BY <1>12, <1>13 DEF n
<1>15. HeldSet(gr, "view") = {gr[n].aux} \ {Null} /\ Inner(gr, n, "view") = gr[n].aux
  BY <1>1, <1>12, <1>13
<1>16. \A k \in Kind : k # "view" => Inner(gr, n, k) = Inner(fr, n, k)
  <2>1. n \in 0..n
    BY <1>1
  <2> QED
    BY <1>6, <2>1
<1>17. \A i \in 1..n : /\ Held(fr[i])["view"] # Null => i = n
                       /\ Held(gr[i])["view"] # Null => i = n
  BY <1>2, <1>12
<1> QED
  BY <1>1, <1>5, <1>7, <1>8, <1>9, <1>10, <1>14, <1>15, <1>16, <1>17 DEF n

\* A pick gets a preview.
LEMMA PreviewWhole ==
  ASSUME NEW fr, NEW in, Whole(fr, in), fr # <<>>, Last(fr).kind = "pick",
         Last(fr).stage = "run", Last(fr).aux = Null,
         NEW o \in Id, in.cnt["view"] + 1 \in 0..(MaxFrames + 1),
         NEW gr, ButPreview(fr, gr), gr[Len(fr)].aux = o
  PROVE  Whole(gr, Made(in, "view", o))
<1> DEFINE n == Len(fr)
           m == Made(in, "view", o)
<1>1. /\ fr \in Seq(Frame) /\ gr \in Seq(Frame) /\ n \in Nat \ {0} /\ Len(gr) = n
      /\ Last(fr) = fr[n] /\ in \in InitStruct /\ "view" \in Kind /\ o # Null
  BY FrontFrame DEF Whole, ButPreview, Kind, Id, Null
<1>2. /\ Engines(gr) /\ Nested(gr) /\ PickKnown(gr, in)
      /\ \A k \in Kind : k # "view" =>
             /\ Inner(gr, n, k) = Inner(fr, n, k) /\ HeldSet(gr, k) = HeldSet(fr, k)
             /\ \A i \in 1..n : Held(gr[i])[k] = Held(fr[i])[k]
      /\ HeldSet(fr, "view") = {Null} \ {Null} /\ HeldSet(gr, "view") = {o} \ {Null}
      /\ Inner(gr, n, "view") = o
      /\ \A i \in 1..n : Held(gr[i])["view"] # Null => i = n
  BY <1>1, PreviewSame
<1> HIDE DEF n
<1>3. HeldSet(gr, "view") = {o} /\ HeldSet(fr, "view") = {}
      /\ Cardinality(HeldSet(gr, "view")) = 1 /\ Cardinality(HeldSet(fr, "view")) = 0
  <2>1. {o} \ {Null} = {o} /\ {Null} \ {Null} = {}
    BY <1>1
  <2>2. Cardinality({o}) = 1 /\ Cardinality({}) = 0
    BY FS_EmptySet, FS_Singleton
  <2> QED
    BY <1>2, <2>1, <2>2
<1>4. /\ \A k \in Kind : /\ m.ptr[k] = (IF k = "view" THEN o ELSE in.ptr[k])
                         /\ m.cnt[k] = (IF k = "view" THEN in.cnt[k] + 1 ELSE in.cnt[k])
                         /\ m.live[k] = (IF k = "view" THEN in.live[k] \cup {o} ELSE in.live[k])
      /\ m.pick = in.pick /\ m \in InitStruct
  <2>1. m \in InitStruct
    BY <1>1, MadeType
  <2> QED
    BY <1>1, <2>1 DEF Made, InitStruct
<1> HIDE DEF m
<1>5. ASSUME NEW k \in Kind PROVE Known(gr, m, k)
  <2>1. CASE k = "view"
    <3>1. in.live[k] = {} /\ in.cnt[k] = 0
      BY <1>3, <2>1 DEF Whole, Known
    <3> QED
      BY <1>1, <1>2, <1>3, <1>4, <2>1, <3>1, ZenonT(40) DEF Known, n
  <2>2. CASE k # "view"
    <3>1. Known(fr, in, k)
      BY DEF Whole
    <3>2. /\ Inner(gr, n, k) = Inner(fr, n, k) /\ HeldSet(gr, k) = HeldSet(fr, k)
          /\ m.ptr[k] = in.ptr[k] /\ m.cnt[k] = in.cnt[k] /\ m.live[k] = in.live[k]
      BY <1>2, <1>4, <2>2
    <3>3. \A i \in 1..n : Held(gr[i])[k] = Held(fr[i])[k]
      BY <1>2, <2>2
    <3>4. \A i, j \in 1..n : Held(gr[i])[k] # Null /\ Held(gr[i])[k] = Held(gr[j])[k]
              => i = j
      BY <3>1, <3>3 DEF Known, n
    <3>5. /\ m.ptr[k] = Inner(gr, n, k) /\ m.live[k] = HeldSet(gr, k)
          /\ m.cnt[k] = Cardinality(HeldSet(gr, k))
      BY <3>1, <3>2 DEF Known, n
    <3> QED
      BY <1>1, <3>4, <3>5 DEF Known
  <2> QED
    BY <2>1, <2>2
<1>6. PickKnown(gr, m)
  BY <1>2, <1>4 DEF PickKnown
<1> QED
  BY <1>1, <1>2, <1>4, <1>5, <1>6 DEF Whole, m

\* It is destroyed before the pick.
LEMMA NoPreviewWhole ==
  ASSUME NEW fr, NEW in, Whole(fr, in), fr # <<>>, Last(fr).kind = "pick",
         Last(fr).aux # Null, NEW gr, ButPreview(fr, gr), gr[Len(fr)].aux = Null
  PROVE  /\ Ends(in, "view") /\ in.ptr["view"] = Last(fr).aux
         /\ Whole(gr, Unmade(in, "view", Null))
<1> DEFINE n == Len(fr)
           m == Unmade(in, "view", Null)
           o == fr[n].aux
<1>1. /\ fr \in Seq(Frame) /\ gr \in Seq(Frame) /\ n \in Nat \ {0} /\ Len(gr) = n
      /\ Last(fr) = fr[n] /\ in \in InitStruct /\ "view" \in Kind /\ o # Null /\ n \in 1..n
  BY FrontFrame DEF Whole, ButPreview, Kind
<1>2. Last(fr).stage = "run"
  BY <1>1 DEF Whole, Engines
<1>3. /\ Engines(gr) /\ Nested(gr) /\ PickKnown(gr, in)
      /\ \A k \in Kind : k # "view" =>
             /\ Inner(gr, n, k) = Inner(fr, n, k) /\ HeldSet(gr, k) = HeldSet(fr, k)
             /\ \A i \in 1..n : Held(gr[i])[k] = Held(fr[i])[k]
      /\ HeldSet(fr, "view") = {o} \ {Null} /\ HeldSet(gr, "view") = {Null} \ {Null}
      /\ Inner(gr, n, "view") = Null /\ Inner(fr, n, "view") = o
      /\ \A i \in 1..n : Held(gr[i])["view"] # Null => i = n
  BY <1>1, <1>2, PreviewSame
<1> HIDE DEF n, o
<1>4. HeldSet(gr, "view") = {} /\ HeldSet(fr, "view") = {o}
      /\ Cardinality(HeldSet(gr, "view")) = 0 /\ Cardinality(HeldSet(fr, "view")) = 1
  <2>1. {o} \ {Null} = {o} /\ {Null} \ {Null} = {}
    BY <1>1 DEF o
  <2>2. Cardinality({o}) = 1 /\ Cardinality({}) = 0
    BY FS_EmptySet, FS_Singleton
  <2> QED
    BY <1>3, <2>1, <2>2
<1>5. in.ptr["view"] = o /\ in.live["view"] = {o} /\ in.cnt["view"] = 1
  BY <1>1, <1>3, <1>4 DEF Whole, Known, n
<1>6. Ends(in, "view")
  BY <1>1, <1>5, SessionAssumption DEF Ends
<1>7. /\ \A k \in Kind :
             /\ m.ptr[k] = (IF k = "view" THEN Null ELSE in.ptr[k])
             /\ m.cnt[k] = (IF k = "view" THEN in.cnt[k] - 1 ELSE in.cnt[k])
             /\ m.live[k] = (IF k = "view" THEN in.live[k] \ {o} ELSE in.live[k])
      /\ m.pick = in.pick
  BY <1>1, <1>5 DEF Unmade, InitStruct
<1>8. m \in InitStruct
  BY <1>1, <1>6, UnmadeIs DEF Ends
<1> HIDE DEF m
<1>9. ASSUME NEW k \in Kind PROVE Known(gr, m, k)
  <2>1. CASE k = "view"
    BY <1>1, <1>3, <1>4, <1>5, <1>7, <2>1, ZenonT(40) DEF Known, n
  <2>2. CASE k # "view"
    <3>1. Known(fr, in, k)
      BY DEF Whole
    <3>2. /\ Inner(gr, n, k) = Inner(fr, n, k) /\ HeldSet(gr, k) = HeldSet(fr, k)
          /\ m.ptr[k] = in.ptr[k] /\ m.cnt[k] = in.cnt[k] /\ m.live[k] = in.live[k]
      BY <1>3, <1>7, <2>2
    <3>3. \A i \in 1..n : Held(gr[i])[k] = Held(fr[i])[k]
      BY <1>3, <2>2
    <3>4. \A i, j \in 1..n : Held(gr[i])[k] # Null /\ Held(gr[i])[k] = Held(gr[j])[k]
              => i = j
      BY <3>1, <3>3 DEF Known, n
    <3>5. /\ m.ptr[k] = Inner(gr, n, k) /\ m.live[k] = HeldSet(gr, k)
          /\ m.cnt[k] = Cardinality(HeldSet(gr, k))
      BY <3>1, <3>2 DEF Known, n
    <3> QED
      BY <1>1, <3>4, <3>5 DEF Known
  <2> QED
    BY <2>1, <2>2
<1>10. PickKnown(gr, m)
  BY <1>3, <1>7 DEF PickKnown
<1> QED
  BY <1>1, <1>3, <1>5, <1>6, <1>8, <1>9, <1>10 DEF Whole, m, o

-----------------------------------------------------------------------------
(* The worlds a handler goes through.                                         *)

Typed(w) ==
    /\ w \in WorldStruct /\ Len(w.frames) <= MaxFrames + 1
    /\ Len(w.tm.ui_surface) <= MaxWin + 1

\* The world of a program that runs.
Sound(w) == Typed(w) /\ Whole(w.frames, w.init) /\ Leak(w.frames, w.tm) /\ Deep(w.frames)

Fine(w) == Typed(w) /\ (w.status = "running" => Sound(w))

\* The first n engines have what they had.
Kept(fr, gr, n) == \A i \in 1..n, k \in Kind : Held(gr[i])[k] = Held(fr[i])[k]

Grows(fr, gr) == Len(gr) \in Len(fr)..(Len(fr) + 2) /\ Kept(fr, gr, Len(fr))
Drops(fr, gr, n) ==
    Len(fr) - Len(gr) = n /\ Kept(fr, gr, Len(gr)) /\ Len(gr) \in Nat
Shrinks(fr, gr) == Drops(fr, gr, 1)

LEMMA GrowsOne ==
  ASSUME NEW fr \in Seq(Frame), NEW f \in Frame
  PROVE  Grows(fr, fr) /\ Grows(fr, Append(fr, f))
<1>1. /\ Len(fr) \in Nat /\ Len(Append(fr, f)) = Len(fr) + 1
      /\ \A i \in 1..Len(fr) : Append(fr, f)[i] = fr[i]
  OBVIOUS
<1> QED
  BY <1>1 DEF Grows, Kept

\* One more, and one more again.
LEMMA GrowsTwo ==
  ASSUME NEW fr \in Seq(Frame), NEW gr \in Seq(Frame), Len(gr) = Len(fr) + 1,
         Kept(fr, gr, Len(fr))
  PROVE  Grows(fr, gr) /\ \A f \in Frame : Grows(fr, Append(gr, f))
<1>1. /\ Len(gr) \in Nat /\ Len(fr) \in Nat
      /\ \A f \in Frame : /\ Len(Append(gr, f)) = Len(gr) + 1
                          /\ \A i \in 1..Len(gr) : Append(gr, f)[i] = gr[i]
  OBVIOUS
<1>2. \A i \in 1..Len(fr) : i \in 1..Len(gr)
  BY <1>1
<1> QED
  BY <1>1, <1>2 DEF Grows, Kept

\* A box over what is there.
LEMMA OpenFine ==
  ASSUME NEW w \in WorldStruct, Len(w.tm.ui_surface) <= MaxWin + 1,
         Leak(w.frames, w.tm), Len(w.frames) <= MaxFrames, NEW f \in Frame,
         Len(w.frames) < MaxFrames \/ f.kind = "notice",
         \A s \in Surface : Whole(Append(w.frames, [f EXCEPT !.box = s]), w.init)
  PROVE  LET v == OpenBox(w, f)
             s == FreeSurface(w.tm)
         IN  /\ Fine(v) /\ s \in Surface
             /\ v.status = w.status \/ v.status = "crashed"
             /\ v.frames = w.frames \/ v.frames = Append(w.frames, [f EXCEPT !.box = s])
             /\ v.status = "running" => v.frames = Append(w.frames, [f EXCEPT !.box = s])
             /\ v.init = w.init
<1> DEFINE v == OpenBox(w, f)
           s == FreeSurface(w.tm)
           g == [f EXCEPT !.box = s]
           fr == w.frames
           n == Len(fr)
<1>1. fr \in Seq(Frame) /\ n \in Nat /\ w.tm \in TermStruct /\ MaxFrames \in Nat
      /\ w.tm.ui_surface \in Seq(Surface) /\ MaxWin \in Nat
  BY SessionAssumption, TerminalAssumption DEF WorldStruct, TermStruct
<1>2. s \in Surface \ w.tm.live
  BY <1>1, FreeSurfaceExists
<1>3. g \in Frame /\ g.kind = f.kind
  BY <1>2 DEF Frame
<1>4. /\ v \in WorldStruct /\ v.init = w.init
      /\ \/ v.status = "crashed" /\ v.frames = fr /\ v.tm = w.tm
         \/ /\ v.status = w.status /\ v.tm = BoxWinNew(w.tm) /\ v.frames = Append(fr, g)
            /\ Len(w.tm.ui_surface) <= MaxWin
  BY <1>2, OpenBoxIs
<1>5. /\ BoxWinNew(w.tm) \in TermStruct /\ BoxWinNew(w.tm).live = w.tm.live \cup {s}
      /\ BoxWinNew(w.tm).ui_surface = Append(w.tm.ui_surface, s)
  BY <1>1, <1>2, BoxWinNewIs
<1>6. Whole(Append(fr, g), w.init)
  BY <1>2
<1> HIDE DEF v, s, g, fr
<1>7. CASE v.status = "crashed" /\ v.frames = fr /\ v.tm = w.tm
  BY <1>1, <1>2, <1>4, <1>7 DEF Fine, Typed, s, g, v, fr
<1>8. CASE v.status = w.status /\ v.tm = BoxWinNew(w.tm) /\ v.frames = Append(fr, g)
           /\ Len(w.tm.ui_surface) <= MaxWin
  <2>1. /\ Append(fr, g) \in Seq(Frame) /\ Len(Append(fr, g)) = n + 1
        /\ Append(fr, g)[n + 1] = g /\ \A i \in 1..n : Append(fr, g)[i] = fr[i]
    BY <1>1, <1>3 DEF n
  <2> DEFINE ui == w.tm.ui_surface
             m == Len(ui)
  <2>2. /\ m \in Nat /\ Len(Append(ui, s)) = m + 1 /\ Append(ui, s)[m + 1] = s
        /\ \A i \in 1..m : Append(ui, s)[i] = ui[i]
    BY <1>1, <1>2
  <2> HIDE DEF n, m
  <2>3. Typed(v)
    BY <1>1, <1>4, <1>5, <1>8, <2>1, <2>2 DEF Typed, n, m, fr
  <2>4. Deep(v.frames)
    <3>1. Last(v.frames) = g
      BY <1>8, <2>1 DEF Last
    <3> QED
      BY <1>1, <1>3, <1>8, <2>1, <3>1 DEF Deep, n, fr
  <2>5. Leak(v.frames, v.tm)
    <3> DEFINE au == Append(ui, s)
               af == Append(fr, g)
    <3>0. /\ v.tm.live = w.tm.live \cup {s} /\ v.tm.ui_surface = au /\ v.frames = af
          /\ Len(au) = m + 1 /\ Len(af) = n + 1
      BY <1>5, <1>8, <2>1, <2>2
    <3> HIDE DEF au, af
    <3> SUFFICES ASSUME NEW r \in w.tm.live \cup {s}
                 PROVE  \/ \E i \in 1..(m + 1) : au[i] = r
                        \/ \E i \in 1..(n + 1) : af[i].kind = "view" /\ af[i].box = r
                        \/ \E i \in 1..(n + 1) : af[i].aux # Null /\ af[i].auxbox = r
      BY <3>0 DEF Leak
    <3>1. CASE r = s
      <4>1. m + 1 \in 1..(m + 1)
        BY <2>2
      <4> QED
        BY <2>2, <3>1, <4>1 DEF au
    <3>2. CASE r \in w.tm.live
      <4>1. \/ \E i \in 1..m : ui[i] = r
            \/ \E i \in 1..n : fr[i].kind = "view" /\ fr[i].box = r
            \/ \E i \in 1..n : fr[i].aux # Null /\ fr[i].auxbox = r
        BY <3>2 DEF Leak, m, n, fr
      <4>2. /\ \A i \in 1..n : i \in 1..(n + 1)
            /\ \A i \in 1..m : i \in 1..(m + 1)
        BY <1>1, <2>2
      <4> HIDE DEF ui
      <4> QED
        BY <2>1, <2>2, <4>1, <4>2 DEF au, af
    <3> QED
      BY <3>1, <3>2
  <2> QED
    BY <1>2, <1>4, <1>6, <1>8, <2>3, <2>4, <2>5 DEF Fine, Sound, s, g, v, fr
<1> QED
  BY <1>4, <1>7, <1>8

\* A message over what is there.
LEMMA NoticeFine ==
  ASSUME NEW w, Sound(w), Len(w.frames) <= MaxFrames
  PROVE  LET v == Notice(w)
         IN  /\ Fine(v) /\ (v.status = w.status \/ v.status = "crashed")
             /\ v.frames = w.frames \/ \E f \in Frame : v.frames = Append(w.frames, f)
<1> DEFINE f == FrameOf("notice", Null, Null)
<1>1. f \in Frame /\ \A s \in Surface : [f EXCEPT !.box = s] \in Frame
  BY DEF FrameOf, Frame
<1>2. ASSUME NEW s \in Surface PROVE Whole(Append(w.frames, [f EXCEPT !.box = s]), w.init)
  <2> DEFINE g == [f EXCEPT !.box = s]
  <2>1. g \in Frame /\ g.kind = "notice" /\ g.obj = Null /\ g.aux = Null /\ g.stage = "run"
    BY <1>1 DEF FrameOf
  <2> HIDE DEF g
  <2>2. g.kind \notin Kind
    BY <2>1 DEF Kind
  <2>3. Whole(w.frames, w.init)
    BY DEF Sound
  <2>4. Whole(Append(w.frames, g), w.init)
    BY <2>1, <2>2, <2>3, PushWhole
  <2> QED
    BY <2>4 DEF g
<1>3. f.kind = "notice" /\ w \in WorldStruct /\ Len(w.tm.ui_surface) <= MaxWin + 1
      /\ Leak(w.frames, w.tm)
  BY DEF FrameOf, Sound, Typed
<1>4. Notice(w) = OpenBox(w, f)
  BY DEF Notice
<1> HIDE DEF f
<1>5. /\ Fine(OpenBox(w, f)) /\ FreeSurface(w.tm) \in Surface
      /\ OpenBox(w, f).status = w.status \/ OpenBox(w, f).status = "crashed"
      /\ \/ OpenBox(w, f).frames = w.frames
         \/ OpenBox(w, f).frames = Append(w.frames, [f EXCEPT !.box = FreeSurface(w.tm)])
  BY <1>1, <1>2, <1>3, OpenFine
<1> QED
  BY <1>1, <1>4, <1>5

-----------------------------------------------------------------------------
(* Popups.                                                                    *)

\* g is f in another window or at another stage.
SameEngine(g, f) ==
    /\ g \in Frame /\ g.kind = f.kind /\ g.obj = f.obj /\ g.saved = f.saved
    /\ g.aux = f.aux

LEMMA StartIs ==
  ASSUME NEW w, Sound(w), Len(w.frames) <= MaxFrames, NEW k \in Kind,
         k \in {"menu", "pick"} => OnlyMenus(w.frames)
  PROVE  LET u == NewFrame(w, k)[1]
             f == NewFrame(w, k)[2]
         IN  /\ InitOnly(u, w) /\ f \in Frame /\ f.kind = k /\ f.aux = Null
             /\ f.auxbox = NoSurface /\ f.box = NoSurface /\ f.stage = "run"
             /\ \A g : SameEngine(g, f) /\ (g.stage = "ending" => k = "form")
                       => Whole(Append(w.frames, g), u.init)
             /\ w.frames \in Seq(Frame) /\ w.tm \in TermStruct
             /\ FreeSurface(w.tm) \in Surface \ w.tm.live
<1> DEFINE u == NewFrame(w, k)[1]
           f == NewFrame(w, k)[2]
           o == FreeId(w, k)
<1>1. w \in WorldStruct /\ Whole(w.frames, w.init)
  BY DEF Sound, Typed
<1>2. o \in Id \ w.init.live[k] /\ w.init.cnt[k] + 1 \in 0..(MaxFrames + 1)
  BY <1>1, FreeIdExists
<1>3. /\ InitOnly(u, w) /\ u.init = Made(w.init, k, o)
      /\ f = FrameOf(k, o, w.init.ptr[k]) /\ f \in Frame
  BY <1>1, <1>2, NewFrameIs
<1>4. /\ f.kind = k /\ f.aux = Null /\ f.auxbox = NoSurface /\ f.box = NoSurface
      /\ f.obj = o /\ f.saved = w.init.ptr[k] /\ f.stage = "run"
  BY <1>3 DEF FrameOf
<1> HIDE DEF u, f, o
<1>5. ASSUME NEW g, SameEngine(g, f), g.stage = "ending" => k = "form"
      PROVE  Whole(Append(w.frames, g), u.init)
  <2>1. g \in Frame /\ g.kind = k /\ g.obj = o /\ g.saved = w.init.ptr[k] /\ g.aux = Null
    BY <1>4, <1>5 DEF SameEngine
  <2>2. Whole(Append(w.frames, g), Made(w.init, k, o))
    BY <1>1, <1>2, <1>5, <2>1, StartWhole
  <2> QED
    BY <1>3, <2>2
<1>6. FreeSurface(w.tm) \in Surface \ w.tm.live /\ w.frames \in Seq(Frame)
      /\ w.tm \in TermStruct
  <2>1. w.frames \in Seq(Frame) /\ w.tm \in TermStruct
    BY <1>1 DEF WorldStruct
  <2>2. Len(w.frames) <= MaxFrames + 1 /\ Len(w.tm.ui_surface) <= MaxWin + 1
        /\ Leak(w.frames, w.tm)
    BY DEF Sound, Typed
  <2> QED
    BY <2>1, <2>2, FreeSurfaceExists
<1> QED
  BY <1>3, <1>4, <1>5, <1>6 DEF u, f

\* An engine that starts in a box of its own.
LEMMA StartBox ==
  ASSUME NEW w, Sound(w), Len(w.frames) < MaxFrames, NEW k \in Kind,
         k \in {"menu", "pick"} => OnlyMenus(w.frames)
  PROVE  LET u == NewFrame(w, k)[1]
             f == NewFrame(w, k)[2]
             v == OpenBox(u, f)
         IN  /\ Fine(v) /\ Grows(w.frames, v.frames)
             /\ v.status = w.status \/ v.status = "crashed"
             /\ v.status = "running" =>
                    \E g \in Frame : /\ v.frames = Append(w.frames, g) /\ g.kind = k
                                     /\ g.aux = Null /\ g.stage = "run"
                                     /\ g.auxbox = NoSurface
                                     /\ g.box = FreeSurface(w.tm)
<1> DEFINE u == NewFrame(w, k)[1]
           f == NewFrame(w, k)[2]
           s == FreeSurface(w.tm)
<1>0. Len(w.frames) <= MaxFrames /\ MaxFrames \in Nat
  <2>1. Len(w.frames) \in Nat
    BY DEF Sound, Typed, WorldStruct
  <2> QED
    BY <2>1, SessionAssumption
<1>1. /\ InitOnly(u, w) /\ f \in Frame /\ f.kind = k /\ f.aux = Null
      /\ f.auxbox = NoSurface /\ f.box = NoSurface /\ f.stage = "run"
      /\ \A g : SameEngine(g, f) /\ (g.stage = "ending" => k = "form")
                => Whole(Append(w.frames, g), u.init)
      /\ w.frames \in Seq(Frame) /\ s \in Surface
  BY <1>0, StartIs
<1> HIDE DEF u, f, s
<1>2. ASSUME NEW r \in Surface PROVE Whole(Append(u.frames, [f EXCEPT !.box = r]), u.init)
  <2> DEFINE g == [f EXCEPT !.box = r]
  <2>1. SameEngine(g, f) /\ g.stage = "run"
    BY <1>1 DEF SameEngine, Frame
  <2> HIDE DEF g
  <2>2. Whole(Append(w.frames, g), u.init)
    BY <1>1, <2>1
  <2> QED
    BY <1>1, <2>2 DEF g, InitOnly
<1>3. u \in WorldStruct /\ u.frames = w.frames /\ u.tm = w.tm /\ u.status = w.status
      /\ Len(u.tm.ui_surface) <= MaxWin + 1 /\ Leak(u.frames, u.tm)
  BY <1>1 DEF InitOnly, Sound, Typed
<1>4. /\ Fine(OpenBox(u, f))
      /\ OpenBox(u, f).status = u.status \/ OpenBox(u, f).status = "crashed"
      /\ \/ OpenBox(u, f).frames = u.frames
         \/ OpenBox(u, f).frames = Append(u.frames, [f EXCEPT !.box = FreeSurface(u.tm)])
      /\ OpenBox(u, f).status = "running" =>
             OpenBox(u, f).frames = Append(u.frames, [f EXCEPT !.box = FreeSurface(u.tm)])
  BY <1>0, <1>1, <1>2, <1>3, OpenFine
<1>5. [f EXCEPT !.box = s] \in Frame /\ [f EXCEPT !.box = s].kind = k
      /\ [f EXCEPT !.box = s].aux = Null /\ [f EXCEPT !.box = s].stage = "run"
      /\ [f EXCEPT !.box = s].auxbox = NoSurface /\ [f EXCEPT !.box = s].box = s
  BY <1>1 DEF Frame
<1>6. Grows(w.frames, OpenBox(u, f).frames)
  BY <1>1, <1>3, <1>4, <1>5, GrowsOne DEF s
<1> QED
  BY <1>3, <1>4, <1>5, <1>6 DEF u, f, s

\* An engine starts and a message is shown over it at once.
LEMMA StartNotice ==
  ASSUME NEW w, Sound(w), Len(w.frames) < MaxFrames, NEW v, Sound(v),
         Len(v.frames) = Len(w.frames) + 1, Kept(w.frames, v.frames, Len(w.frames)),
         v.status = w.status
  PROVE  /\ Fine(Notice(v)) /\ Grows(w.frames, Notice(v).frames)
         /\ Notice(v).status = w.status \/ Notice(v).status = "crashed"
<1>1. w.frames \in Seq(Frame) /\ v.frames \in Seq(Frame) /\ MaxFrames \in Nat
      /\ Len(w.frames) \in Nat
  BY SessionAssumption DEF Sound, Typed, WorldStruct
<1>3. Len(v.frames) <= MaxFrames
  BY <1>1
<1>4. /\ Fine(Notice(v)) /\ (Notice(v).status = v.status \/ Notice(v).status = "crashed")
      /\ Notice(v).frames = v.frames
         \/ \E g \in Frame : Notice(v).frames = Append(v.frames, g)
  BY <1>3, NoticeFine
<1>5. Grows(w.frames, Notice(v).frames)
  BY <1>1, <1>4, GrowsTwo
<1> QED
  BY <1>4, <1>5

LEMMA LeakAppend ==
  ASSUME NEW fr \in Seq(Frame), NEW g \in Frame, NEW t, Leak(fr, t)
  PROVE  Leak(Append(fr, g), t)
<1> DEFINE n == Len(fr)
           af == Append(fr, g)
<1>1. /\ n \in Nat /\ Len(af) = n + 1 /\ \A i \in 1..n : af[i] = fr[i] /\ i \in 1..(n + 1)
  OBVIOUS
<1> HIDE DEF af
<1>2. ASSUME NEW s \in t.live
      PROVE  \/ \E i \in 1..Len(t.ui_surface) : t.ui_surface[i] = s
             \/ \E i \in 1..(n + 1) : af[i].kind = "view" /\ af[i].box = s
             \/ \E i \in 1..(n + 1) : af[i].aux # Null /\ af[i].auxbox = s
  <2>1. \/ \E i \in 1..Len(t.ui_surface) : t.ui_surface[i] = s
        \/ \E i \in 1..n : fr[i].kind = "view" /\ fr[i].box = s
        \/ \E i \in 1..n : fr[i].aux # Null /\ fr[i].auxbox = s
    BY DEF Leak
  <2> HIDE DEF n
  <2> QED
    BY <1>1, <2>1
<1>3. Leak(af, t)
  BY <1>1, <1>2 DEF Leak
<1> QED
  BY <1>3 DEF af

\* An engine on the stack whose window is not opened yet.
LEMMA PushSound ==
  ASSUME NEW w, Sound(w), Len(w.frames) < MaxFrames, NEW u \in WorldStruct,
         u.frames = w.frames, u.tm = w.tm, u.status = w.status,
         NEW g \in Frame, Whole(Append(w.frames, g), u.init)
  PROVE  /\ Sound(Push(u, g)) /\ Push(u, g).frames = Append(w.frames, g)
         /\ Push(u, g).status = w.status
         /\ Len(Push(u, g).frames) = Len(w.frames) + 1
         /\ Kept(w.frames, Push(u, g).frames, Len(w.frames))
<1> DEFINE v == Push(u, g)
<1>1. FramesOnly(v, u) /\ v.frames = Append(w.frames, g)
  BY PushIs
<1>2. w.frames \in Seq(Frame) /\ Len(w.frames) \in Nat /\ MaxFrames \in Nat
      /\ Len(w.tm.ui_surface) <= MaxWin + 1 /\ Leak(w.frames, w.tm)
  BY SessionAssumption DEF Sound, Typed, WorldStruct
<1>3. Leak(Append(w.frames, g), w.tm) /\ Len(Append(w.frames, g)) = Len(w.frames) + 1
  BY <1>2, LeakAppend
<1> HIDE DEF v
<1>4. Typed(v) /\ Deep(v.frames) /\ Whole(v.frames, v.init) /\ Leak(v.frames, v.tm)
  BY <1>1, <1>2, <1>3 DEF FramesOnly, Typed, Deep
<1>5. Kept(w.frames, v.frames, Len(w.frames))
  BY <1>1, <1>2, GrowsOne DEF Grows
<1> QED
  BY <1>1, <1>3, <1>4, <1>5 DEF Sound, v, FramesOnly

\* An engine that fails at its start, and the message about it.
LEMMA StartFails ==
  ASSUME NEW w, Sound(w), Len(w.frames) < MaxFrames, NEW k \in Kind,
         k \in {"menu", "pick"} => OnlyMenus(w.frames),
         NEW x \in {"failed", "ending"}, x = "ending" => k = "form",
         NEW u \in WorldStruct, u.frames = w.frames, u.tm = w.tm, u.status = w.status,
         u.init = NewFrame(w, k)[1].init
  PROVE  LET v == Notice(Push(u, [NewFrame(w, k)[2] EXCEPT !.stage = x]))
         IN  /\ Fine(v) /\ Grows(w.frames, v.frames)
             /\ v.status = w.status \/ v.status = "crashed"
<1> DEFINE f == NewFrame(w, k)[2]
           g == [f EXCEPT !.stage = x]
           q == NewFrame(w, k)[1]
<1>0. Len(w.frames) <= MaxFrames
  <2>1. Len(w.frames) \in Nat
    BY DEF Sound, Typed, WorldStruct
  <2> QED
    BY <2>1, SessionAssumption
<1>1. /\ f \in Frame /\ f.kind = k
      /\ \A e : SameEngine(e, f) /\ (e.stage = "ending" => k = "form")
                => Whole(Append(w.frames, e), q.init)
  BY <1>0, StartIs
<1> HIDE DEF f, q
<1>2. g \in Frame /\ SameEngine(g, f) /\ g.stage = x
  BY <1>1 DEF SameEngine, Frame
<1> HIDE DEF g
<1>3. Whole(Append(w.frames, g), u.init)
  BY <1>1, <1>2 DEF q
<1>4. /\ Sound(Push(u, g)) /\ Push(u, g).status = w.status
      /\ Len(Push(u, g).frames) = Len(w.frames) + 1
      /\ Kept(w.frames, Push(u, g).frames, Len(w.frames))
  BY <1>2, <1>3, PushSound
<1>5. /\ Fine(Notice(Push(u, g))) /\ Grows(w.frames, Notice(Push(u, g)).frames)
      /\ Notice(Push(u, g)).status = w.status \/ Notice(Push(u, g)).status = "crashed"
  BY <1>4, StartNotice
<1> QED
  BY <1>5 DEF g, f

\* A description that is not there: the program ends.
LEMMA AbendFine ==
  ASSUME NEW w \in WorldStruct, Len(w.frames) <= MaxFrames + 1,
         Len(w.tm.ui_surface) <= MaxWin + 1
  PROVE  Fine(Abend(w)) /\ Abend(w).frames = w.frames /\ Abend(w).status = "exited"
<1>1. /\ Abend(w) \in WorldStruct /\ Abend(w).frames = w.frames
      /\ Abend(w).tm = Abended(w.tm) /\ Abend(w).status = "exited"
  BY AbendIs
<1>2. Len(Abended(w.tm).ui_surface) <= MaxWin + 1
  <2>1. w.tm \in TermStruct /\ Len(<<>>) = 0 /\ MaxWin \in Nat
    BY TerminalAssumption DEF WorldStruct
  <2> QED
    BY <2>1, AbendedIs
<1> QED
  BY <1>1, <1>2 DEF Fine, Typed

LEMMA PopupMenuFine ==
  ASSUME NEW w, Sound(w), Len(w.frames) < MaxFrames, OnlyMenus(w.frames),
         NEW out \in Outcome("menu")
  PROVE  LET v == PopupMenu(w, out) IN Fine(v) /\ Grows(w.frames, v.frames)
<1> DEFINE u == NewFrame(w, "menu")[1]
           f == NewFrame(w, "menu")[2]
<1>0. "menu" \in Kind /\ Len(w.frames) <= MaxFrames
  <2>1. Len(w.frames) \in Nat
    BY DEF Sound, Typed, WorldStruct
  <2> QED
    BY <2>1, SessionAssumption DEF Kind
<1>1. InitOnly(u, w) /\ w.frames \in Seq(Frame) /\ f \in Frame
  BY <1>0, StartIs
<1>2. u \in WorldStruct /\ u.frames = w.frames /\ u.tm = w.tm /\ u.status = w.status
  BY <1>1 DEF InitOnly
<1>3. CASE out = "opens"
  <2>1. PopupMenu(w, out) = OpenBox(u, f)
    BY <1>3 DEF PopupMenu
  <2> QED
    BY <1>0, <2>1, StartBox
<1>4. CASE out = "missing"
  <2>1. PopupMenu(w, out) = Abend(u)
    BY <1>4 DEF PopupMenu
  <2>2. Len(u.frames) <= MaxFrames + 1 /\ Len(u.tm.ui_surface) <= MaxWin + 1
    BY <1>2 DEF Sound, Typed
  <2>3. Fine(Abend(u)) /\ Abend(u).frames = w.frames
    BY <1>2, <2>2, AbendFine
  <2> QED
    BY <1>1, <2>1, <2>3, GrowsOne
<1>5. CASE out = "bad"
  <2>1. PopupMenu(w, out) = Notice(Push(u, [f EXCEPT !.stage = "failed"]))
    BY <1>5 DEF PopupMenu, Fails
  <2> HIDE DEF u
  <2>2. LET v == Notice(Push(u, [f EXCEPT !.stage = "failed"]))
        IN  Fine(v) /\ Grows(w.frames, v.frames)
    BY <1>0, <1>2, StartFails DEF u
  <2> QED
    BY <2>1, <2>2
<1> QED
  BY <1>3, <1>4, <1>5 DEF Outcome

LEMMA PopupFormFine ==
  ASSUME NEW w, Sound(w), Len(w.frames) < MaxFrames, NEW out \in Outcome("form")
  PROVE  LET v == PopupForm(w, out) IN Fine(v) /\ Grows(w.frames, v.frames)
<1> DEFINE u == NewFrame(w, "form")[1]
           f == NewFrame(w, "form")[2]
<1>0. "form" \in Kind /\ "form" \notin {"menu", "pick"} /\ Len(w.frames) <= MaxFrames
  <2>1. Len(w.frames) \in Nat
    BY DEF Sound, Typed, WorldStruct
  <2> QED
    BY <2>1, SessionAssumption DEF Kind
<1>1. InitOnly(u, w) /\ w.frames \in Seq(Frame) /\ f \in Frame
  BY <1>0, StartIs
<1>2. u \in WorldStruct /\ u.frames = w.frames /\ u.tm = w.tm /\ u.status = w.status
  BY <1>1 DEF InitOnly
<1>3. CASE out = "opens"
  <2>1. PopupForm(w, out) = OpenBox(u, f)
    BY <1>3 DEF PopupForm
  <2> QED
    BY <1>0, <2>1, StartBox
<1>4. CASE out = "missing"
  <2>1. PopupForm(w, out) = Notice(Push(u, [f EXCEPT !.stage = "failed"]))
    BY <1>4 DEF PopupForm, Fails
  <2> HIDE DEF u
  <2>2. LET v == Notice(Push(u, [f EXCEPT !.stage = "failed"]))
        IN  Fine(v) /\ Grows(w.frames, v.frames)
    BY <1>0, <1>2, StartFails DEF u
  <2> QED
    BY <2>1, <2>2
<1>5. CASE out = "bad"
  <2> DEFINE x == Losing(u, "formdesc")
  <2>1. PopupForm(w, out) = Notice(Push(x, [f EXCEPT !.stage = "ending"]))
    BY <1>5 DEF PopupForm
  <2>2. /\ x \in WorldStruct /\ x.frames = w.frames /\ x.tm = w.tm /\ x.status = w.status
        /\ x.init = u.init
    <3> HIDE DEF u
    <3> QED
      BY <1>2, LosingIs DEF Path
  <2> HIDE DEF x
  <2>3. LET v == Notice(Push(x, [f EXCEPT !.stage = "ending"]))
        IN  Fine(v) /\ Grows(w.frames, v.frames)
    BY <1>0, <2>2, StartFails
  <2> QED
    BY <2>1, <2>3
<1> QED
  BY <1>3, <1>4, <1>5 DEF Outcome

\* The running engine is at another stage.
LEMMA StageSound ==
  ASSUME NEW w, Sound(w), w.frames # <<>>, NEW x \in {"run", "failed", "ending"},
         Last(w.frames).aux = Null, x = "failed" => Last(w.frames).kind \in Kind,
         x = "ending" => Last(w.frames).kind = "form"
  PROVE  LET v == Stage(w, x)
         IN  /\ Sound(v) /\ v.status = w.status /\ v.lost = w.lost /\ v.tm = w.tm
             /\ Len(v.frames) = Len(w.frames) /\ Kept(w.frames, v.frames, Len(w.frames))
             /\ \A i \in 1..(Len(w.frames) - 1) : v.frames[i] = w.frames[i]
             /\ Last(v.frames) = [Last(w.frames) EXCEPT !.stage = x]
<1> DEFINE v == Stage(w, x)
           fr == w.frames
           gr == v.frames
           n == Len(fr)
           f == fr[n]
<1>1. /\ w \in WorldStruct /\ fr \in Seq(Frame) /\ n \in Nat \ {0} /\ Last(fr) = f
      /\ f \in Frame /\ n - 1 \in Nat /\ n \in 1..n
  BY FrontFrame DEF Sound, Typed, WorldStruct
<1>2. /\ FramesOnly(v, w) /\ Len(gr) = n /\ \A i \in 1..(n - 1) : gr[i] = fr[i]
      /\ gr[n] = [f EXCEPT !.stage = x]
  BY <1>1, StageIs
<1> HIDE DEF v, gr, fr, n, f
<1>3. /\ gr \in Seq(Frame) /\ gr[n].kind = f.kind /\ gr[n].obj = f.obj
      /\ gr[n].saved = f.saved /\ gr[n].aux = f.aux /\ gr[n].box = f.box
      /\ gr[n].auxbox = f.auxbox /\ gr[n].stage = x
  BY <1>1, <1>2 DEF Frame, FramesOnly, WorldStruct, gr
<1>4. \A i \in 1..n : i = n \/ i \in 1..(n - 1)
  BY <1>1
<1>5. Alike(fr, gr)
  BY <1>2, <1>3, <1>4 DEF Alike, n, f
<1>6. Staged(gr)
  <2>1. Engines(fr)
    BY DEF Sound, Whole, fr
  <2>2. \A i \in 1..(n - 1) : i \in 1..n
    BY <1>1
  <2> QED
    <3>1. \A i \in 1..(n - 1) :
             /\ gr[i].aux # Null => gr[i].stage = "run"
             /\ gr[i].stage = "failed" => gr[i].kind \in Kind
             /\ gr[i].stage = "ending" => gr[i].kind = "form"
      BY <1>2, <2>1, <2>2 DEF Engines, n
    <3>2. /\ gr[n].aux = Null /\ (gr[n].stage = "failed" => gr[n].kind \in Kind)
          /\ gr[n].stage = "ending" => gr[n].kind = "form"
      BY <1>1, <1>3 DEF fr
    <3> QED
      BY <1>2, <1>4, <3>1, <3>2 DEF Staged
<1>7. Whole(gr, w.init)
  <2>1. Whole(fr, w.init)
    BY DEF Sound, fr
  <2> QED
    BY <1>5, <1>6, <2>1, AlikeWhole
<1>8. Leak(gr, w.tm)
  <2>1. Leak(fr, w.tm)
    BY DEF Sound, fr
  <2>2. \A i \in 1..n : gr[i].kind = fr[i].kind /\ gr[i].box = fr[i].box
                        /\ gr[i].auxbox = fr[i].auxbox /\ gr[i].aux = fr[i].aux
    BY <1>2, <1>3, <1>4 DEF f
  <2> QED
    BY <1>2, <2>1, <2>2 DEF Leak, n
<1>9. Deep(gr)
  BY <1>1, <1>2, <1>3 DEF Deep, Sound, Last, n, f, fr
<1>10. Kept(fr, gr, n)
  <2> SUFFICES ASSUME NEW i \in 1..n, NEW k \in Kind
               PROVE  Held(gr[i])[k] = Held(fr[i])[k]
    BY DEF Kept
  <2>1. gr[i].kind = fr[i].kind /\ gr[i].obj = fr[i].obj /\ gr[i].aux = fr[i].aux
    BY <1>5 DEF Alike, n
  <2> QED
    BY <2>1, HeldIs
<1>11. Last(gr) = [Last(fr) EXCEPT !.stage = x]
  BY <1>1, <1>2 DEF Last
<1>12. Typed(v)
  BY <1>2 DEF FramesOnly, Sound, Typed, gr, n, fr
<1> QED
  BY <1>2, <1>7, <1>8, <1>9, <1>10, <1>11, <1>12 DEF FramesOnly, Sound, v, gr, n, fr

\* The pager, whose window is not on the stack of surfaces.
LEMMA StartView ==
  ASSUME NEW w, Sound(w), Len(w.frames) < MaxFrames
  PROVE  LET v == OpenViewWindow(NewFrame(w, "view")[1], NewFrame(w, "view")[2])
         IN  /\ Sound(v) /\ v.status = w.status /\ v.lost = w.lost
             /\ v.tm = Allocated(w.tm) /\ FreeSurface(w.tm) \in Surface \ w.tm.live
             /\ Kept(w.frames, v.frames, Len(w.frames))
             /\ Len(v.frames) = Len(w.frames) + 1
             /\ \E g \in Frame : /\ v.frames = Append(w.frames, g) /\ g.kind = "view"
                                 /\ g.box = FreeSurface(w.tm) /\ g.aux = Null
                                 /\ g.auxbox = NoSurface /\ g.stage = "run"
<1> DEFINE u == NewFrame(w, "view")[1]
           f == NewFrame(w, "view")[2]
           s == FreeSurface(w.tm)
           g == [f EXCEPT !.box = s]
           fr == w.frames
           n == Len(fr)
           af == Append(fr, g)
           v == OpenViewWindow(u, f)
<1>0. "view" \in Kind /\ "view" \notin {"menu", "pick"} /\ n <= MaxFrames /\ n \in Nat
      /\ MaxFrames \in Nat
  <2>1. n \in Nat
    BY DEF Sound, Typed, WorldStruct
  <2> QED
    BY <2>1, SessionAssumption DEF Kind
<1>1. /\ InitOnly(u, w) /\ f \in Frame /\ f.kind = "view" /\ f.aux = Null
      /\ f.auxbox = NoSurface /\ f.stage = "run"
      /\ \A e : SameEngine(e, f) /\ (e.stage = "ending" => "view" = "form")
                => Whole(Append(fr, e), u.init)
      /\ fr \in Seq(Frame) /\ w.tm \in TermStruct /\ s \in Surface \ w.tm.live
  BY <1>0, StartIs
<1> HIDE DEF u, f, s, fr, n
<1>2. SameEngine(g, f) /\ g.stage = "run" /\ g.box = s /\ g \in Frame /\ g.kind = "view"
      /\ g.aux = Null /\ g.auxbox = NoSurface
  BY <1>1 DEF SameEngine, Frame
<1>3. u.tm = w.tm /\ u \in WorldStruct /\ u.frames = fr /\ u.status = w.status
      /\ u.lost = w.lost
  BY <1>1 DEF InitOnly, fr
<1>4. v = [Push(u, g) EXCEPT !.tm = Allocated(@)]
  BY <1>3 DEF OpenViewWindow, s
<1> HIDE DEF g, v
<1>5. FramesOnly(Push(u, g), u) /\ Push(u, g).frames = af
  BY <1>2, <1>3, PushIs
<1>6. v = [Push(u, g) EXCEPT !.tm = Allocated(w.tm)]
  BY <1>3, <1>4, <1>5 DEF FramesOnly, WorldStruct
<1>7. Allocated(w.tm) \in TermStruct /\ Allocated(w.tm).live = w.tm.live \cup {s}
      /\ Allocated(w.tm).ui_surface = w.tm.ui_surface
  BY <1>1, BoxWinNewIs DEF s
<1>8. TermOnly(v, Push(u, g)) /\ v.tm = Allocated(w.tm)
  BY <1>5, <1>6, <1>7, TermIs DEF FramesOnly
<1>9. /\ v \in WorldStruct /\ v.frames = af /\ v.init = u.init /\ v.lost = w.lost
      /\ v.status = w.status
  BY <1>3, <1>5, <1>8 DEF FramesOnly, TermOnly
<1>10. Whole(af, u.init)
  BY <1>1, <1>2
<1>11. /\ Len(af) = n + 1 /\ af[n + 1] = g /\ af \in Seq(Frame) /\ n + 1 \in 1..(n + 1)
  BY <1>0, <1>1, <1>2, AppendFrame DEF n
<1>12. Leak(af, w.tm)
  BY <1>1, <1>2, LeakAppend DEF Sound, fr
<1> HIDE DEF af
<1>13. Leak(af, v.tm)
  BY <1>2, <1>7, <1>8, <1>11, <1>12 DEF Leak
<1>14. Deep(af)
  BY <1>0, <1>11 DEF Deep, n, fr
<1>15. Typed(v)
  BY <1>0, <1>7, <1>8, <1>9, <1>11 DEF Typed, Sound, n, fr
<1>16. Kept(fr, af, n)
  BY <1>1, <1>2, GrowsOne DEF Grows, af, n
<1> QED
  BY <1>1, <1>2, <1>8, <1>9, <1>10, <1>11, <1>13, <1>14, <1>15, <1>16
     DEF Sound, u, f, s, fr, n, af, v

LEMMA PopupViewFine ==
  ASSUME NEW w, Sound(w), Len(w.frames) < MaxFrames, NEW out \in Outcome("view")
  PROVE  LET v == PopupView(w, out) IN Fine(v) /\ Grows(w.frames, v.frames)
<1> DEFINE v == OpenViewWindow(NewFrame(w, "view")[1], NewFrame(w, "view")[2])
           x == Stage(v, "failed")
<1>1. /\ Sound(v) /\ v.status = w.status /\ Kept(w.frames, v.frames, Len(w.frames))
      /\ Len(v.frames) = Len(w.frames) + 1 /\ w.frames \in Seq(Frame)
      /\ \E g \in Frame : /\ v.frames = Append(w.frames, g) /\ g.kind = "view"
                          /\ g.aux = Null
  BY StartView DEF Sound, Typed, WorldStruct
<1>2. PopupView(w, out) = IF out = "opens" THEN v ELSE Notice(x)
  BY DEF PopupView
<1> HIDE DEF v
<1>3. v.frames # <<>> /\ Last(v.frames).kind = "view" /\ Last(v.frames).aux = Null
      /\ Len(w.frames) \in Nat
  <2>1. PICK g \in Frame : v.frames = Append(w.frames, g) /\ g.kind = "view" /\ g.aux = Null
    BY <1>1
  <2>2. Append(w.frames, g) # <<>> /\ Last(Append(w.frames, g)) = g
    BY <1>1 DEF Last
  <2> QED
    BY <1>1, <2>1, <2>2
<1>4. Fine(v) /\ Grows(w.frames, v.frames)
  BY <1>1, <1>3 DEF Fine, Sound, Grows
<1>5. /\ Sound(x) /\ x.status = v.status /\ Len(x.frames) = Len(v.frames)
      /\ Kept(v.frames, x.frames, Len(v.frames))
  BY <1>1, <1>3, StageSound DEF Kind
<1> HIDE DEF x
<1>6. Kept(w.frames, x.frames, Len(w.frames))
  <2>1. \A i \in 1..Len(w.frames) : i \in 1..Len(v.frames)
    BY <1>1, <1>3
  <2> QED
    BY <1>1, <1>5, <2>1 DEF Kept
<1>7. Fine(Notice(x)) /\ Grows(w.frames, Notice(x).frames)
  BY <1>1, <1>5, <1>6, StartNotice
<1> QED
  BY <1>2, <1>4, <1>7

\* A pick that has just started gets its preview.
LEMMA PreviewSound ==
  ASSUME NEW w, Sound(w), w.frames # <<>>, Len(w.frames) <= MaxFrames,
         Last(w.frames).kind = "pick", Last(w.frames).stage = "run",
         Last(w.frames).aux = Null
  PROVE  LET v == WithPreview(w)
             n == Len(w.frames)
         IN  /\ Sound(v) /\ v.status = w.status /\ v.lost = w.lost /\ Len(v.frames) = n
             /\ \A i \in 1..(n - 1) : v.frames[i] = w.frames[i]
             /\ v.frames[n].kind = "pick" /\ v.frames[n].box = w.frames[n].box
             /\ v.frames[n].aux # Null /\ v.frames[n].auxbox = FreeSurface(w.tm)
             /\ v.frames[n].stage = "run"
             /\ v.tm = Allocated(w.tm) /\ FreeSurface(w.tm) \in Surface \ w.tm.live
<1> DEFINE u == NewFrame(w, "view")[1]
           s == FreeSurface(w.tm)
           fr == w.frames
           n == Len(fr)
           o == FreeId(w, "view")
           g == [fr[n] EXCEPT !.aux = o, !.auxbox = s]
           gr == [fr EXCEPT ![n] = g]
           v == WithPreview(w)
<1>1. /\ w \in WorldStruct /\ fr \in Seq(Frame) /\ n \in Nat \ {0} /\ Last(fr) = fr[n]
      /\ fr[n] \in Frame /\ n - 1 \in Nat /\ n \in 1..n /\ w.tm \in TermStruct
      /\ Whole(fr, w.init)
  BY FrontFrame DEF Sound, Typed, WorldStruct
<1>2. "view" \in Kind /\ "view" \notin {"menu", "pick"}
  BY DEF Kind
<1>3. s \in Surface \ w.tm.live
  BY <1>2, StartIs
<1>4. o \in Id \ w.init.live["view"] /\ w.init.cnt["view"] + 1 \in 0..(MaxFrames + 1)
  BY <1>1, <1>2, FreeIdExists
<1>5. InitOnly(u, w) /\ u.init = Made(w.init, "view", o)
  BY <1>1, <1>2, <1>4, NewFrameIs
<1>6. u.init.ptr["view"] = o
  <2>1. w.init \in InitStruct
    BY <1>1 DEF WorldStruct
  <2> QED
    BY <1>2, <1>5, <2>1 DEF Made, InitStruct
<1>7. WithPreview(w)
      = [u EXCEPT !.frames[Len(u.frames)].aux = u.init.ptr["view"],
                  !.frames[Len(u.frames)].auxbox = FreeSurface(u.tm), !.tm = Allocated(@)]
  BY DEF WithPreview, NewFrame
<1>8. u \in WorldStruct /\ u.frames = fr /\ u.tm = w.tm /\ u.lost = w.lost
      /\ u.status = w.status
  BY <1>5 DEF InitOnly
<1> HIDE DEF u, s, fr, n, o, v
<1>9. v = [u EXCEPT !.frames = [fr EXCEPT ![n].aux = o, ![n].auxbox = s],
                    !.tm = Allocated(w.tm)]
  BY <1>6, <1>7, <1>8 DEF WorldStruct, s, n, v
<1>10. [fr EXCEPT ![n].aux = o, ![n].auxbox = s] = gr
  BY <1>1
<1>11. /\ g \in Frame /\ g.kind = fr[n].kind /\ g.obj = fr[n].obj /\ g.saved = fr[n].saved
       /\ g.stage = fr[n].stage /\ g.aux = o /\ g.auxbox = s /\ g.box = fr[n].box
  BY <1>1, <1>3, <1>4 DEF Frame
<1> HIDE DEF g
<1>12. /\ gr \in Seq(Frame) /\ Len(gr) = n /\ gr[n] = g
       /\ \A i \in 1..(n - 1) : gr[i] = fr[i]
  BY <1>1, <1>11 DEF n
<1> HIDE DEF gr
<1>13. Allocated(w.tm) \in TermStruct /\ Allocated(w.tm).live = w.tm.live \cup {s}
       /\ Allocated(w.tm).ui_surface = w.tm.ui_surface
  BY <1>1, <1>3, BoxWinNewIs DEF s
<1>14. /\ v \in WorldStruct /\ v.frames = gr /\ v.tm = Allocated(w.tm) /\ v.init = u.init
       /\ v.lost = w.lost /\ v.status = w.status
  <2> DEFINE t == Allocated(w.tm)
  <2>1. v = [u EXCEPT !.frames = gr, !.tm = t]
    BY <1>9, <1>10
  <2> HIDE DEF t
  <2> QED
    BY <1>8, <1>12, <1>13, <2>1 DEF WorldStruct, t
<1>15. Whole(gr, v.init)
  <2>1. ButPreview(fr, gr)
    BY <1>11, <1>12 DEF ButPreview, n
  <2>2. fr # <<>> /\ Last(fr).kind = "pick" /\ Last(fr).stage = "run" /\ Last(fr).aux = Null
        /\ gr[Len(fr)].aux = o
    BY <1>11, <1>12 DEF fr, n
  <2>3. Whole(gr, Made(w.init, "view", o))
    BY <1>1, <1>4, <2>1, <2>2, PreviewWhole
  <2> QED
    BY <1>5, <1>14, <2>3
<1>16. Leak(gr, v.tm)
  <2>1. Leak(fr, w.tm)
    BY DEF Sound, fr
  <2>2. \A i \in 1..n : i = n \/ i \in 1..(n - 1)
    BY <1>1
  <2>3. fr[n].kind = "pick" /\ fr[n].aux = Null
    BY <1>1 DEF fr
  <2>0. /\ v.tm.live = w.tm.live \cup {s} /\ v.tm.ui_surface = w.tm.ui_surface
        /\ Len(gr) = n
    BY <1>12, <1>13, <1>14
  <2> SUFFICES ASSUME NEW r \in v.tm.live
               PROVE  \/ \E i \in 1..Len(v.tm.ui_surface) : v.tm.ui_surface[i] = r
                      \/ \E i \in 1..Len(gr) : gr[i].kind = "view" /\ gr[i].box = r
                      \/ \E i \in 1..Len(gr) : gr[i].aux # Null /\ gr[i].auxbox = r
    BY DEF Leak
  <2>4. CASE r = s
    <3>1. o # Null
      BY <1>4 DEF Id, Null
    <3>2. gr[n].aux = o /\ gr[n].auxbox = s /\ n \in 1..n
      BY <1>1, <1>11, <1>12
    <3> QED
      BY <2>0, <2>4, <3>1, <3>2
  <2>5. CASE r \in w.tm.live
    <3>1. \/ \E i \in 1..Len(w.tm.ui_surface) : w.tm.ui_surface[i] = r
          \/ \E i \in 1..n : fr[i].kind = "view" /\ fr[i].box = r
          \/ \E i \in 1..n : fr[i].aux # Null /\ fr[i].auxbox = r
      BY <2>1, <2>5 DEF Leak, n
    <3> QED
      <4>1. CASE \E i \in 1..n : fr[i].kind = "view" /\ fr[i].box = r
        <5>1. PICK i \in 1..n : fr[i].kind = "view" /\ fr[i].box = r
          BY <4>1
        <5>2. gr[i] = fr[i]
          BY <1>12, <2>2, <2>3, <5>1
        <5> QED
          BY <2>0, <5>1, <5>2
      <4>2. CASE \E i \in 1..n : fr[i].aux # Null /\ fr[i].auxbox = r
        <5>1. PICK i \in 1..n : fr[i].aux # Null /\ fr[i].auxbox = r
          BY <4>2
        <5>2. gr[i] = fr[i]
          BY <1>12, <2>2, <2>3, <5>1
        <5> QED
          BY <2>0, <5>1, <5>2
      <4> QED
        BY <2>0, <3>1, <4>1, <4>2
  <2> QED
    BY <2>0, <2>4, <2>5
<1>17. Typed(v) /\ Deep(gr)
  <2>1. Last(gr) = g /\ Last(fr) = fr[n]
    BY <1>1, <1>12 DEF Last, n
  <2> QED
    BY <1>1, <1>11, <1>12, <1>13, <1>14, <2>1 DEF Typed, Deep, Sound, n, fr
<1>18. o # Null
  BY <1>4 DEF Id, Null
<1> QED
  BY <1>1, <1>3, <1>11, <1>12, <1>14, <1>15, <1>16, <1>17, <1>18 DEF Sound, v, s, n, fr

LEMMA PopupPickFine ==
  ASSUME NEW w, Sound(w), w.status = "running", Len(w.frames) < MaxFrames,
         OnlyMenus(w.frames), NEW out \in Outcome("pick")
  PROVE  LET v == PopupPick(w, out) IN Fine(v) /\ Grows(w.frames, v.frames)
<1> DEFINE u == NewFrame(w, "pick")[1]
           f == NewFrame(w, "pick")[2]
           x == OpenBox(u, f)
           fr == w.frames
           n == Len(fr)
<1>0. "pick" \in Kind /\ n \in Nat /\ MaxFrames \in Nat /\ fr \in Seq(Frame)
  BY SessionAssumption DEF Kind, Sound, Typed, WorldStruct
<1>1. /\ Fine(x) /\ Grows(fr, x.frames)
      /\ x.status = w.status \/ x.status = "crashed"
      /\ x.status = "running" =>
             \E g \in Frame : /\ x.frames = Append(fr, g) /\ g.kind = "pick"
                              /\ g.aux = Null /\ g.stage = "run" /\ g.auxbox = NoSurface
  BY <1>0, StartBox
<1>2. PopupPick(w, out) = CASE out = "opens" -> x
                            [] out = "preview" -> IF x.status = "crashed" THEN x
                                                  ELSE WithPreview(x)
                            [] out = "bad" -> Fails(u, f)
  BY DEF PopupPick
<1>3. CASE out = "opens"
  BY <1>1, <1>2, <1>3
<1>4. CASE out = "preview"
  <2>1. CASE x.status = "crashed"
    BY <1>1, <1>2, <1>4, <2>1
  <2>2. CASE x.status # "crashed"
    <3> DEFINE v == WithPreview(x)
    <3> HIDE DEF x
    <3>1. x.status = "running" /\ Sound(x)
      BY <1>1, <2>2 DEF Fine
    <3>2. PICK g \in Frame : /\ x.frames = Append(fr, g) /\ g.kind = "pick"
                             /\ g.aux = Null /\ g.stage = "run" /\ g.auxbox = NoSurface
      BY <1>1, <3>1
    <3> HIDE DEF fr, v
    <3>3. Len(x.frames) = n + 1 /\ x.frames # <<>> /\ Last(x.frames) = g
          /\ \A i \in 1..n : x.frames[i] = fr[i]
      BY <1>0, <3>2 DEF Last, n
    <3>4. Sound(v) /\ Len(v.frames) = n + 1 /\ \A i \in 1..n : v.frames[i] = x.frames[i]
      <4>1. Len(x.frames) <= MaxFrames
        BY <1>0, <3>3 DEF n, fr
      <4>2. /\ Sound(v) /\ Len(v.frames) = Len(x.frames)
            /\ \A i \in 1..(Len(x.frames) - 1) : v.frames[i] = x.frames[i]
        BY <3>1, <3>2, <3>3, <4>1, PreviewSound DEF v
      <4>3. \A i \in 1..n : i \in 1..(Len(x.frames) - 1)
        BY <1>0, <3>3
      <4> QED
        BY <3>3, <4>2, <4>3
    <3>5. Grows(fr, v.frames)
      BY <1>0, <3>3, <3>4 DEF Grows, Kept, n
    <3> QED
      BY <1>2, <1>4, <2>2, <3>4, <3>5 DEF Fine, Sound, v, fr
  <2> QED
    BY <2>1, <2>2
<1>5. CASE out = "bad"
  <2>1. PopupPick(w, out) = Notice(Push(u, [f EXCEPT !.stage = "failed"]))
    BY <1>5 DEF PopupPick, Fails
  <2>2. InitOnly(u, w)
    <3>1. n <= MaxFrames
      BY <1>0
    <3> QED
      BY <1>0, <3>1, StartIs
  <2>3. u \in WorldStruct /\ u.frames = w.frames /\ u.tm = w.tm /\ u.status = w.status
    BY <2>2 DEF InitOnly
  <2> HIDE DEF u
  <2>4. LET v == Notice(Push(u, [f EXCEPT !.stage = "failed"]))
        IN  Fine(v) /\ Grows(w.frames, v.frames)
    BY <1>0, <2>3, StartFails DEF u
  <2> QED
    BY <2>1, <2>4
<1> QED
  BY <1>3, <1>4, <1>5 DEF Outcome

\* Every popup: what it leaves is sound, and its caller's engines are where they were.
LEMMA PopupFine ==
  ASSUME NEW w, Sound(w), w.status = "running", Len(w.frames) < MaxFrames,
         NEW k \in Kind, k \in {"menu", "pick"} => OnlyMenus(w.frames),
         NEW out \in Outcome(k)
  PROVE  LET v == Popup(w, k, out) IN Fine(v) /\ Grows(w.frames, v.frames)
<1>1. CASE k = "menu"
  BY <1>1, PopupMenuFine DEF Popup
<1>2. CASE k = "pick"
  BY <1>2, PopupPickFine DEF Popup
<1>3. CASE k = "form"
  BY <1>3, PopupFormFine DEF Popup
<1>4. CASE k = "view"
  BY <1>4, PopupViewFine DEF Popup
<1> QED
  BY <1>1, <1>2, <1>3, <1>4 DEF Kind

LEMMA PopupCkeysFine ==
  ASSUME NEW w, Sound(w), Len(w.frames) < MaxFrames
  PROVE  LET v == PopupCkeys(w) IN Fine(v) /\ Grows(w.frames, v.frames)
<1> DEFINE f == FrameOf("ckeys", Null, Null)
<1>0. Len(w.frames) \in Nat /\ MaxFrames \in Nat /\ w.frames \in Seq(Frame)
      /\ Len(w.frames) <= MaxFrames
  <2>1. Len(w.frames) \in Nat /\ w.frames \in Seq(Frame)
    BY DEF Sound, Typed, WorldStruct
  <2> QED
    BY <2>1, SessionAssumption
<1>1. f \in Frame /\ \A s \in Surface : [f EXCEPT !.box = s] \in Frame
  BY DEF FrameOf, Frame
<1>2. ASSUME NEW s \in Surface PROVE Whole(Append(w.frames, [f EXCEPT !.box = s]), w.init)
  <2> DEFINE g == [f EXCEPT !.box = s]
  <2>1. g \in Frame /\ g.kind = "ckeys" /\ g.obj = Null /\ g.aux = Null /\ g.stage = "run"
    BY <1>1 DEF FrameOf
  <2> HIDE DEF g
  <2>2. g.kind \notin Kind
    BY <2>1 DEF Kind
  <2>3. Whole(w.frames, w.init)
    BY DEF Sound
  <2>4. Whole(Append(w.frames, g), w.init)
    BY <2>1, <2>2, <2>3, PushWhole
  <2> QED
    BY <2>4 DEF g
<1>3. w \in WorldStruct /\ Len(w.tm.ui_surface) <= MaxWin + 1 /\ Leak(w.frames, w.tm)
  BY DEF Sound, Typed
<1>4. PopupCkeys(w) = OpenBox(w, f)
  BY DEF PopupCkeys
<1> HIDE DEF f
<1>5. /\ Fine(OpenBox(w, f)) /\ FreeSurface(w.tm) \in Surface
      /\ \/ OpenBox(w, f).frames = w.frames
         \/ OpenBox(w, f).frames = Append(w.frames, [f EXCEPT !.box = FreeSurface(w.tm)])
  BY <1>0, <1>1, <1>2, <1>3, OpenFine
<1>6. Grows(w.frames, OpenBox(w, f).frames)
  BY <1>0, <1>1, <1>5, GrowsOne
<1> QED
  BY <1>4, <1>5, <1>6

-----------------------------------------------------------------------------
(* The ends of the engines.                                                   *)

\* A structure that init points to is there to be destroyed.
LEMMA WholeEnds ==
  ASSUME NEW fr, NEW in, Whole(fr, in), NEW k \in Kind, in.ptr[k] # Null,
         k = "pick" => in.pick = in.ptr[k]
  PROVE  Ends(in, k)
<1> DEFINE n == Len(fr)
<1>1. fr \in Seq(Frame) /\ n \in Nat /\ in \in InitStruct
  BY DEF Whole
<1>2. in.ptr[k] = Inner(fr, n, k) /\ in.cnt[k] = Cardinality(HeldSet(fr, k))
  BY DEF Whole, Known
<1>3. PICK i \in Having(fr, n, k) : Inner(fr, n, k) = Held(fr[i])[k]
  BY <1>1, <1>2, InnerIs
<1>4. HeldSet(fr, k) # {} /\ IsFiniteSet(HeldSet(fr, k))
      /\ Cardinality(HeldSet(fr, k)) \in Nat
  <2>1. in.ptr[k] \in HeldSet(fr, k)
    BY <1>2, <1>3 DEF HeldSet, Having
  <2> QED
    BY <1>1, <2>1, HeldSetType
<1>5. Cardinality(HeldSet(fr, k)) # 0
  <2>1. IsFiniteSet(HeldSet(fr, k))
    BY <1>4
  <2>2. Cardinality(HeldSet(fr, k)) = 0 <=> HeldSet(fr, k) = {}
    BY <2>1, FS_EmptySet
  <2> QED
    BY <1>4, <2>2
<1>6. in.cnt[k] \in 0..(MaxFrames + 1)
  BY <1>1 DEF InitStruct
<1> QED
  BY <1>2, <1>4, <1>5, <1>6, SessionAssumption DEF Ends

LEMMA OtherEnds ==
  ASSUME NEW in \in InitStruct, NEW k \in Kind, k # "view",
         NEW p \in Id \cup {Null}
  PROVE  /\ Unmade(in, k, p).ptr["view"] = in.ptr["view"]
         /\ Ends(in, "view") => Ends(Unmade(in, k, p), "view")
<1>1. "view" \in Kind
  BY DEF Kind
<1>2. /\ Unmade(in, k, p).ptr["view"] = in.ptr["view"]
      /\ Unmade(in, k, p).cnt["view"] = in.cnt["view"]
  BY <1>1 DEF Unmade, InitStruct
<1> QED
  BY <1>2 DEF Ends

\* What the running engine worked on is there.
LEMMA LastEnds ==
  ASSUME NEW w, Sound(w), w.frames # <<>>, NEW k \in Kind, Last(w.frames).kind = k,
         Last(w.frames).aux = Null
  PROVE  Ends(w.init, k)
<1>1. Whole(w.frames, w.init)
  BY DEF Sound
<1>2. w.init.ptr[k] # Null /\ (k = "pick" => w.init.pick = w.init.ptr[k])
  BY <1>1, EndWhole
<1> QED
  BY <1>1, <1>2, WholeEnds

LEMMA ViewEnds ==
  ASSUME NEW w, Sound(w)
  PROVE  w.init.ptr["view"] # Null => Ends(w.init, "view")
  BY WholeEnds DEF Sound, Kind

\* Windows that are closed.
LEMMA CloseSound ==
  ASSUME NEW w, Sound(w), NEW s
  PROVE  /\ Sound(CloseTop(w, s)) /\ TermOnly(CloseTop(w, s), w)
         /\ CloseTop(w, s).tm = CmSurfaceDestroy(w.tm, s)
<1> DEFINE u == CmSurfaceDestroy(w.tm, s)
           m == Len(w.tm.ui_surface)
           v == CloseTop(w, s)
<1>1. /\ w \in WorldStruct /\ w.tm \in TermStruct /\ m \in Nat /\ m <= MaxWin + 1
      /\ Leak(w.frames, w.tm) /\ MaxWin \in Nat
  BY TerminalAssumption DEF Sound, Typed, WorldStruct, TermStruct
<1>2. /\ u \in TermStruct
      /\ \/ u = w.tm
         \/ /\ m \in Nat \ {0} /\ w.tm.ui_surface[m] = s /\ u.live = w.tm.live \ {s}
            /\ Len(u.ui_surface) = m - 1
            /\ \A i \in 1..(m - 1) : u.ui_surface[i] = w.tm.ui_surface[i]
  BY <1>1, CloseIs
<1>3. TermOnly(v, w) /\ v.tm = u
  BY <1>1, CloseTopIs
<1> HIDE DEF u, v
<1>4. Leak(w.frames, u)
  <2>1. CASE u = w.tm
    BY <1>1, <2>1
  <2>2. CASE /\ m \in Nat \ {0} /\ w.tm.ui_surface[m] = s /\ u.live = w.tm.live \ {s}
             /\ Len(u.ui_surface) = m - 1
             /\ \A i \in 1..(m - 1) : u.ui_surface[i] = w.tm.ui_surface[i]
    <3>1. \A i \in 1..m : i = m \/ i \in 1..(m - 1)
      BY <1>1
    <3> QED
      BY <1>1, <2>2, <3>1 DEF Leak
  <2> QED
    BY <1>2, <2>1, <2>2
<1>5. Len(u.ui_surface) <= MaxWin + 1
  BY <1>1, <1>2
<1> QED
  BY <1>3, <1>4, <1>5 DEF Sound, Typed, TermOnly, u, v

LEMMA FreeSound ==
  ASSUME NEW w, Sound(w), NEW s
  PROVE  /\ Sound(Free(w, s)) /\ TermOnly(Free(w, s), w)
         /\ Free(w, s).tm.live = w.tm.live \ {s}
<1> DEFINE v == Free(w, s)
<1>1. /\ TermOnly(v, w) /\ v.tm.ui_surface = w.tm.ui_surface /\ v.tm.live = w.tm.live \ {s}
  BY FreeIs DEF Sound, Typed
<1> HIDE DEF v
<1>2. Leak(v.frames, v.tm)
  BY <1>1 DEF Sound, Leak, TermOnly
<1> QED
  BY <1>1, <1>2 DEF Sound, Typed, TermOnly, v

LEMMA LeakFront ==
  ASSUME NEW fr \in Seq(Frame), fr # <<>>, NEW t, Leak(fr, t),
         Last(fr).kind = "view" => Last(fr).box \notin t.live,
         Last(fr).aux # Null => Last(fr).auxbox \notin t.live
  PROVE  Leak(Front(fr), t)
<1> DEFINE n == Len(fr)
           g == Front(fr)
<1>1. /\ Len(g) = n - 1 /\ n \in Nat \ {0} /\ Last(fr) = fr[n]
      /\ \A i \in 1..(n - 1) : g[i] = fr[i]
  BY FrontFrame
<1> HIDE DEF g
<1>2. \A i \in 1..n : i = n \/ i \in 1..(n - 1)
  BY <1>1
<1>3. ASSUME NEW s \in t.live
      PROVE  \/ \E i \in 1..Len(t.ui_surface) : t.ui_surface[i] = s
             \/ \E i \in 1..(n - 1) : g[i].kind = "view" /\ g[i].box = s
             \/ \E i \in 1..(n - 1) : g[i].aux # Null /\ g[i].auxbox = s
  <2>1. \/ \E i \in 1..Len(t.ui_surface) : t.ui_surface[i] = s
        \/ \E i \in 1..n : fr[i].kind = "view" /\ fr[i].box = s
        \/ \E i \in 1..n : fr[i].aux # Null /\ fr[i].auxbox = s
    BY DEF Leak
  <2>2. ~(fr[n].kind = "view" /\ fr[n].box = s) /\ ~(fr[n].aux # Null /\ fr[n].auxbox = s)
    BY <1>1
  <2> HIDE DEF n
  <2> QED
    BY <1>1, <1>2, <2>1, <2>2
<1>4. Leak(g, t)
  BY <1>1, <1>3 DEF Leak
<1> QED
  BY <1>4 DEF g

LEMMA ShrinksOne ==
  ASSUME NEW fr \in Seq(Frame), fr # <<>>
  PROVE  Shrinks(fr, Front(fr))
<1>1. /\ Len(Front(fr)) = Len(fr) - 1 /\ Len(fr) - 1 \in Nat
      /\ \A i \in 1..(Len(fr) - 1) : Front(fr)[i] = fr[i]
  BY FrontFrame
<1> QED
  BY <1>1 DEF Shrinks, Drops, Kept

\* The call stack is one shorter and v knows what it should.
LEMMA PopSound ==
  ASSUME NEW w, Sound(w), w.frames # <<>>,
         Last(w.frames).kind = "view" => Last(w.frames).box \notin w.tm.live,
         Last(w.frames).aux # Null => Last(w.frames).auxbox \notin w.tm.live,
         NEW v \in WorldStruct, v.frames = Front(w.frames), v.tm = w.tm,
         Whole(v.frames, v.init)
  PROVE  Sound(v) /\ Shrinks(w.frames, v.frames)
<1>1. w.frames \in Seq(Frame) /\ Len(w.frames) <= MaxFrames + 1 /\ MaxFrames \in Nat
      /\ Leak(w.frames, w.tm) /\ Len(w.tm.ui_surface) <= MaxWin + 1
  BY SessionAssumption DEF Sound, Typed, WorldStruct
<1>2. Len(v.frames) = Len(w.frames) - 1 /\ Len(w.frames) \in Nat
  BY <1>1, FrontFrame
<1>3. Leak(v.frames, v.tm)
  BY <1>1, LeakFront
<1>4. Typed(v) /\ Deep(v.frames)
  BY <1>1, <1>2 DEF Typed, Deep
<1> QED
  BY <1>1, <1>3, <1>4, ShrinksOne DEF Sound

\* An engine gives its structure back and its caller goes on.
LEMMA BackSound ==
  ASSUME NEW w, Sound(w), w.frames # <<>>, NEW k \in Kind, Last(w.frames).kind = k,
         Last(w.frames).aux = Null, k = "view" => Last(w.frames).box \notin w.tm.live,
         NEW v \in WorldStruct, v.frames = Front(w.frames), v.tm = w.tm,
         v.init = Unmade(w.init, k, Last(w.frames).saved)
  PROVE  Sound(v) /\ Shrinks(w.frames, v.frames)
<1>1. Whole(v.frames, v.init)
  BY EndWhole DEF Sound
<1> QED
  BY <1>1, PopSound

\* The end of main.
LEMMA EndMainFine ==
  ASSUME NEW w \in WorldStruct, w.frames # <<>>, Len(w.frames) <= MaxFrames + 1,
         Len(w.tm.ui_surface) <= MaxWin + 1,
         w.init.ptr["view"] # Null => Ends(w.init, "view")
  PROVE  LET v == EndMain(w)
         IN  /\ Fine(v) /\ Shrinks(w.frames, v.frames) /\ v.status = "exited"
             /\ v.tm = DestroyCurses(w.tm) /\ v.lost = w.lost
<1> DEFINE p == Pop(w)
           d == Destroy(p, "view")
           v == EndMain(w)
<1>1. FramesOnly(p, w) /\ p.frames = Front(w.frames) /\ "view" \in Kind
      /\ w.frames \in Seq(Frame)
  BY PopIs DEF Kind, WorldStruct
<1> HIDE DEF p
<1>2. p \in WorldStruct /\ p.init = w.init /\ p.tm = w.tm /\ p.lost = w.lost
  BY <1>1 DEF FramesOnly
<1>3. d \in WorldStruct /\ d.frames = p.frames /\ d.tm = p.tm /\ d.lost = p.lost
  <2>1. CASE w.init.ptr["view"] = Null
    <3>1. d = p
      BY <1>1, <1>2, <2>1, DestroyNothing
    <3> QED
      BY <1>2, <3>1
  <2>2. CASE w.init.ptr["view"] # Null
    <3>1. InitOnly(d, p)
      BY <1>1, <1>2, <2>2, DestroyIs
    <3> QED
      BY <3>1 DEF InitOnly
  <2> QED
    BY <2>1, <2>2
<1>4. v = [d EXCEPT !.tm = DestroyCurses(@), !.status = "exited"]
  BY DEF EndMain, d, p
<1> HIDE DEF d
<1>5. DestroyCurses(w.tm) \in TermStruct /\ Len(DestroyCurses(w.tm).ui_surface) <= MaxWin + 1
  <2>1. w.tm \in TermStruct /\ Len(<<>>) = 0 /\ MaxWin \in Nat
    BY TerminalAssumption DEF WorldStruct
  <2> QED
    BY <2>1, DestroyCursesIs
<1>6. v = [d EXCEPT !.tm = DestroyCurses(w.tm), !.status = "exited"]
  BY <1>2, <1>3, <1>4 DEF WorldStruct
<1> HIDE DEF v
<1>7. /\ v \in WorldStruct /\ v.frames = d.frames /\ v.tm = DestroyCurses(w.tm)
      /\ v.status = "exited" /\ v.lost = d.lost
  <2> DEFINE t == DestroyCurses(w.tm)
  <2> HIDE DEF t
  <2>1. t \in TermStruct /\ v = [d EXCEPT !.tm = t, !.status = "exited"]
    BY <1>5, <1>6 DEF t
  <2>2. /\ v \in WorldStruct /\ v.frames = d.frames /\ v.tm = t /\ v.status = "exited"
        /\ v.lost = d.lost
    BY <1>3, <2>1 DEF WorldStruct, Status
  <2> QED
    BY <2>2 DEF t
<1>8. Len(Front(w.frames)) = Len(w.frames) - 1 /\ Len(w.frames) \in Nat
  BY <1>1, FrontFrame
<1>9. Fine(v)
  BY <1>1, <1>3, <1>5, <1>7, <1>8, SessionAssumption DEF Fine, Typed
<1> QED
  BY <1>1, <1>2, <1>3, <1>7, <1>9, ShrinksOne DEF v

\* The engine that ends is alone, and the program ends with it, or has a caller; t is the
\* terminal without its windows.
Ended(v, w, t) ==
    /\ v.lost = w.lost
    /\ IF IsRoot(w) THEN v.status = "exited" /\ v.tm = DestroyCurses(t)
       ELSE v.status = "running" /\ v.frames = Front(w.frames) /\ v.tm = t

LEMMA EndMenuFine ==
  ASSUME NEW w, Sound(w), w.status = "running", w.frames # <<>>,
         Last(w.frames).kind = "menu", Last(w.frames).aux = Null
  PROVE  LET v == EndMenu(w)
             t == CmSurfaceDestroy(w.tm, Last(w.frames).box)
         IN  /\ Fine(v) /\ (Shrinks(w.frames, v.frames) \/ v.frames = w.frames)
             /\ \/ Ended(v, w, t)
                \/ /\ v.lost = w.lost /\ v.status = "crashed" /\ ~IsRoot(w)
                   /\ t.ui_surface = <<>>
<1> DEFINE c == CloseTop(w, Last(w.frames).box)
           d == Destroy(c, "menu")
           u == IF c.tm.ui_surface = <<>> THEN d ELSE c
<1>1. Sound(c) /\ TermOnly(c, w) /\ "menu" \in Kind /\ "menu" # "view"
      /\ c.tm = CmSurfaceDestroy(w.tm, Last(w.frames).box)
  BY CloseSound DEF Kind
<1>2. EndMenu(w) = IF IsRoot(w) THEN EndMain(u) ELSE Back(u, "menu")
  BY DEF EndMenu
<1> HIDE DEF c
<1>3. /\ c \in WorldStruct /\ c.frames = w.frames /\ c.status = "running"
      /\ Len(c.frames) <= MaxFrames + 1 /\ Len(c.tm.ui_surface) <= MaxWin + 1
      /\ c.init \in InitStruct /\ c.lost = w.lost
  BY <1>1 DEF TermOnly, Sound, Typed, WorldStruct
<1>4. Ends(c.init, "menu")
  BY <1>1, <1>3, LastEnds
<1>5. InitOnly(d, c) /\ d.init = Unmade(c.init, "menu", Null)
  BY <1>1, <1>3, <1>4, DestroyIs
<1>6. d.init.ptr["menu"] = Null
  BY <1>1, <1>3, <1>4, <1>5, UnmadeIs DEF Ends
<1> HIDE DEF d
<1>7. /\ d \in WorldStruct /\ d.frames = w.frames /\ d.tm = c.tm /\ d.status = "running"
      /\ d.lost = w.lost
  BY <1>3, <1>5 DEF InitOnly
<1>8. CASE IsRoot(w)
  <2>1. c.init.ptr["view"] # Null => Ends(c.init, "view")
    BY <1>1, ViewEnds
  <2>2. d.init.ptr["view"] # Null => Ends(d.init, "view")
    BY <1>1, <1>3, <1>5, <2>1, OtherEnds
  <2>3. /\ u \in WorldStruct /\ u.frames = w.frames /\ Len(u.tm.ui_surface) <= MaxWin + 1
        /\ u.init.ptr["view"] # Null => Ends(u.init, "view")
        /\ u.tm = c.tm /\ u.lost = w.lost
    BY <1>3, <1>7, <2>1, <2>2
  <2> HIDE DEF u
  <2>4. /\ Fine(EndMain(u)) /\ Shrinks(w.frames, EndMain(u).frames)
        /\ EndMain(u).status = "exited" /\ EndMain(u).tm = DestroyCurses(c.tm)
        /\ EndMain(u).lost = w.lost
    BY <1>3, <2>3, EndMainFine
  <2> QED
    BY <1>1, <1>2, <1>8, <2>4 DEF Ended
<1>9. CASE ~IsRoot(w) /\ c.tm.ui_surface = <<>>
  <2>1. Destroy(d, "menu") = Crashed(d)
    BY <1>6 DEF Destroy
  <2>2. /\ Crashed(d) \in WorldStruct /\ Crashed(d).frames = w.frames
        /\ Crashed(d).tm = c.tm /\ Crashed(d).status = "crashed"
        /\ Crashed(d).lost = w.lost
    BY <1>7, CrashedIs
  <2>3. Back(d, "menu") = Crashed(d)
    BY <2>1, <2>2 DEF Back
  <2>4. Fine(Crashed(d))
    BY <1>3, <2>2 DEF Fine, Typed
  <2> QED
    BY <1>1, <1>2, <1>9, <2>2, <2>3, <2>4
<1>10. CASE ~IsRoot(w) /\ c.tm.ui_surface # <<>>
  <2> DEFINE v == Back(c, "menu")
  <2>1. /\ v \in WorldStruct /\ v.frames = Front(c.frames) /\ v.tm = c.tm
        /\ v.status = c.status /\ v.init = Unmade(c.init, "menu", Last(c.frames).saved)
        /\ v.lost = c.lost
    BY <1>1, <1>3, <1>4, BackIs
  <2> HIDE DEF v
  <2>2. Sound(v) /\ Shrinks(w.frames, v.frames)
    BY <1>1, <1>3, <2>1, BackSound
  <2> QED
    BY <1>1, <1>2, <1>3, <1>10, <2>1, <2>2 DEF Fine, Sound, v, Ended
<1> QED
  BY <1>8, <1>9, <1>10

\* A pick without a preview, whose window is closed.
LEMMA GiveUpPickFine ==
  ASSUME NEW w, Sound(w), w.status = "running", w.frames # <<>>,
         Last(w.frames).kind = "pick", Last(w.frames).aux = Null
  PROVE  LET v == GiveUpPick(w)
         IN  Fine(v) /\ Shrinks(w.frames, v.frames) /\ Ended(v, w, w.tm)
<1>1. /\ w \in WorldStruct /\ Len(w.frames) <= MaxFrames + 1 /\ "pick" \in Kind
      /\ Len(w.tm.ui_surface) <= MaxWin + 1
  BY DEF Sound, Typed, Kind
<1>2. CASE IsRoot(w)
  <2>1. /\ Fine(EndMain(w)) /\ Shrinks(w.frames, EndMain(w).frames)
        /\ EndMain(w).status = "exited" /\ EndMain(w).tm = DestroyCurses(w.tm)
        /\ EndMain(w).lost = w.lost
    BY <1>1, ViewEnds, EndMainFine
  <2> QED
    BY <1>2, <2>1 DEF GiveUpPick, Ended
<1>3. CASE ~IsRoot(w)
  <2> DEFINE v == Back(w, "pick")
  <2>1. Ends(w.init, "pick")
    BY <1>1, LastEnds
  <2>2. /\ v \in WorldStruct /\ v.frames = Front(w.frames) /\ v.tm = w.tm
        /\ v.status = w.status /\ v.init = Unmade(w.init, "pick", Last(w.frames).saved)
        /\ v.lost = w.lost
    BY <1>1, <2>1, BackIs
  <2>3. GiveUpPick(w) = v
    BY <1>3 DEF GiveUpPick
  <2> HIDE DEF v
  <2>4. Sound(v) /\ Shrinks(w.frames, v.frames)
    BY <1>1, <2>2, BackSound
  <2> QED
    BY <1>3, <2>2, <2>3, <2>4 DEF Fine, Sound, Ended
<1> QED
  BY <1>2, <1>3

\* A pick with a preview: the preview is destroyed first.
LEMMA PreviewEnds ==
  ASSUME NEW w, Sound(w), w.status = "running", w.frames # <<>>,
         Last(w.frames).kind = "pick", Last(w.frames).aux # Null
  PROVE  LET u == Destroy(Free(w, Last(w.frames).auxbox), "view")
         IN  /\ InitOnly(u, Free(w, Last(w.frames).auxbox))
             /\ u.init.ptr["view"] = Null /\ u.frames = w.frames /\ u.status = "running"
             /\ Ends(u.init, "pick")
             /\ \A v \in WorldStruct :
                    /\ v.frames = Front(w.frames) /\ v.tm = u.tm
                    /\ v.init = Unmade(u.init, "pick", Last(w.frames).saved)
                    => Sound(v) /\ Shrinks(w.frames, v.frames)
<1> DEFINE x == Free(w, Last(w.frames).auxbox)
           u == Destroy(x, "view")
           fr == w.frames
           n == Len(fr)
           f == [fr[n] EXCEPT !.aux = Null]
           gr == [fr EXCEPT ![n] = f]
           y == [u EXCEPT !.frames = gr]
<1>1. /\ Sound(x) /\ TermOnly(x, w) /\ x.tm.live = w.tm.live \ {Last(w.frames).auxbox}
  BY FreeSound
<1>2. /\ fr \in Seq(Frame) /\ n \in Nat \ {0} /\ Last(fr) = fr[n] /\ fr[n] \in Frame
      /\ n - 1 \in Nat /\ n \in 1..n
  BY FrontFrame DEF Sound, Typed, WorldStruct
<1> HIDE DEF x, fr, n
<1>3. /\ x \in WorldStruct /\ x.frames = fr /\ x.status = "running" /\ x.lost = w.lost
      /\ Whole(fr, x.init) /\ x.init \in InitStruct
  BY <1>1 DEF TermOnly, Sound, Whole, fr
<1>4. /\ f \in Frame /\ f.kind = fr[n].kind /\ f.obj = fr[n].obj /\ f.saved = fr[n].saved
      /\ f.stage = fr[n].stage /\ f.aux = Null /\ f.box = fr[n].box
  BY <1>2 DEF Frame
<1> HIDE DEF f
<1>5. /\ gr \in Seq(Frame) /\ Len(gr) = n /\ gr[n] = f
      /\ \A i \in 1..(n - 1) : gr[i] = fr[i]
  BY <1>2, <1>4 DEF n
<1> HIDE DEF gr
<1>6. ButPreview(fr, gr) /\ gr[Len(fr)].aux = Null
  BY <1>4, <1>5 DEF ButPreview, n
<1>7. fr # <<>> /\ Last(fr).kind = "pick" /\ Last(fr).aux # Null
  BY DEF fr
<1>8. Ends(x.init, "view") /\ Whole(gr, Unmade(x.init, "view", Null))
  BY <1>3, <1>6, <1>7, NoPreviewWhole
<1>9. InitOnly(u, x) /\ u.init = Unmade(x.init, "view", Null) /\ "view" \in Kind
      /\ "pick" \in Kind
  BY <1>3, <1>8, DestroyIs DEF Kind
<1>10. u.init.ptr["view"] = Null
  BY <1>3, <1>8, <1>9, UnmadeIs DEF Ends
<1> HIDE DEF u
<1>11. u \in WorldStruct /\ u.frames = fr /\ u.tm = x.tm /\ u.status = "running"
  BY <1>3, <1>9 DEF InitOnly
<1>12. /\ y \in WorldStruct /\ y.frames = gr /\ y.tm = x.tm /\ y.init = u.init
       /\ y.status = "running"
  BY <1>5, <1>11 DEF WorldStruct
<1> HIDE DEF y
<1>13. Leak(gr, x.tm)
  <2>1. Leak(fr, x.tm) /\ fr[n].auxbox \notin x.tm.live
    BY <1>1, <1>2, <1>3 DEF Sound, fr
  <2>2. \A i \in 1..n : i = n \/ i \in 1..(n - 1)
    BY <1>2
  <2>3. ASSUME NEW s \in x.tm.live
        PROVE  \/ \E i \in 1..Len(x.tm.ui_surface) : x.tm.ui_surface[i] = s
               \/ \E i \in 1..n : gr[i].kind = "view" /\ gr[i].box = s
               \/ \E i \in 1..n : gr[i].aux # Null /\ gr[i].auxbox = s
    <3>1. \/ \E i \in 1..Len(x.tm.ui_surface) : x.tm.ui_surface[i] = s
          \/ \E i \in 1..n : fr[i].kind = "view" /\ fr[i].box = s
          \/ \E i \in 1..n : fr[i].aux # Null /\ fr[i].auxbox = s
      BY <2>1 DEF Leak, n
    <3>2. \A i \in 1..n : gr[i].kind = fr[i].kind /\ gr[i].box = fr[i].box
      BY <1>4, <1>5, <2>2
    <3>3. \A i \in 1..n : fr[i].auxbox = s => gr[i] = fr[i]
      BY <1>5, <2>1, <2>2
    <3> QED
      BY <3>1, <3>2, <3>3
  <2> QED
    BY <1>5, <2>3 DEF Leak
<1>14. Last(gr) = f /\ gr # <<>>
  BY <1>2, <1>5 DEF Last
<1>15. Sound(y)
  <2>1. Deep(gr) /\ n <= MaxFrames + 1
    BY <1>1, <1>2, <1>3, <1>4, <1>5, <1>14 DEF Deep, Sound, Typed, n
  <2>2. Typed(y)
    BY <1>1, <1>5, <1>12, <2>1 DEF Typed, Sound
  <2> QED
    BY <1>8, <1>9, <1>12, <1>13, <2>1, <2>2 DEF Sound
<1>16. Ends(u.init, "pick")
  <2>1. Ends(y.init, "pick")
    BY <1>4, <1>7, <1>2, <1>9, <1>12, <1>14, <1>15, LastEnds
  <2> QED
    BY <1>12, <2>1
<1>17. Front(gr) = Front(fr)
  <2>1. /\ Front(gr) \in Seq(Frame) /\ Len(Front(gr)) = n - 1
        /\ \A i \in 1..(n - 1) : Front(gr)[i] = gr[i]
    BY <1>5, <1>14, FrontFrame
  <2>2. /\ Front(fr) \in Seq(Frame) /\ Len(Front(fr)) = n - 1
        /\ \A i \in 1..(n - 1) : Front(fr)[i] = fr[i]
    BY <1>2, <1>7, FrontFrame DEF n
  <2>3. \A a, b \in Seq(Frame) : Len(a) = Len(b) /\ (\A i \in 1..Len(a) : a[i] = b[i])
                                 => a = b
    OBVIOUS
  <2> HIDE DEF n
  <2> QED
    BY <1>5, <2>1, <2>2, <2>3
<1>18. ASSUME NEW v \in WorldStruct, v.frames = Front(fr), v.tm = u.tm,
              v.init = Unmade(u.init, "pick", Last(fr).saved)
       PROVE  Sound(v) /\ Shrinks(fr, v.frames)
  <2>1. Last(gr).saved = Last(fr).saved /\ Last(gr).kind = "pick" /\ Last(gr).aux = Null
    BY <1>2, <1>4, <1>7, <1>14
  <2>2. Sound(v)
    <3>1. v.frames = Front(y.frames) /\ v.tm = y.tm /\ Last(y.frames).kind = "pick"
          /\ Last(y.frames).aux = Null /\ y.frames # <<>>
          /\ v.init = Unmade(y.init, "pick", Last(y.frames).saved)
      BY <1>11, <1>12, <1>14, <1>17, <1>18, <2>1
    <3> QED
      BY <1>9, <1>15, <1>18, <3>1, BackSound
  <2> QED
    BY <1>2, <1>7, <1>18, <2>2, ShrinksOne
<1> QED
  BY <1>9, <1>10, <1>11, <1>16, <1>18 DEF u, x, fr

LEMMA EndPickFine ==
  ASSUME NEW w, Sound(w), w.status = "running", w.frames # <<>>,
         Last(w.frames).kind = "pick"
  PROVE  LET v == EndPick(w)
             f == Last(w.frames)
             t == CmSurfaceDestroy(w.tm, f.box)
         IN  /\ Fine(v) /\ Shrinks(w.frames, v.frames)
             /\ Ended(v, w, IF f.aux = Null THEN t ELSE SurfaceDestroy(t, f.auxbox))
<1> DEFINE f == Last(w.frames)
           c == CloseTop(w, f.box)
           u == Destroy(Free(c, f.auxbox), "view")
<1>1. Sound(c) /\ TermOnly(c, w) /\ c.tm = CmSurfaceDestroy(w.tm, f.box)
  BY CloseSound
<1>2. EndPick(w) = LET x == IF f.aux = Null THEN c ELSE u
                   IN  IF IsRoot(w) THEN EndMain(x) ELSE Back(x, "pick")
  BY DEF EndPick
<1> HIDE DEF c
<1>3. c.frames = w.frames /\ c.status = "running" /\ c.lost = w.lost
  BY <1>1 DEF TermOnly
<1>4. CASE f.aux = Null
  <2>1. EndPick(w) = GiveUpPick(c)
    BY <1>2, <1>3, <1>4 DEF GiveUpPick, IsRoot
  <2>2. Fine(EndPick(w)) /\ Shrinks(w.frames, EndPick(w).frames) /\ Ended(EndPick(w), c, c.tm)
    BY <1>1, <1>3, <1>4, <2>1, GiveUpPickFine
  <2>3. Ended(EndPick(w), w, c.tm)
    BY <1>3, <2>2 DEF Ended, IsRoot
  <2> QED
    BY <1>1, <1>4, <2>2, <2>3
<1>5. CASE f.aux # Null
  <2>1. /\ InitOnly(u, Free(c, f.auxbox)) /\ u.init.ptr["view"] = Null
        /\ u.frames = w.frames /\ u.status = "running" /\ Ends(u.init, "pick")
        /\ \A v \in WorldStruct :
               /\ v.frames = Front(w.frames) /\ v.tm = u.tm
               /\ v.init = Unmade(u.init, "pick", Last(w.frames).saved)
               => Sound(v) /\ Shrinks(w.frames, v.frames)
    BY <1>1, <1>3, <1>5, PreviewEnds
  <2>2. /\ Sound(Free(c, f.auxbox)) /\ Free(c, f.auxbox).lost = w.lost
        /\ Free(c, f.auxbox).tm = SurfaceDestroy(c.tm, f.auxbox)
    BY <1>1, <1>3, FreeSound, FreeIs DEF TermOnly
  <2>3. /\ u \in WorldStruct /\ Len(u.frames) <= MaxFrames + 1
        /\ Len(u.tm.ui_surface) <= MaxWin + 1 /\ u.lost = w.lost
        /\ u.tm = SurfaceDestroy(c.tm, f.auxbox)
    BY <2>1, <2>2 DEF InitOnly, Sound, Typed
  <2> HIDE DEF u
  <2>4. CASE IsRoot(w)
    <3>1. /\ Fine(EndMain(u)) /\ Shrinks(w.frames, EndMain(u).frames)
          /\ EndMain(u).status = "exited" /\ EndMain(u).tm = DestroyCurses(u.tm)
          /\ EndMain(u).lost = w.lost
      BY <2>1, <2>3, EndMainFine
    <3> QED
      BY <1>1, <1>2, <1>5, <2>3, <2>4, <3>1 DEF Ended
  <2>5. CASE ~IsRoot(w)
    <3> DEFINE v == Back(u, "pick")
    <3>1. /\ v \in WorldStruct /\ v.frames = Front(u.frames) /\ v.tm = u.tm
          /\ v.init = Unmade(u.init, "pick", Last(u.frames).saved)
          /\ v.lost = w.lost /\ v.status = "running"
      BY <2>1, <2>3, BackIs DEF Kind
    <3>2. EndPick(w) = v
      BY <1>2, <1>5, <2>5
    <3> HIDE DEF v
    <3>3. Sound(v) /\ Shrinks(w.frames, v.frames)
      BY <2>1, <3>1
    <3> QED
      BY <1>1, <1>5, <2>1, <2>3, <2>5, <3>1, <3>2, <3>3 DEF Fine, Sound, Ended
  <2> QED
    BY <2>4, <2>5
<1> QED
  BY <1>4, <1>5

\* The engines that destroy their structure before popups.c does.
LEMMA SelfDestroyed ==
  ASSUME NEW w, Sound(w), w.status = "running", w.frames # <<>>,
         NEW k \in {"form", "view"}, Last(w.frames).kind = k, Last(w.frames).aux = Null,
         k = "view" => Last(w.frames).box \notin w.tm.live
  PROVE  LET d == Destroy(w, k)
             v == IF IsRoot(w) THEN EndMain(d) ELSE Back(d, k)
         IN  Fine(v) /\ Shrinks(w.frames, v.frames) /\ Ended(v, w, w.tm)
<1> DEFINE d == Destroy(w, k)
<1>1. /\ w \in WorldStruct /\ Len(w.frames) <= MaxFrames + 1 /\ k \in Kind /\ k # "menu"
      /\ Len(w.tm.ui_surface) <= MaxWin + 1 /\ w.init \in InitStruct
  BY DEF Sound, Typed, Kind, WorldStruct
<1>2. Ends(w.init, k)
  BY <1>1, LastEnds
<1>3. CASE IsRoot(w)
  <2>1. InitOnly(d, w) /\ d.init = Unmade(w.init, k, Null)
    BY <1>1, <1>2, DestroyIs
  <2>2. d.init.ptr["view"] # Null => Ends(d.init, "view")
    <3>1. CASE k = "view"
      BY <1>1, <1>2, <2>1, <3>1, UnmadeIs DEF Ends
    <3>2. CASE k # "view"
      BY <1>1, <2>1, <3>2, OtherEnds, ViewEnds
    <3> QED
      BY <3>1, <3>2
  <2> HIDE DEF d
  <2>3. /\ Fine(EndMain(d)) /\ Shrinks(w.frames, EndMain(d).frames)
        /\ EndMain(d).status = "exited" /\ EndMain(d).tm = DestroyCurses(w.tm)
        /\ EndMain(d).lost = w.lost
    BY <1>1, <2>1, <2>2, EndMainFine DEF InitOnly
  <2> QED
    BY <1>3, <2>3 DEF d, Ended
<1>4. CASE ~IsRoot(w)
  <2> DEFINE v == Back(d, k)
  <2>1. /\ v \in WorldStruct /\ v.frames = Front(w.frames) /\ v.tm = w.tm
        /\ v.init = Unmade(w.init, k, Last(w.frames).saved)
        /\ v.lost = w.lost /\ v.status = "running"
    BY <1>1, <1>2, BackEmpty
  <2> HIDE DEF v
  <2>2. Sound(v) /\ Shrinks(w.frames, v.frames)
    BY <1>1, <2>1, BackSound
  <2> QED
    BY <1>4, <2>1, <2>2 DEF Fine, Sound, v, Ended
<1> QED
  BY <1>3, <1>4

LEMMA GiveUpFormFine ==
  ASSUME NEW w, Sound(w), w.status = "running", w.frames # <<>>,
         Last(w.frames).kind = "form", Last(w.frames).aux = Null
  PROVE  LET v == GiveUpForm(w)
         IN  Fine(v) /\ Shrinks(w.frames, v.frames) /\ Ended(v, w, w.tm)
<1>1. GiveUpForm(w) = IF IsRoot(w) THEN EndMain(Destroy(w, "form"))
                      ELSE Back(Destroy(w, "form"), "form")
  BY DEF GiveUpForm
<1> QED
  BY <1>1, SelfDestroyed

LEMMA EndFormFine ==
  ASSUME NEW w, Sound(w), w.status = "running", w.frames # <<>>,
         Last(w.frames).kind = "form", Last(w.frames).aux = Null
  PROVE  LET v == EndForm(w)
         IN  /\ Fine(v) /\ Shrinks(w.frames, v.frames)
             /\ Ended(v, w, CmSurfaceDestroy(w.tm, Top(w.tm)))
<1> DEFINE c == CloseTop(w, Top(w.tm))
<1>1. Sound(c) /\ TermOnly(c, w) /\ c.tm = CmSurfaceDestroy(w.tm, Top(w.tm))
  BY CloseSound
<1> HIDE DEF c
<1>2. c.frames = w.frames /\ c.status = "running" /\ c.lost = w.lost
  BY <1>1 DEF TermOnly
<1>3. EndForm(w) = GiveUpForm(c)
  BY DEF EndForm, c
<1>4. Fine(EndForm(w)) /\ Shrinks(w.frames, EndForm(w).frames) /\ Ended(EndForm(w), c, c.tm)
  BY <1>1, <1>2, <1>3, GiveUpFormFine
<1>5. Ended(EndForm(w), w, c.tm)
  BY <1>2, <1>4 DEF Ended, IsRoot
<1> QED
  BY <1>1, <1>4, <1>5

LEMMA EndViewFine ==
  ASSUME NEW w, Sound(w), w.status = "running", w.frames # <<>>,
         Last(w.frames).kind = "view", Last(w.frames).aux = Null
  PROVE  LET v == EndView(w)
         IN  /\ Fine(v) /\ Shrinks(w.frames, v.frames)
             /\ Ended(v, w, SurfaceDestroy(w.tm, Last(w.frames).box))
<1> DEFINE c == Free(w, Last(w.frames).box)
<1>1. /\ Sound(c) /\ TermOnly(c, w) /\ c.tm.live = w.tm.live \ {Last(w.frames).box}
      /\ c.tm = SurfaceDestroy(w.tm, Last(w.frames).box)
  BY FreeSound, FreeIs DEF Sound, Typed
<1>2. EndView(w) = IF IsRoot(w) THEN EndMain(Destroy(c, "view"))
                   ELSE Back(Destroy(c, "view"), "view")
  BY DEF EndView
<1> HIDE DEF c
<1>3. /\ c.frames = w.frames /\ c.status = "running" /\ IsRoot(c) = IsRoot(w)
      /\ c.lost = w.lost
  BY <1>1 DEF TermOnly, IsRoot
<1>4. Fine(EndView(w)) /\ Shrinks(w.frames, EndView(w).frames) /\ Ended(EndView(w), c, c.tm)
  BY <1>1, <1>2, <1>3, SelfDestroyed
<1>5. Ended(EndView(w), w, c.tm)
  BY <1>3, <1>4 DEF Ended
<1> QED
  BY <1>1, <1>4, <1>5

-----------------------------------------------------------------------------
(* Processes, and the world a step leaves.                                    *)

Moves(fr, gr) == Grows(fr, gr) \/ Shrinks(fr, gr) \/ Drops(fr, gr, 2)

\* Only the terminal changes, and no window is forgotten.
LEMMA TermSound ==
  ASSUME NEW w, Sound(w), NEW v \in WorldStruct, v.frames = w.frames, v.init = w.init,
         \/ v.tm.ui_surface = w.tm.ui_surface /\ v.tm.live \subseteq w.tm.live
         \/ v.tm.ui_surface = <<>> /\ v.tm.live = w.tm.live \ ToSet(w.tm.ui_surface)
  PROVE  Sound(v)
<1>1. /\ Leak(w.frames, w.tm) /\ Len(w.tm.ui_surface) <= MaxWin + 1 /\ MaxWin \in Nat
      /\ w.tm \in TermStruct /\ v.tm \in TermStruct
  BY TerminalAssumption DEF Sound, Typed, WorldStruct
<1>2. CASE v.tm.ui_surface = w.tm.ui_surface /\ v.tm.live \subseteq w.tm.live
  <2>1. Leak(v.frames, v.tm)
    BY <1>1, <1>2 DEF Leak
  <2> QED
    BY <1>1, <1>2, <2>1 DEF Sound, Typed
<1>3. CASE v.tm.ui_surface = <<>> /\ v.tm.live = w.tm.live \ ToSet(w.tm.ui_surface)
  <2>1. DOMAIN w.tm.ui_surface = 1..Len(w.tm.ui_surface) /\ Len(<<>>) = 0
    BY <1>1 DEF TermStruct
  <2>2. \A s \in v.tm.live : s \in w.tm.live
            /\ \A i \in 1..Len(w.tm.ui_surface) : w.tm.ui_surface[i] # s
    BY <1>3, <2>1 DEF ToSet
  <2>3. Leak(v.frames, v.tm)
    BY <1>1, <1>3, <2>2 DEF Leak
  <2>4. Len(v.tm.ui_surface) <= MaxWin + 1
    BY <1>1, <1>3, <2>1
  <2> QED
    BY <2>3, <2>4 DEF Sound, Typed
<1> QED
  BY <1>2, <1>3

\* The modes and the signals.
LEMMA ModalSound ==
  ASSUME NEW w, Sound(w), NEW t, Modal(t, w.tm)
  PROVE  Sound([w EXCEPT !.tm = t]) /\ TermOnly([w EXCEPT !.tm = t], w)
         /\ [w EXCEPT !.tm = t].tm = t
<1>1. w \in WorldStruct /\ t \in TermStruct
  BY DEF Sound, Typed, Modal
<1>2. TermOnly([w EXCEPT !.tm = t], w) /\ [w EXCEPT !.tm = t].tm = t
  BY <1>1, TermIs
<1> DEFINE v == [w EXCEPT !.tm = t]
<1> HIDE DEF v
<1>3. Sound(v)
  BY <1>2, TermSound DEF Modal, TermOnly, v
<1> QED
  BY <1>2, <1>3 DEF v

LEMMA ShutdownSound ==
  ASSUME NEW w, Sound(w)
  PROVE  LET v == Shutdown(w)
         IN  /\ Sound(v) /\ v.frames = w.frames /\ v.init = w.init /\ v.status = w.status
             /\ v.lost = w.lost \cup {"shutdown"} /\ v.tm = UiShutdown(w.tm)
<1> DEFINE u == Losing(w, "shutdown")
           v == Shutdown(w)
<1>1. w \in WorldStruct /\ w.tm \in TermStruct
  BY DEF Sound, Typed, WorldStruct
<1>2. /\ u \in WorldStruct /\ u.frames = w.frames /\ u.init = w.init /\ u.tm = w.tm
      /\ u.status = w.status /\ u.lost = w.lost \cup {"shutdown"}
  BY <1>1, LosingIs DEF Path
<1>3. v = [u EXCEPT !.tm = UiShutdown(@)]
  BY DEF Shutdown
<1> HIDE DEF u
<1>4. v = [u EXCEPT !.tm = UiShutdown(w.tm)]
  BY <1>2, <1>3 DEF WorldStruct
<1>5. /\ UiShutdown(w.tm) \in TermStruct /\ UiShutdown(w.tm).ui_surface = <<>>
      /\ UiShutdown(w.tm).live = w.tm.live \ ToSet(w.tm.ui_surface)
  BY <1>1, ShutdownIs
<1> HIDE DEF v
<1>6. TermOnly(v, u) /\ v.tm = UiShutdown(w.tm)
  BY <1>2, <1>4, <1>5, TermIs
<1>7. Sound(v)
  BY <1>2, <1>5, <1>6, TermSound DEF TermOnly
<1> QED
  BY <1>2, <1>6, <1>7 DEF TermOnly, v

\* A process on the call stack.
LEMMA ProcessSound ==
  ASSUME NEW w, Sound(w), Len(w.frames) < MaxFrames, NEW k \in {"child", "detach"}
  PROVE  LET v == Push(w, FrameOf(k, Null, Null))
         IN  /\ Sound(v) /\ Grows(w.frames, v.frames) /\ v.status = w.status
<1> DEFINE f == FrameOf(k, Null, Null)
<1>1. f \in Frame /\ f.kind = k /\ f.obj = Null /\ f.aux = Null /\ f.stage = "run"
      /\ k \notin Kind
  BY DEF FrameOf, Frame, Kind
<1>2. w \in WorldStruct /\ Whole(w.frames, w.init) /\ w.frames \in Seq(Frame)
  BY DEF Sound, Typed, WorldStruct
<1> HIDE DEF f
<1>3. Whole(Append(w.frames, f), w.init)
  BY <1>1, <1>2, PushWhole
<1>4. /\ Sound(Push(w, f)) /\ Push(w, f).frames = Append(w.frames, f)
      /\ Push(w, f).status = w.status
  BY <1>1, <1>2, <1>3, PushSound
<1> QED
  BY <1>1, <1>2, <1>4, GrowsOne DEF f

LEMMA SameMoves ==
  ASSUME NEW fr, NEW gr \in Seq(Frame), gr = fr
  PROVE  Grows(fr, gr)
<1>1. Len(fr) \in Nat
  OBVIOUS
<1> QED
  BY <1>1 DEF Grows, Kept

LEMMA ForkExecFine ==
  ASSUME NEW w, Sound(w), Len(w.frames) < MaxFrames
  PROVE  /\ Fine(ForkExec(w)) /\ Grows(w.frames, ForkExec(w).frames)
         /\ Fine(ForkExecFails(w)) /\ Grows(w.frames, ForkExecFails(w).frames)
<1> DEFINE a == [w EXCEPT !.tm = SigDflMode(w.tm)]
           b == Shutdown(a)
           c == [b EXCEPT !.tm = RestoreShell(b.tm)]
           d == [b EXCEPT !.tm = SigProgMode(b.tm)]
<1>1. w \in WorldStruct /\ w.tm \in TermStruct /\ w.frames \in Seq(Frame)
  BY DEF Sound, Typed, WorldStruct
<1>2. Sound(a) /\ TermOnly(a, w)
  BY <1>1, ModesAre, ModalSound
<1>3. [w EXCEPT !.tm = SigDflMode(@)] = a
  BY <1>1 DEF WorldStruct
<1> HIDE DEF a
<1>4. Sound(b) /\ b.frames = w.frames
  BY <1>2, ShutdownSound DEF TermOnly
<1>5. b \in WorldStruct /\ b.tm \in TermStruct
  BY <1>4 DEF Sound, Typed, WorldStruct
<1>6. ForkExec(w) = Push([b EXCEPT !.tm = RestoreShell(@)], FrameOf("child", Null, Null))
      /\ ForkExecFails(w) = [b EXCEPT !.tm = SigProgMode(@)]
  BY <1>3 DEF ForkExec, ForkExecFails
<1> HIDE DEF b
<1>7. ForkExec(w) = Push(c, FrameOf("child", Null, Null)) /\ ForkExecFails(w) = d
  BY <1>5, <1>6 DEF WorldStruct
<1>8. Sound(c) /\ TermOnly(c, b) /\ Sound(d) /\ TermOnly(d, b)
  BY <1>4, <1>5, ModesAre, ModalSound
<1> HIDE DEF c, d
<1>9. c.frames = w.frames /\ d.frames = w.frames
  BY <1>4, <1>8 DEF TermOnly
<1>10. Fine(ForkExec(w)) /\ Grows(w.frames, ForkExec(w).frames)
  BY <1>7, <1>8, <1>9, ProcessSound DEF Fine, Sound
<1>11. Fine(ForkExecFails(w)) /\ Grows(w.frames, ForkExecFails(w).frames)
  BY <1>1, <1>7, <1>8, <1>9, SameMoves DEF Fine, Sound
<1> QED
  BY <1>10, <1>11

LEMMA ForkDetachFine ==
  ASSUME NEW w, Sound(w), Len(w.frames) < MaxFrames
  PROVE  Fine(ForkDetach(w)) /\ Grows(w.frames, ForkDetach(w).frames)
<1> DEFINE a == [w EXCEPT !.tm = SigDflMode(w.tm)]
<1>1. w \in WorldStruct /\ w.tm \in TermStruct
  BY DEF Sound, Typed, WorldStruct
<1>2. Sound(a) /\ TermOnly(a, w)
  BY <1>1, ModesAre, ModalSound
<1>3. [w EXCEPT !.tm = SigDflMode(@)] = a
  BY <1>1 DEF WorldStruct
<1> HIDE DEF a
<1>4. ForkDetach(w) = Push(a, FrameOf("detach", Null, Null))
  BY <1>3 DEF ForkDetach
<1> QED
  BY <1>2, <1>4, ProcessSound DEF TermOnly, Fine, Sound

LEMMA ExecCommandFine ==
  ASSUME NEW w, Sound(w), Len(w.frames) < MaxFrames, NEW v \in ExecCommand(w)
  PROVE  Fine(v) /\ Grows(w.frames, v.frames)
<1>1. w.frames \in Seq(Frame)
  BY DEF Sound, Typed, WorldStruct
<1>2. Sound(Shutdown(w)) /\ Shutdown(w).frames = w.frames
  BY ShutdownSound
<1>3. CASE v = Push(Shutdown(w), FrameOf("child", Null, Null))
  BY <1>2, <1>3, ProcessSound DEF Fine, Sound
<1>4. CASE v = Shutdown(w)
  BY <1>1, <1>2, <1>4, SameMoves DEF Fine, Sound
<1> QED
  BY <1>3, <1>4 DEF ExecCommand

LEMMA ExitNowFine ==
  ASSUME NEW w, Sound(w)
  PROVE  /\ Fine(ExitNow(w)) /\ Grows(w.frames, ExitNow(w).frames)
         /\ ExitNow(w).status = "exited" /\ ExitNow(w).lost # {}
<1> DEFINE v == ExitNow(w)
<1>1. w \in WorldStruct /\ w.tm \in TermStruct /\ w.frames \in Seq(Frame)
      /\ Len(w.frames) <= MaxFrames + 1 /\ Len(w.tm.ui_surface) <= MaxWin + 1
  BY DEF Sound, Typed, WorldStruct
<1>2. /\ v \in WorldStruct /\ v.frames = w.frames /\ v.status = "exited"
      /\ v.tm = (IF w.tm.f_curses_open THEN UiShutdown(w.tm) ELSE w.tm)
      /\ v.lost = w.lost \cup {"exit"}
  BY <1>1, ExitNowIs
<1> HIDE DEF v
<1>3. Len(v.tm.ui_surface) <= MaxWin + 1
  <2>1. Len(<<>>) = 0 /\ MaxWin \in Nat
    BY TerminalAssumption
  <2> QED
    BY <1>1, <1>2, <2>1, ShutdownIs
<1> QED
  BY <1>1, <1>2, <1>3, SameMoves DEF Fine, Typed, v

LEMMA OpensFine ==
  ASSUME NEW w, Sound(w), w.status = "running", Len(w.frames) < MaxFrames,
         NEW k \in Kind, k \in {"menu", "pick"} => OnlyMenus(w.frames),
         NEW v \in Opens(w, k)
  PROVE  Fine(v) /\ Grows(w.frames, v.frames)
<1>1. CASE v = ExitNow(w)
  BY <1>1, ExitNowFine
<1>2. CASE \E out \in Outcome(k) : v = Popup(w, k, out)
  BY <1>2, PopupFine
<1> QED
  BY <1>1, <1>2 DEF Opens

\* A signal, or a crash.
LEMMA StoppedFine ==
  ASSUME NEW w, Sound(w), NEW v \in WorldStruct, v.frames = w.frames, v.tm = w.tm,
         v.status # "running"
  PROVE  Fine(v) /\ Grows(w.frames, v.frames)
<1>1. w.frames \in Seq(Frame)
  BY DEF Sound, Typed, WorldStruct
<1> QED
  BY <1>1, SameMoves DEF Fine, Sound, Typed

\* The last process or message on the call stack is taken off.
LEMMA PopsFine ==
  ASSUME NEW w, Sound(w), w.frames # <<>>, Last(w.frames).kind \notin Kind,
         Last(w.frames).aux = Null
  PROVE  /\ Sound(Pop(w)) /\ FramesOnly(Pop(w), w) /\ Pop(w).frames = Front(w.frames)
         /\ Shrinks(w.frames, Pop(w).frames)
<1>1. w \in WorldStruct /\ Whole(w.frames, w.init)
  BY DEF Sound, Typed
<1>2. FramesOnly(Pop(w), w) /\ Pop(w).frames = Front(w.frames)
  BY <1>1, PopIs
<1>3. Whole(Front(w.frames), w.init)
  BY <1>1, PopWhole
<1>4. Last(w.frames).kind # "view"
  BY DEF Kind
<1> QED
  BY <1>2, <1>3, <1>4, PopSound DEF FramesOnly

LEMMA ModalFine ==
  ASSUME NEW w, Sound(w), NEW t, Modal(t, w.tm)
  PROVE  /\ Fine([w EXCEPT !.tm = t]) /\ [w EXCEPT !.tm = t].frames = w.frames
  BY ModalSound DEF Fine, Sound, TermOnly

\* A message over an engine that goes on.
LEMMA MessageFine ==
  ASSUME NEW w, Sound(w),
         Len(w.frames) < MaxFrames \/ Last(w.frames).kind # "notice"
  PROVE  Fine(Notice(w)) /\ Grows(w.frames, Notice(w).frames)
<1>1. w.frames \in Seq(Frame) /\ Len(w.frames) <= MaxFrames
  BY SessionAssumption DEF Sound, Typed, WorldStruct, Deep
<1>2. /\ Fine(Notice(w))
      /\ \/ Notice(w).frames = w.frames
         \/ \E f \in Frame : Notice(w).frames = Append(w.frames, f)
  BY <1>1, NoticeFine
<1>3. CASE Notice(w).frames = w.frames
  BY <1>1, <1>2, <1>3, SameMoves
<1>4. CASE \E f \in Frame : Notice(w).frames = Append(w.frames, f)
  BY <1>1, <1>2, <1>4, GrowsOne
<1>. QED
  BY <1>2, <1>3, <1>4
=============================================================================
