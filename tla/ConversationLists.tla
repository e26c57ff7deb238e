--------------------------- MODULE ConversationLists ---------------------------
(***************************************************************************)
(* Lemmas about the lists of Conversation: what is left of one, what the   *)
(* limits allow of it, and what it shows of a record.                      *)
(***************************************************************************)
EXTENDS Conversation, FiniteSetTheorems, SequenceTheorems, WellFoundedInduction, TLAPS

-----------------------------------------------------------------------------
(* Lists of messages.                                                       *)

(* A set of numbers has a least one, if it has any.                         *)
LEMMA Least ==
  ASSUME NEW S \in SUBSET Nat, S # {} PROVE Min(S) \in S /\ \A n \in S : Min(S) <= n
<1> DEFINE R == {ss \in Nat \X Nat : ss[1] < ss[2]}
<1>1. OpToRel(<, Nat) = R
  BY DEF OpToRel
<1>2. IsWellFoundedOn(R, Nat)
  BY <1>1, NatLessThanWellFounded
<1>3. PICK m \in S : \A n \in S : ~(<<n, m>> \in R)
  <2> HIDE DEF R
  <2> QED
    BY <1>2, WFMin
<1>4. \A n \in S : m <= n
  <2> TAKE n \in S
  <2>1. m \in Nat /\ n \in Nat /\ ~(n < m)
    BY <1>3
  <2> QED
    BY <2>1
<1> QED
  BY <1>4 DEF Min

(* What is left from a place on.                                            *)
LEMMA FromProperties ==
  ASSUME NEW s \in Seq(Item), NEW i \in 1 .. Len(s) + 1
  PROVE  /\ From(s, i) \in Seq(Item) /\ Len(From(s, i)) = Len(s) - i + 1
         /\ \A k \in 1 .. Len(s) - i + 1 : From(s, i)[k] = s[i + k - 1]
<1>1. Len(s) \in Nat /\ \A k \in i .. Len(s) : s[k] \in Item
  BY LenProperties, ElementOfSeq
<1>2. /\ SubSeq(s, i, Len(s)) \in Seq(Item)
      /\ Len(SubSeq(s, i, Len(s))) = IF i <= Len(s) THEN Len(s) - i + 1 ELSE 0
      /\ \A k \in 1 .. Len(s) - i + 1 : SubSeq(s, i, Len(s))[k] = s[i + k - 1]
  BY <1>1, SubSeqProperties
<1> QED
  BY <1>1, <1>2 DEF From

(* Dropping twice is dropping once.                                         *)
LEMMA FromFrom ==
  ASSUME NEW s \in Seq(Item), NEW i \in 1 .. Len(s) + 1, NEW k \in 1 .. Len(From(s, i)) + 1
  PROVE  i + k - 1 \in 1 .. Len(s) + 1 /\ From(From(s, i), k) = From(s, i + k - 1)
<1> DEFINE a == From(From(s, i), k)
           b == From(s, i + k - 1)
<1>1. /\ Len(s) \in Nat /\ From(s, i) \in Seq(Item) /\ Len(From(s, i)) = Len(s) - i + 1
      /\ \A j \in 1 .. Len(s) - i + 1 : From(s, i)[j] = s[i + j - 1]
  BY FromProperties, LenProperties
<1>2. i + k - 1 \in 1 .. Len(s) + 1
  BY <1>1
<1>3. /\ a \in Seq(Item) /\ Len(a) = Len(s) - (i + k - 1) + 1
      /\ \A j \in 1 .. Len(a) : a[j] = From(s, i)[k + j - 1]
  <2>1. /\ a \in Seq(Item) /\ Len(a) = Len(From(s, i)) - k + 1
        /\ \A j \in 1 .. Len(From(s, i)) - k + 1 : a[j] = From(s, i)[k + j - 1]
    BY <1>1, FromProperties
  <2> HIDE DEF a
  <2>2. Len(a) = Len(s) - (i + k - 1) + 1
    BY <1>1, <2>1
  <2> QED
    BY <2>1, <2>2
<1>4. /\ b \in Seq(Item) /\ Len(b) = Len(s) - (i + k - 1) + 1
      /\ \A j \in 1 .. Len(b) : b[j] = s[(i + k - 1) + j - 1]
  BY <1>2, FromProperties
<1> HIDE DEF a, b
<1>5. ASSUME NEW j \in 1 .. Len(a) PROVE a[j] = b[j]
  <2>1. /\ k + j - 1 \in 1 .. Len(s) - i + 1 /\ i + (k + j - 1) - 1 = (i + k - 1) + j - 1
        /\ j \in 1 .. Len(b)
    BY <1>1, <1>3, <1>4
  <2> QED
    BY <1>1, <1>3, <1>4, <2>1
<1>6. a = b
  BY <1>3, <1>4, <1>5, SeqEqual
<1> QED
  BY <1>2, <1>6 DEF a, b

(* Dropping and adding at the end do not disturb each other.                *)
LEMMA FromAppend ==
  ASSUME NEW s \in Seq(Item), NEW i \in 1 .. Len(s) + 1, NEW item \in Item
  PROVE  Append(From(s, i), item) = From(Append(s, item), i)
<1> DEFINE a == Append(From(s, i), item)
           b == From(Append(s, item), i)
<1>1. /\ Len(s) \in Nat /\ From(s, i) \in Seq(Item) /\ Len(From(s, i)) = Len(s) - i + 1
      /\ \A j \in 1 .. Len(s) - i + 1 : From(s, i)[j] = s[i + j - 1]
  BY FromProperties, LenProperties
<1>2. /\ a \in Seq(Item) /\ Len(a) = Len(s) - i + 2
      /\ \A j \in 1 .. Len(s) - i + 1 : a[j] = From(s, i)[j]
      /\ a[Len(s) - i + 2] = item
  <2>1. Len(From(s, i)) + 1 = Len(s) - i + 2
    BY <1>1
  <2>2. /\ a \in Seq(Item) /\ Len(a) = Len(From(s, i)) + 1
        /\ \A j \in 1 .. Len(From(s, i)) : a[j] = From(s, i)[j]
        /\ a[Len(From(s, i)) + 1] = item
    <3> DEFINE f == From(s, i)
    <3>1. f \in Seq(Item)
      BY <1>1
    <3> HIDE DEF f
    <3>2. /\ Append(f, item) \in Seq(Item) /\ Len(Append(f, item)) = Len(f) + 1
          /\ \A j \in 1 .. Len(f) : Append(f, item)[j] = f[j]
          /\ Append(f, item)[Len(f) + 1] = item
      BY <3>1, AppendProperties
    <3> QED
      BY <3>2 DEF f
  <2>3. a[Len(s) - i + 2] = item
    BY <2>1, <2>2
  <2>4. ASSUME NEW j \in 1 .. Len(s) - i + 1 PROVE a[j] = From(s, i)[j]
    BY <1>1, <2>2
  <2>5. Len(a) = Len(s) - i + 2
    BY <2>1, <2>2
  <2> HIDE DEF a
  <2> QED
    BY <2>2, <2>3, <2>4, <2>5
<1>3. /\ Append(s, item) \in Seq(Item) /\ Len(Append(s, item)) = Len(s) + 1
      /\ \A j \in 1 .. Len(s) : Append(s, item)[j] = s[j]
      /\ Append(s, item)[Len(s) + 1] = item
  BY AppendProperties
<1>4. i \in 1 .. Len(Append(s, item)) + 1
  BY <1>1, <1>3
<1>5. /\ b \in Seq(Item) /\ Len(b) = Len(s) - i + 2
      /\ \A j \in 1 .. Len(s) - i + 2 : b[j] = Append(s, item)[i + j - 1]
  <2>1. Len(Append(s, item)) - i + 1 = Len(s) - i + 2
    BY <1>1, <1>3
  <2> QED
    BY <1>3, <1>4, <2>1, FromProperties
<1> HIDE DEF a, b
<1>6. ASSUME NEW j \in 1 .. Len(a) PROVE a[j] = b[j]
  <2>1. CASE j = Len(s) - i + 2
    <3>1. i + j - 1 = Len(s) + 1 /\ j \in 1 .. Len(s) - i + 2
      BY <1>1, <1>2, <2>1
    <3>2. a[j] = item
      BY <1>2, <2>1
    <3>3. b[j] = item
      BY <1>3, <1>5, <3>1
    <3> QED
      BY <3>2, <3>3
  <2>2. CASE j # Len(s) - i + 2
    <3>1. j \in 1 .. Len(s) - i + 1 /\ i + j - 1 \in 1 .. Len(s) /\ j \in 1 .. Len(s) - i + 2
      <4>1. Len(s) \in Nat /\ i \in 1 .. Len(s) + 1 /\ j \in 1 .. Len(s) - i + 2
        BY <1>1, <1>2
      <4> QED
        BY <2>2, <4>1
    <3>2. a[j] = From(s, i)[j] /\ From(s, i)[j] = s[i + j - 1]
      BY <1>1, <1>2, <3>1
    <3>3. b[j] = Append(s, item)[i + j - 1]
      BY <1>5, <3>1
    <3>4. Append(s, item)[i + j - 1] = s[i + j - 1]
      BY <1>3, <3>1
    <3> QED
      BY <3>2, <3>3, <3>4
  <2> QED
    BY <2>1, <2>2
<1>7. a = b
  BY <1>2, <1>5, <1>6, SeqEqual
<1> QED
  BY <1>7 DEF a, b

-----------------------------------------------------------------------------
(* The limits.                                                              *)

\* The places that Chars counts.
Places(list) == UNION {{i} \X DOMAIN list[i].text : i \in DOMAIN list}

(* They can be counted.                                                     *)
LEMMA PlacesFinite == ASSUME NEW list \in Seq(Item) PROVE IsFiniteSet(Places(list))
<1> DEFINE D == DOMAIN list
           f == [i \in D |-> {i} \X DOMAIN list[i].text]
           T == {f[i] : i \in D}
<1>1. IsFiniteSet(D)
  <2>1. D = 1 .. Len(list) /\ Len(list) \in Int /\ 1 \in Int
    BY LenProperties
  <2> QED
    BY <2>1, FS_Interval
<1>2. f \in Surjection(D, T)
  BY DEF Surjection
<1>3. IsFiniteSet(T)
  <2> HIDE DEF f, T, D
  <2> QED
    BY <1>1, <1>2, FS_Surjection
<1>4. ASSUME NEW i \in D PROVE IsFiniteSet(f[i])
  <2>1. list[i].text \in Seq(Numbers)
    <3>1. list[i] \in Item
      BY LenProperties, ElementOfSeq
    <3> QED
      BY <3>1 DEF Item
  <2>2. DOMAIN list[i].text = 1 .. Len(list[i].text) /\ Len(list[i].text) \in Int
    BY <2>1, LenProperties
  <2>3. IsFiniteSet(DOMAIN list[i].text)
    BY <2>2, FS_Interval
  <2>4. IsFiniteSet({i})
    BY FS_Singleton
  <2> QED
    BY <2>3, <2>4, FS_Product
<1>5. Places(list) = UNION T
  BY DEF Places
<1>6. \A X \in T : IsFiniteSet(X)
  BY <1>4
<1> HIDE DEF T
<1> QED
  BY <1>3, <1>5, <1>6, FS_UNION

(* A list that fits also does without its last message.                     *)
LEMMA FitsShorter ==
  ASSUME NEW list \in Seq(Item), NEW item \in Item, Fits(Append(list, item)) PROVE Fits(list)
<1> DEFINE all == Append(list, item)
<1>1. /\ all \in Seq(Item) /\ Len(all) = Len(list) + 1 /\ Len(list) \in Nat
      /\ \A i \in 1 .. Len(list) : all[i] = list[i]
  BY AppendProperties, LenProperties
<1>2. DOMAIN list = 1 .. Len(list) /\ DOMAIN all = 1 .. Len(list) + 1
  BY <1>1, LenProperties
<1> HIDE DEF all
<1>3. \A i \in DOMAIN list : i \in DOMAIN all /\ all[i] = list[i]
  BY <1>1, <1>2
<1>4. Places(list) \subseteq Places(all)
  BY <1>3 DEF Places
<1>5. IsFiniteSet(Places(all))
  BY <1>1, PlacesFinite
<1>6. /\ Cardinality(Places(list)) <= Cardinality(Places(all))
      /\ Cardinality(Places(list)) \in Nat /\ Cardinality(Places(all)) \in Nat
  BY <1>4, <1>5, FS_Subset, FS_CardinalityType
<1>7. Chars(list) <= Chars(all) /\ Chars(list) \in Nat /\ Chars(all) \in Nat
  BY <1>6 DEF Chars, Places
<1>8. Len(all) <= MaxMessages /\ Chars(all) <= MaxChars
  BY DEF Fits, all
<1> QED
  BY <1>1, <1>7, <1>8, ConversationAssumption DEF Fits

(* The empty list fits.                                                     *)
LEMMA EmptyFits == Fits(<<>>)
<1>1. Places(<<>>) = {}
  BY DEF Places
<1>2. Chars(<<>>) = 0
  BY <1>1, FS_EmptySet DEF Chars, Places
<1> QED
  BY <1>2, EmptySeq, ConversationAssumption DEF Fits

(* What is stored of a message is one.                                      *)
LEMMA CutIsItem == ASSUME NEW item \in Item PROVE Cut(item) \in Item
<1>1. item.text \in Seq(Numbers)
  BY DEF Item
<1> DEFINE size == Len(item.text)
           end == SubSeq(item.text, size - MaxStored + 1, size)
<1>2. CASE size <= MaxStored
  BY <1>2 DEF Cut
<1>3. CASE ~(size <= MaxStored)
  <2>1. size \in Nat /\ size - MaxStored + 1 \in 1 .. size
    BY <1>1, <1>3, LenProperties, ConversationAssumption
  <2>2. \A i \in size - MaxStored + 1 .. size : item.text[i] \in Numbers
    BY <1>1, <2>1, ElementOfSeq
  <2>3. end \in Seq(Numbers)
    BY <2>1, <2>2, SubSeqProperties
  <2>4. Cut(item) = [item EXCEPT !.text = end]
    BY <1>3 DEF Cut
  <2> HIDE DEF end
  <2> QED
    BY <2>3, <2>4 DEF Item
<1> QED
  BY <1>2, <1>3

(* A message is added to the longest end of the record, and the longest end *)
(* of the longer record is kept.                                            *)
LEMMA AddedFits ==
  ASSUME NEW record \in Seq(Item), NEW list \in Seq(Item), LongestEnd(list, record),
         NEW item \in Item
  PROVE  /\ AddMessage(list, item) \in Seq(Item) /\ Append(record, Cut(item)) \in Seq(Item)
         /\ LongestEnd(AddMessage(list, item), Append(record, Cut(item)))
<1> DEFINE c == Cut(item)
           all == Append(list, c)
           longer == Append(record, c)
           F == {k \in 1 .. Len(all) + 1 : Fits(From(all, k))}
           m == Min(F)
<1>1. c \in Item /\ all \in Seq(Item) /\ longer \in Seq(Item)
      /\ Len(all) \in Nat /\ Len(record) \in Nat /\ Len(longer) = Len(record) + 1
  BY CutIsItem, AppendProperties, LenProperties
<1>2. PICK i \in 1 .. Len(record) + 1 :
        list = From(record, i) /\ (i > 1 => ~Fits(From(record, i - 1)))
  BY DEF LongestEnd
<1>3. all = From(longer, i) /\ i \in 1 .. Len(longer) + 1
  BY <1>1, <1>2, FromAppend
<1>4. m \in F /\ \A k \in F : m <= k
  <2>1. From(all, Len(all) + 1) = <<>>
    BY <1>1, SubSeqEmpty DEF From
  <2>2. Len(all) + 1 \in F
    BY <1>1, <2>1, EmptyFits
  <2> HIDE DEF F
  <2>3. F \in SUBSET Nat
    BY <1>1 DEF F
  <2> QED
    BY <2>2, <2>3, Least
<1>5. AddMessage(list, item) = From(all, m)
  BY DEF AddMessage
<1> HIDE DEF c, all, longer, m
<1>6. m \in 1 .. Len(all) + 1 /\ Fits(From(all, m))
  BY <1>4
<1>7. From(all, m) = From(longer, i + m - 1) /\ i + m - 1 \in 1 .. Len(longer) + 1
  BY <1>1, <1>3, <1>6, FromFrom
<1>8. From(all, m) \in Seq(Item)
  BY <1>1, <1>6, FromProperties
<1>9. ASSUME i + m - 1 > 1 PROVE ~Fits(From(longer, i + m - 1 - 1))
  <2>1. CASE m > 1
    <3>1. m - 1 \in 1 .. Len(all) + 1 /\ ~(m <= m - 1)
      BY <1>6, <2>1
    <3>2. ~Fits(From(all, m - 1))
      BY <1>4, <3>1
    <3>3. From(all, m - 1) = From(longer, i + (m - 1) - 1)
      BY <1>1, <1>3, <3>1, FromFrom
    <3>4. i + (m - 1) - 1 = i + m - 1 - 1
      BY <1>6
    <3> QED
      BY <3>2, <3>3, <3>4
  <2>2. CASE m = 1
    <3>1. i > 1 /\ i - 1 \in 1 .. Len(record) + 1 /\ i + m - 1 - 1 = i - 1
      BY <1>9, <2>2, <1>1
    <3>2. ~Fits(From(record, i - 1)) /\ From(record, i - 1) \in Seq(Item)
      BY <1>2, <3>1, FromProperties
    <3>3. Append(From(record, i - 1), c) = From(longer, i - 1)
      BY <1>1, <3>1, FromAppend DEF longer
    <3>4. ~Fits(Append(From(record, i - 1), c))
      BY <1>1, <3>2, FitsShorter
    <3> QED
      BY <3>1, <3>3, <3>4
  <2> QED
    BY <1>6, <2>1, <2>2
<1> QED
  BY <1>1, <1>5, <1>6, <1>7, <1>8, <1>9 DEF LongestEnd, longer, c

-----------------------------------------------------------------------------
(* Induction over the places of a list.                                     *)

(* A set of places that holds the first, and each after the one before it,  *)
(* holds them all.                                                          *)
LEMMA ByPlaces ==
  ASSUME NEW n \in Nat, NEW S, 0 \in S, \A i \in 1 .. n : i - 1 \in S => i \in S
  PROVE  \A i \in 0 .. n : i \in S
<1> SUFFICES ASSUME {i \in 0 .. n : i \notin S} # {} PROVE FALSE
  OBVIOUS
<1> DEFINE T == {i \in 0 .. n : i \notin S}
           m == Min(T)
<1>1. m \in T /\ \A k \in T : m <= k
  <2>1. T \in SUBSET Nat
    OBVIOUS
  <2> HIDE DEF T
  <2> QED
    BY <2>1, Least DEF T
<1> HIDE DEF m
<1>2. m \in 1 .. n /\ m \notin S
  BY <1>1
<1>3. m - 1 \notin T
  BY <1>1, <1>2
<1>4. m - 1 \in S
  BY <1>2, <1>3
<1> QED
  BY <1>2, <1>4

(* The list up to a place, and the item at the next one.                    *)
LEMMA UpTo ==
  ASSUME NEW s \in Seq(Item), NEW i \in 1 .. Len(s)
  PROVE  Append(SubSeq(s, 1, i - 1), s[i]) = SubSeq(s, 1, i)
<1> DEFINE front == SubSeq(s, 1, i - 1)
           a == Append(front, s[i])
           b == SubSeq(s, 1, i)
<1>1. Len(s) \in Nat /\ \A k \in 1 .. Len(s) : s[k] \in Item
  BY LenProperties, ElementOfSeq
<1>2. /\ front \in Seq(Item) /\ Len(front) = i - 1
      /\ \A k \in 1 .. i - 1 : front[k] = s[k]
  <2>1. \A k \in 1 .. i - 1 : s[k] \in Item
    BY <1>1
  <2>2. /\ front \in Seq(Item)
        /\ Len(front) = IF 1 <= i - 1 THEN i - 1 - 1 + 1 ELSE 0
        /\ \A k \in 1 .. i - 1 - 1 + 1 : front[k] = s[1 + k - 1]
    BY <1>1, <2>1, SubSeqProperties
  <2> HIDE DEF front
  <2> QED
    BY <1>1, <2>2
<1>3. /\ b \in Seq(Item) /\ Len(b) = i
      /\ \A k \in 1 .. i : b[k] = s[k]
  <2>1. \A k \in 1 .. i : s[k] \in Item
    BY <1>1
  <2>2. /\ b \in Seq(Item)
        /\ Len(b) = IF 1 <= i THEN i - 1 + 1 ELSE 0
        /\ \A k \in 1 .. i - 1 + 1 : b[k] = s[1 + k - 1]
    BY <1>1, <2>1, SubSeqProperties
  <2> HIDE DEF b
  <2> QED
    BY <1>1, <2>2
<1>4. /\ a \in Seq(Item) /\ Len(a) = i
      /\ \A k \in 1 .. i - 1 : a[k] = front[k]
      /\ a[i] = s[i]
  <2> HIDE DEF front
  <2>1. s[i] \in Item
    BY <1>1
  <2>2. /\ a \in Seq(Item) /\ Len(a) = Len(front) + 1
        /\ \A k \in 1 .. Len(front) : a[k] = front[k]
        /\ a[Len(front) + 1] = s[i]
    BY <1>2, <2>1, AppendProperties
  <2> HIDE DEF a
  <2>3. Len(front) = i - 1 /\ Len(front) + 1 = i
    BY <1>1, <1>2
  <2> QED
    BY <2>2, <2>3
<1> HIDE DEF a, b, front
<1>5. \A k \in 1 .. Len(a) : a[k] = b[k]
  <2> TAKE k \in 1 .. Len(a)
  <2>1. CASE k = i
    BY <1>1, <1>3, <1>4, <2>1
  <2>2. CASE k # i
    <3>1. k \in 1 .. i - 1 /\ k \in 1 .. i
      BY <1>1, <1>4, <2>2
    <3> QED
      BY <1>2, <1>3, <1>4, <3>1
  <2> QED
    BY <2>1, <2>2
<1>6. a = b
  BY <1>3, <1>4, <1>5, SeqEqual
<1> QED
  BY <1>6 DEF a, b, front

-----------------------------------------------------------------------------
(* What a list shows of a record.                                           *)

(* Shown has the values that its definition names.                          *)
LEMMA ShownUpTo ==
  ASSUME NEW list \in Seq(Item), NEW all
  PROVE  \E g \in [0 .. Len(list) -> Seq(Item)] :
           /\ g[0] = <<>>
           /\ \A i \in 1 .. Len(list) :
                g[i] = IF Known(list[i], all) THEN Append(g[i - 1], Cut(list[i])) ELSE g[i - 1]
           /\ Shown(list, all) = g[Len(list)]
<1> DEFINE Step(g, i) == IF Known(list[i], all) THEN Append(g[i - 1], Cut(list[i])) ELSE g[i - 1]
           Fn(n, g) == g[0] = <<>> /\ \A i \in 1 .. n : g[i] = Step(g, i)
           S == {n \in 0 .. Len(list) : \E g \in [0 .. n -> Seq(Item)] : Fn(n, g)}
<1>1. Len(list) \in Nat /\ \A i \in 1 .. Len(list) : Cut(list[i]) \in Item
  BY LenProperties, ElementOfSeq, CutIsItem
<1>2. 0 \in S
  <2> DEFINE g == [i \in 0 .. 0 |-> <<>>]
  <2>1. g \in [0 .. 0 -> Seq(Item)]
    BY EmptySeq
  <2>2. Fn(0, g)
    OBVIOUS
  <2> HIDE DEF g, Fn
  <2> QED
    BY <1>1, <2>1, <2>2
<1>3. ASSUME NEW n \in 1 .. Len(list), n - 1 \in S PROVE n \in S
  <2>1. PICK f \in [0 .. n - 1 -> Seq(Item)] : Fn(n - 1, f)
    BY <1>3
  <2> DEFINE next == IF Known(list[n], all) THEN Append(f[n - 1], Cut(list[n])) ELSE f[n - 1]
             g == [i \in 0 .. n |-> IF i = n THEN next ELSE f[i]]
  <2>2. f[n - 1] \in Seq(Item)
    BY <1>1, <2>1
  <2>3. next \in Seq(Item)
    <3>1. Append(f[n - 1], Cut(list[n])) \in Seq(Item)
      BY <1>1, <2>2, AppendProperties
    <3> QED
      BY <2>2, <3>1
  <2> HIDE DEF next
  <2>4. g \in [0 .. n -> Seq(Item)]
    BY <1>1, <2>1, <2>3
  <2>5. /\ \A i \in 0 .. n - 1 : g[i] = f[i]
        /\ g[n] = next
    BY <1>1
  <2> HIDE DEF g
  <2>6. g[0] = <<>>
    BY <1>1, <2>1, <2>5
  <2>7. ASSUME NEW i \in 1 .. n PROVE g[i] = Step(g, i)
    <3>1. CASE i = n
      <4>1. g[n - 1] = f[n - 1]
        BY <1>1, <2>5
      <4> QED
        BY <2>5, <3>1, <4>1 DEF next
    <3>2. CASE i # n
      <4>1. i \in 1 .. n - 1 /\ i \in 0 .. n - 1 /\ i - 1 \in 0 .. n - 1
        BY <1>1, <3>2
      <4>2. g[i] = f[i] /\ g[i - 1] = f[i - 1] /\ f[i] = Step(f, i)
        BY <2>1, <2>5, <4>1
      <4> QED
        BY <4>2
    <3> QED
      BY <3>1, <3>2
  <2>8. Fn(n, g)
    BY <2>6, <2>7
  <2> HIDE DEF Fn
  <2> QED
    BY <1>1, <2>4, <2>8
<1>4. Len(list) \in S
  <2> HIDE DEF S
  <2>1. \A i \in 0 .. Len(list) : i \in S
    BY <1>1, <1>2, <1>3, ByPlaces
  <2> QED
    BY <1>1, <2>1
<1>5. PICK f \in [0 .. Len(list) -> Seq(Item)] : Fn(Len(list), f)
  BY <1>4
<1> DEFINE Def(g) == g = [i \in 0 .. Len(list) |->
                           IF i = 0 THEN <<>>
                           ELSE IF Known(list[i], all) THEN Append(g[i - 1], Cut(list[i]))
                           ELSE g[i - 1]]
           g == CHOOSE shown : Def(shown)
<1>6. Def(f)
  <2> DEFINE h == [i \in 0 .. Len(list) |->
                    IF i = 0 THEN <<>>
                    ELSE IF Known(list[i], all) THEN Append(f[i - 1], Cut(list[i]))
                    ELSE f[i - 1]]
  <2>1. ASSUME NEW i \in 0 .. Len(list) PROVE f[i] = h[i]
    <3>1. CASE i = 0
      BY <1>5, <3>1
    <3>2. CASE i # 0
      <4>1. i \in 1 .. Len(list)
        BY <1>1, <3>2
      <4>2. f[i] = Step(f, i)
        BY <1>5, <4>1
      <4> QED
        BY <3>2, <4>2
    <3> QED
      BY <3>1, <3>2
  <2>2. f = h
    BY <2>1
  <2> QED
    BY <2>2
<1>7. Def(g)
  <2> HIDE DEF Def
  <2> QED
    BY Zenon, <1>6
<1>8. Shown(list, all) = g[Len(list)]
  BY Zenon DEF Shown
<1> HIDE DEF g
<1>9. /\ g[0] = <<>>
      /\ \A i \in 1 .. Len(list) : g[i] = Step(g, i)
  <2>1. 0 \in 0 .. Len(list)
    BY <1>1
  <2>2. g[0] = <<>>
    BY <1>7, <2>1
  <2>3. ASSUME NEW i \in 1 .. Len(list) PROVE g[i] = Step(g, i)
    <3>1. i \in 0 .. Len(list) /\ i # 0
      BY <1>1
    <3> QED
      BY <1>7, <3>1
  <2> QED
    BY <2>2, <2>3
<1>10. g \in [0 .. Len(list) -> Seq(Item)]
  <2> DEFINE R == {n \in 0 .. Len(list) : g[n] \in Seq(Item)}
  <2>1. 0 \in R
    <3>1. 0 \in 0 .. Len(list) /\ <<>> \in Seq(Item)
      BY <1>1, EmptySeq
    <3> QED
      BY <1>9, <3>1
  <2>2. ASSUME NEW n \in 1 .. Len(list), n - 1 \in R PROVE n \in R
    <3>1. g[n - 1] \in Seq(Item)
      BY <2>2
    <3>2. Append(g[n - 1], Cut(list[n])) \in Seq(Item)
      BY <1>1, <3>1, AppendProperties
    <3>3. g[n] = Step(g, n)
      BY <1>9
    <3> HIDE DEF g
    <3>4. g[n] \in Seq(Item)
      BY <3>1, <3>2, <3>3
    <3>5. n \in 0 .. Len(list)
      BY <1>1
    <3> QED
      BY <3>4, <3>5
  <2>3. \A n \in 0 .. Len(list) : n \in R
    <3> HIDE DEF R
    <3> QED
      BY <1>1, <2>1, <2>2, ByPlaces
  <2> QED
    BY <1>7, <2>3
<1> QED
  BY <1>8, <1>9, <1>10

(* Nothing shows nothing.                                                   *)
LEMMA ShownNothing == ASSUME NEW all PROVE Shown(<<>>, all) = <<>>
<1> DEFINE none == <<>>
<1>0. none \in Seq(Item)
  BY EmptySeq
<1>1. Len(none) = 0
  BY EmptySeq
<1> HIDE DEF none
<1>2. PICK g \in [0 .. Len(none) -> Seq(Item)] :
        /\ g[0] = <<>>
        /\ \A i \in 1 .. Len(none) :
             g[i] = IF Known(none[i], all) THEN Append(g[i - 1], Cut(none[i])) ELSE g[i - 1]
        /\ Shown(none, all) = g[Len(none)]
  BY <1>0, ShownUpTo
<1>3. Shown(none, all) = <<>>
  BY <1>1, <1>2
<1> QED
  BY <1>3 DEF none

(* One item more shows what it is known by, behind the rest.                *)
LEMMA ShownAppend ==
  ASSUME NEW list \in Seq(Item), NEW item \in Item, NEW all
  PROVE  Shown(Append(list, item), all) =
           IF Known(item, all) THEN Append(Shown(list, all), Cut(item)) ELSE Shown(list, all)
<1> DEFINE n == Len(list)
           more == Append(list, item)
<1>1. /\ more \in Seq(Item) /\ Len(more) = n + 1 /\ n \in Nat
      /\ \A i \in 1 .. n : more[i] = list[i]
      /\ more[n + 1] = item
  BY AppendProperties, LenProperties
<1>2. PICK f \in [0 .. n -> Seq(Item)] :
        /\ f[0] = <<>>
        /\ \A i \in 1 .. n :
             f[i] = IF Known(list[i], all) THEN Append(f[i - 1], Cut(list[i])) ELSE f[i - 1]
        /\ Shown(list, all) = f[n]
  BY ShownUpTo
<1> HIDE DEF more
<1>3. PICK g \in [0 .. Len(more) -> Seq(Item)] :
        /\ g[0] = <<>>
        /\ \A i \in 1 .. Len(more) :
             g[i] = IF Known(more[i], all) THEN Append(g[i - 1], Cut(more[i])) ELSE g[i - 1]
        /\ Shown(more, all) = g[Len(more)]
  BY <1>1, ShownUpTo
<1> HIDE DEF n
<1> DEFINE S == {i \in 0 .. n : f[i] = g[i]}
<1>4. 0 \in S
  BY <1>1, <1>2, <1>3
<1>5. ASSUME NEW i \in 1 .. n, i - 1 \in S PROVE i \in S
  <2>1. i \in 1 .. Len(more) /\ i \in 0 .. n
    BY <1>1
  <2>2. more[i] = list[i] /\ f[i - 1] = g[i - 1]
    BY <1>1, <1>5
  <2>3. f[i] = IF Known(list[i], all) THEN Append(f[i - 1], Cut(list[i])) ELSE f[i - 1]
    BY <1>2
  <2>4. g[i] = IF Known(more[i], all) THEN Append(g[i - 1], Cut(more[i])) ELSE g[i - 1]
    BY <1>3, <2>1
  <2>5. f[i] = g[i]
    BY <2>2, <2>3, <2>4
  <2> QED
    BY <2>1, <2>5
<1>6. n \in S
  <2> HIDE DEF S
  <2>1. \A i \in 0 .. n : i \in S
    BY <1>1, <1>4, <1>5, ByPlaces
  <2> QED
    BY <1>1, <2>1
<1>7. n + 1 \in 1 .. Len(more) /\ n + 1 - 1 = n
  BY <1>1
<1>8. g[n + 1] = IF Known(more[n + 1], all) THEN Append(g[n], Cut(more[n + 1])) ELSE g[n]
  <2> DEFINE i == n + 1
  <2>1. i \in 1 .. Len(more) /\ i - 1 = n
    BY <1>1, <1>7
  <2>2. g[i] = IF Known(more[i], all) THEN Append(g[i - 1], Cut(more[i])) ELSE g[i - 1]
    BY <1>3, <2>1
  <2>3. g[i] = IF Known(more[i], all) THEN Append(g[n], Cut(more[i])) ELSE g[n]
    BY <2>1, <2>2
  <2> QED
    BY <2>3 DEF i
<1>9. f[n] = g[n]
  BY <1>6
<1>10. Shown(more, all) = g[n + 1]
  BY <1>1, <1>3
<1> QED
  BY <1>1, <1>2, <1>8, <1>9, <1>10 DEF more

(* A list shows the same of two records that know the same of it.           *)
LEMMA ShownSame ==
  ASSUME NEW list \in Seq(Item), NEW all, NEW other,
         \A i \in 1 .. Len(list) : Known(list[i], all) <=> Known(list[i], other)
  PROVE  Shown(list, all) = Shown(list, other)
<1> DEFINE n == Len(list)
<1>1. n \in Nat
  BY LenProperties
<1>2. PICK f \in [0 .. n -> Seq(Item)] :
        /\ f[0] = <<>>
        /\ \A i \in 1 .. n :
             f[i] = IF Known(list[i], all) THEN Append(f[i - 1], Cut(list[i])) ELSE f[i - 1]
        /\ Shown(list, all) = f[n]
  BY ShownUpTo
<1>3. PICK g \in [0 .. n -> Seq(Item)] :
        /\ g[0] = <<>>
        /\ \A i \in 1 .. n :
             g[i] = IF Known(list[i], other) THEN Append(g[i - 1], Cut(list[i])) ELSE g[i - 1]
        /\ Shown(list, other) = g[n]
  BY ShownUpTo
<1>0. \A i \in 1 .. n : Known(list[i], all) <=> Known(list[i], other)
  OBVIOUS
<1> HIDE DEF n
<1> DEFINE S == {i \in 0 .. n : f[i] = g[i]}
<1>4. 0 \in S
  BY <1>1, <1>2, <1>3
<1>5. ASSUME NEW i \in 1 .. n, i - 1 \in S PROVE i \in S
  <2>1. i \in 0 .. n /\ f[i - 1] = g[i - 1]
    BY <1>1, <1>5
  <2>2. f[i] = IF Known(list[i], all) THEN Append(f[i - 1], Cut(list[i])) ELSE f[i - 1]
    BY <1>2
  <2>3. g[i] = IF Known(list[i], other) THEN Append(g[i - 1], Cut(list[i])) ELSE g[i - 1]
    BY <1>3
  <2> QED
    BY <1>0, <2>1, <2>2, <2>3
<1>6. n \in S
  <2> HIDE DEF S
  <2>1. \A i \in 0 .. n : i \in S
    BY <1>1, <1>4, <1>5, ByPlaces
  <2> QED
    BY <1>1, <2>1
<1> QED
  BY <1>2, <1>3, <1>6

(* A list of known items, as they are stored, shows itself.                 *)
LEMMA ShownItself ==
  ASSUME NEW list \in Seq(Item), NEW all,
         \A i \in 1 .. Len(list) : Known(list[i], all) /\ Cut(list[i]) = list[i]
  PROVE  Shown(list, all) = list
<1> DEFINE n == Len(list)
<1>1. n \in Nat
  BY LenProperties
<1>2. PICK f \in [0 .. n -> Seq(Item)] :
        /\ f[0] = <<>>
        /\ \A i \in 1 .. n :
             f[i] = IF Known(list[i], all) THEN Append(f[i - 1], Cut(list[i])) ELSE f[i - 1]
        /\ Shown(list, all) = f[n]
  BY ShownUpTo
<1>3. \A i \in 1 .. n : Append(SubSeq(list, 1, i - 1), list[i]) = SubSeq(list, 1, i)
  BY UpTo
<1>4. SubSeq(list, 1, 0) = <<>> /\ SubSeq(list, 1, n) = list
  <2>1. SubSeq(list, 1, n) = list
    BY SubSeqFull
  <2> QED
    BY <2>1, SubSeqEmpty
<1>5. \A i \in 1 .. n : Known(list[i], all) /\ Cut(list[i]) = list[i]
  OBVIOUS
<1> HIDE DEF n
<1> DEFINE S == {i \in 0 .. n : f[i] = SubSeq(list, 1, i)}
<1>6. 0 \in S
  BY <1>1, <1>2, <1>4
<1>7. ASSUME NEW i \in 1 .. n, i - 1 \in S PROVE i \in S
  <2>1. i \in 0 .. n /\ f[i - 1] = SubSeq(list, 1, i - 1)
    BY <1>1, <1>7
  <2>2. f[i] = Append(f[i - 1], list[i])
    BY <1>2, <1>5
  <2> QED
    BY <1>3, <2>1, <2>2
<1>8. n \in S
  <2> HIDE DEF S
  <2>1. \A i \in 0 .. n : i \in S
    BY <1>1, <1>6, <1>7, ByPlaces
  <2> QED
    BY <1>1, <2>1
<1> QED
  BY <1>2, <1>4, <1>8

-----------------------------------------------------------------------------
(* What is shown when a stream is read.                                     *)

\* What may be shown: prose that goes on is the last item, and an assistant's.
Views == {view \in [items : Seq(Item), segment : {"none", "last", "gone"}] :
            view.segment = "last" => view.items # <<>> /\ Last(view.items).role = "assistant"}

(* What a longer piece of prose is, and where it stands.                    *)
LEMMA ProseGoesOn ==
  ASSUME NEW list \in Seq(Item), list # <<>>, Last(list).role = "assistant", NEW n \in Numbers
  PROVE  LET new == [Last(list) EXCEPT !.text = Append(@, n)]
             more == [list EXCEPT ![Len(list)].text = Append(@, n)]
         IN  /\ new \in Item /\ new.role = "assistant"
             /\ more \in Seq(Item) /\ more # <<>>
             /\ Len(more) = Len(list) /\ Last(more) = new /\ Front(more) = Front(list)
<1> DEFINE k == Len(list)
           new == [Last(list) EXCEPT !.text = Append(@, n)]
           more == [list EXCEPT ![k].text = Append(@, n)]
<1>1. k \in Nat /\ k # 0 /\ k \in 1 .. k
  <2>1. k \in Nat /\ k # 0
    BY LenProperties, EmptySeq
  <2> QED
    BY <2>1
<1>2. Last(list) = list[k] /\ list[k] \in Item
  BY <1>1, ElementOfSeq DEF Last
<1>3. new \in Item /\ new.role = "assistant"
  <2>1. list[k].text \in Seq(Numbers) /\ list[k].role = "assistant"
    BY <1>2 DEF Item
  <2>2. Append(list[k].text, n) \in Seq(Numbers)
    BY <2>1, AppendProperties
  <2> QED
    BY <1>2, <2>1, <2>2 DEF Item
<1>4. more = [list EXCEPT ![k] = new]
  BY <1>2
<1> HIDE DEF k, new
<1> DEFINE other == [list EXCEPT ![k] = new]
<1>5. /\ other \in Seq(Item) /\ Len(other) = k
      /\ \A i \in 1 .. k : other[i] = IF i = k THEN new ELSE list[i]
  BY <1>1, <1>3, ExceptSeq DEF k
<1> HIDE DEF other
<1>6. other # <<>> /\ Last(other) = new
  BY <1>1, <1>5, EmptySeq DEF Last
<1>7. Front(other) = Front(list)
  <2> DEFINE a == SubSeq(other, 1, k - 1)
             b == SubSeq(list, 1, k - 1)
  <2>1. \A i \in 1 .. k - 1 : other[i] \in Item /\ list[i] \in Item /\ other[i] = list[i]
    <3>1. \A i \in 1 .. k - 1 : i \in 1 .. k /\ i # k
      BY <1>1
    <3>2. \A i \in 1 .. k : list[i] \in Item
      BY ElementOfSeq DEF k
    <3>3. \A i \in 1 .. k : other[i] \in Item
      BY <1>5, ElementOfSeq
    <3> QED
      BY <1>5, <3>1, <3>2, <3>3
  <2>2. /\ a \in Seq(Item) /\ Len(a) = IF 1 <= k - 1 THEN k - 1 - 1 + 1 ELSE 0
        /\ \A i \in 1 .. k - 1 - 1 + 1 : a[i] = other[1 + i - 1]
    BY <1>1, <2>1, SubSeqProperties
  <2>3. /\ b \in Seq(Item) /\ Len(b) = IF 1 <= k - 1 THEN k - 1 - 1 + 1 ELSE 0
        /\ \A i \in 1 .. k - 1 - 1 + 1 : b[i] = list[1 + i - 1]
    BY <1>1, <2>1, SubSeqProperties
  <2> HIDE DEF a, b
  <2>4. \A i \in 1 .. k - 1 : a[i] = other[i] /\ b[i] = list[i]
    BY <1>1, <2>2, <2>3
  <2>5. Len(a) = k - 1 /\ Len(b) = k - 1
    BY <1>1, <2>2, <2>3
  <2>6. a = b
    BY <2>1, <2>2, <2>3, <2>4, <2>5, SeqEqual
  <2> QED
    BY <1>5, <2>6 DEF Front, a, b, k
<1> QED
  BY <1>3, <1>4, <1>5, <1>6, <1>7 DEF k, new, other

(* A list and one item more.                                                *)
LEMMA FrontLast ==
  ASSUME NEW list \in Seq(Item), NEW item \in Item
  PROVE  /\ Append(list, item) \in Seq(Item) /\ Append(list, item) # <<>>
         /\ Last(Append(list, item)) = item /\ Front(Append(list, item)) = list
<1> DEFINE all == Append(list, item)
           n == Len(list)
<1>1. /\ all \in Seq(Item) /\ Len(all) = n + 1 /\ n \in Nat
      /\ \A i \in 1 .. n : all[i] = list[i]
      /\ all[n + 1] = item /\ all # <<>>
  BY AppendProperties, LenProperties
<1>2. \A i \in 1 .. n : list[i] \in Item
  BY ElementOfSeq
<1> HIDE DEF all, n
<1>3. /\ SubSeq(all, 1, n) \in Seq(Item)
      /\ Len(SubSeq(all, 1, n)) = IF 1 <= n THEN n - 1 + 1 ELSE 0
      /\ \A i \in 1 .. n - 1 + 1 : SubSeq(all, 1, n)[i] = all[1 + i - 1]
  BY <1>1, <1>2, SubSeqProperties
<1> DEFINE front == SubSeq(all, 1, n)
<1> HIDE DEF front
<1>4. Len(front) = n /\ \A i \in 1 .. n : front[i] = list[i]
  BY <1>1, <1>3 DEF front
<1>5. front \in Seq(Item)
  BY <1>3 DEF front
<1>6. front = list
  BY <1>4, <1>5, SeqEqual DEF n
<1>7. Len(all) - 1 = n
  BY <1>1
<1> QED
  BY <1>1, <1>6, <1>7 DEF Front, Last, front, all

(* And the other way round.                                                 *)
LEMMA FrontAndLast ==
  ASSUME NEW list \in Seq(Item), list # <<>>
  PROVE  /\ Front(list) \in Seq(Item) /\ Last(list) \in Item
         /\ list = Append(Front(list), Last(list))
         /\ Len(list) \in 1 .. Len(list) /\ Len(Front(list)) = Len(list) - 1
         /\ \A i \in 1 .. Len(list) - 1 : Front(list)[i] = list[i]
<1>1. Len(list) \in Nat /\ Len(list) # 0
  BY LenProperties, EmptySeq
<1>2. Len(list) \in 1 .. Len(list)
  BY <1>1
<1>3. Append(SubSeq(list, 1, Len(list) - 1), list[Len(list)]) = SubSeq(list, 1, Len(list))
  BY <1>2, UpTo
<1>4. SubSeq(list, 1, Len(list)) = list
  BY SubSeqFull
<1>5. \A i \in 1 .. Len(list) : list[i] \in Item
  BY ElementOfSeq
<1>6. \A i \in 1 .. Len(list) - 1 : list[i] \in Item
  BY <1>1, <1>5
<1>7. /\ SubSeq(list, 1, Len(list) - 1) \in Seq(Item)
      /\ Len(SubSeq(list, 1, Len(list) - 1)) =
           IF 1 <= Len(list) - 1 THEN Len(list) - 1 - 1 + 1 ELSE 0
      /\ \A i \in 1 .. Len(list) - 1 - 1 + 1 :
           SubSeq(list, 1, Len(list) - 1)[i] = list[1 + i - 1]
  BY <1>1, <1>6, SubSeqProperties
<1> DEFINE front == SubSeq(list, 1, Len(list) - 1)
<1> HIDE DEF front
<1>8. /\ front \in Seq(Item) /\ Len(front) = Len(list) - 1
      /\ \A i \in 1 .. Len(list) - 1 : front[i] = list[i]
  <2>1. /\ front \in Seq(Item)
        /\ Len(front) = IF 1 <= Len(list) - 1 THEN Len(list) - 1 - 1 + 1 ELSE 0
        /\ \A i \in 1 .. Len(list) - 1 - 1 + 1 : front[i] = list[1 + i - 1]
    BY <1>7 DEF front
  <2>2. Len(front) = Len(list) - 1
    <3> DEFINE n == Len(list)
    <3>1. n \in Nat /\ n # 0 /\ Len(front) = IF 1 <= n - 1 THEN n - 1 - 1 + 1 ELSE 0
      BY <1>1, <2>1
    <3> HIDE DEF n
    <3>2. Len(front) = n - 1
      BY <3>1
    <3> QED
      BY <3>2 DEF n
  <2>3. ASSUME NEW i \in 1 .. Len(list) - 1 PROVE front[i] = list[i]
    <3>1. i \in 1 .. Len(list) - 1 - 1 + 1 /\ 1 + i - 1 = i
      BY <1>1
    <3> QED
      BY <2>1, <3>1
  <2> QED
    BY <2>1, <2>2, <2>3
<1> QED
  BY <1>2, <1>3, <1>4, <1>5, <1>8 DEF Front, Last, front

(* An event of the stream makes a view of a view.                           *)
LEMMA ShowsView ==
  ASSUME NEW view \in Views, NEW next \in Events PROVE Shows(view, next) \in Views
<1> DEFINE list == view.items
           n == next.number
<1>1. /\ list \in Seq(Item) /\ view.segment \in {"none", "last", "gone"}
      /\ view = [items |-> list, segment |-> view.segment]
      /\ view.segment = "last" => list # <<>> /\ Last(list).role = "assistant"
  BY DEF Views
<1>2. next.event \in {"text", "tool", "error", "done"}
      /\ (next.event \in {"text", "tool"} => n \in Numbers)
  BY DEF Events
<1>3. CASE next.event = "text" /\ view.segment = "none"
  <2> DEFINE new == [role |-> "assistant", text |-> <<n>>]
  <2>1. new \in Item /\ new.role = "assistant"
    BY <1>2, <1>3 DEF Item
  <2>2. Shows(view, next) = [items |-> Append(list, new), segment |-> "last"]
    BY <1>3 DEF Shows
  <2> HIDE DEF new, list
  <2>3. Append(list, new) \in Seq(Item) /\ Append(list, new) # <<>>
        /\ Last(Append(list, new)) = new
    BY <1>1, <2>1, FrontLast
  <2> DEFINE more == Append(list, new)
  <2>4. Shows(view, next) = [items |-> more, segment |-> "last"]
    BY <2>2
  <2>5. more \in Seq(Item) /\ more # <<>> /\ Last(more).role = "assistant"
    BY <2>1, <2>3
  <2> HIDE DEF more
  <2> QED
    BY <2>4, <2>5 DEF Views
<1>4. CASE next.event = "text" /\ view.segment = "last"
  <2> DEFINE more == [list EXCEPT ![Len(list)].text = Append(@, n)]
             new == [Last(list) EXCEPT !.text = Append(@, n)]
  <2>1. Shows(view, next) = [view EXCEPT !.items[Len(view.items)].text = Append(@, next.number)]
    BY <1>4 DEF Shows
  <2>2. Shows(view, next) = [items |-> more, segment |-> "last"]
    BY <1>1, <1>4, <2>1
  <2>3. new.role = "assistant" /\ more \in Seq(Item) /\ more # <<>> /\ Last(more) = new
    <3> HIDE DEF list, n
    <3> QED
      BY <1>1, <1>2, <1>4, ProseGoesOn
  <2> HIDE DEF more, new
  <2> QED
    BY <2>2, <2>3 DEF Views
<1>5. CASE next.event = "text" /\ view.segment = "gone"
  BY <1>5 DEF Shows
<1>6. CASE next.event = "tool"
  <2>1. Tool(n) \in Item
    BY <1>2, <1>6 DEF Tool, Item
  <2>2. Append(list, Tool(n)) \in Seq(Item)
    BY <1>1, <2>1, AppendProperties
  <2>3. Shows(view, next) = [items |-> Append(list, Tool(n)), segment |-> "none"]
    BY <1>6 DEF Shows
  <2> QED
    BY <2>2, <2>3 DEF Views
<1>7. CASE next.event \in {"error", "done"}
  <2>1. Shows(view, next) = [items |-> list, segment |-> "none"]
    BY <1>1, <1>7 DEF Shows
  <2> QED
    BY <1>1, <2>1 DEF Views
<1> QED
  BY <1>1, <1>2, <1>3, <1>4, <1>5, <1>6, <1>7

(* Finally has the values that its definition names.                        *)
LEMMA FinallyUpTo ==
  ASSUME NEW view \in Views, NEW events \in Seq(Events)
  PROVE  \E g \in [0 .. Len(events) -> Views] :
           /\ g[0] = view
           /\ \A i \in 1 .. Len(events) : g[i] = Shows(g[i - 1], events[i])
           /\ Finally(view, events) = g[Len(events)]
<1> DEFINE Fn(n, g) == g[0] = view /\ \A i \in 1 .. n : g[i] = Shows(g[i - 1], events[i])
           S == {n \in 0 .. Len(events) : \E g \in [0 .. n -> Views] : Fn(n, g)}
<1>1. Len(events) \in Nat /\ \A i \in 1 .. Len(events) : events[i] \in Events
  BY LenProperties, ElementOfSeq
<1>2. 0 \in S
  <2> DEFINE g == [i \in 0 .. 0 |-> view]
  <2>1. g \in [0 .. 0 -> Views]
    OBVIOUS
  <2>2. Fn(0, g)
    OBVIOUS
  <2> HIDE DEF g, Fn
  <2> QED
    BY <1>1, <2>1, <2>2
<1>3. ASSUME NEW n \in 1 .. Len(events), n - 1 \in S PROVE n \in S
  <2>1. PICK f \in [0 .. n - 1 -> Views] : Fn(n - 1, f)
    BY <1>3
  <2> DEFINE next == Shows(f[n - 1], events[n])
             g == [i \in 0 .. n |-> IF i = n THEN next ELSE f[i]]
  <2>2. f[n - 1] \in Views
    BY <1>1, <2>1
  <2>3. next \in Views
    BY <1>1, <2>2, ShowsView
  <2> HIDE DEF next
  <2>4. g \in [0 .. n -> Views]
    BY <1>1, <2>1, <2>3
  <2>5. /\ \A i \in 0 .. n - 1 : g[i] = f[i]
        /\ g[n] = next
    BY <1>1
  <2> HIDE DEF g
  <2>6. g[0] = view
    BY <1>1, <2>1, <2>5
  <2>7. ASSUME NEW i \in 1 .. n PROVE g[i] = Shows(g[i - 1], events[i])
    <3>1. CASE i = n
      <4>1. g[n - 1] = f[n - 1]
        BY <1>1, <2>5
      <4> QED
        BY <2>5, <3>1, <4>1 DEF next
    <3>2. CASE i # n
      <4>1. i \in 1 .. n - 1 /\ i \in 0 .. n - 1 /\ i - 1 \in 0 .. n - 1
        BY <1>1, <3>2
      <4>2. g[i] = f[i] /\ g[i - 1] = f[i - 1] /\ f[i] = Shows(f[i - 1], events[i])
        BY <2>1, <2>5, <4>1
      <4> QED
        BY <4>2
    <3> QED
      BY <3>1, <3>2
  <2>8. Fn(n, g)
    BY <2>6, <2>7
  <2> HIDE DEF Fn
  <2> QED
    BY <1>1, <2>4, <2>8
<1>4. Len(events) \in S
  <2> HIDE DEF S
  <2>1. \A i \in 0 .. Len(events) : i \in S
    BY <1>1, <1>2, <1>3, ByPlaces
  <2> QED
    BY <1>1, <2>1
<1>5. PICK f \in [0 .. Len(events) -> Views] : Fn(Len(events), f)
  BY <1>4
<1> DEFINE Def(g) == g = [i \in 0 .. Len(events) |->
                           IF i = 0 THEN view ELSE Shows(g[i - 1], events[i])]
           g == CHOOSE seen : Def(seen)
<1>6. Def(f)
  <2> DEFINE h == [i \in 0 .. Len(events) |->
                    IF i = 0 THEN view ELSE Shows(f[i - 1], events[i])]
  <2>1. ASSUME NEW i \in 0 .. Len(events) PROVE f[i] = h[i]
    <3>1. CASE i = 0
      BY <1>5, <3>1
    <3>2. CASE i # 0
      <4>1. i \in 1 .. Len(events)
        BY <1>1, <3>2
      <4>2. f[i] = Shows(f[i - 1], events[i])
        BY <1>5, <4>1
      <4> QED
        BY <3>2, <4>2
    <3> QED
      BY <3>1, <3>2
  <2>2. f = h
    BY <2>1
  <2> QED
    BY <2>2
<1>7. Def(g)
  <2> HIDE DEF Def
  <2> QED
    BY Zenon, <1>6
<1>8. Finally(view, events) = g[Len(events)]
  BY Zenon DEF Finally
<1> HIDE DEF g
<1>9. /\ g[0] = view
      /\ \A i \in 1 .. Len(events) : g[i] = Shows(g[i - 1], events[i])
  <2>1. 0 \in 0 .. Len(events)
    BY <1>1
  <2>2. g[0] = view
    BY <1>7, <2>1
  <2>3. ASSUME NEW i \in 1 .. Len(events) PROVE g[i] = Shows(g[i - 1], events[i])
    <3>1. i \in 0 .. Len(events) /\ i # 0
      BY <1>1
    <3> QED
      BY <1>7, <3>1
  <2> QED
    BY <2>2, <2>3
<1>10. g \in [0 .. Len(events) -> Views]
  <2> DEFINE R == {n \in 0 .. Len(events) : g[n] \in Views}
  <2>1. 0 \in R
    <3>1. 0 \in 0 .. Len(events)
      BY <1>1
    <3> QED
      BY <1>9, <3>1
  <2>2. ASSUME NEW n \in 1 .. Len(events), n - 1 \in R PROVE n \in R
    <3>1. g[n - 1] \in Views
      BY <2>2
    <3>2. g[n] \in Views
      BY <1>1, <1>9, <3>1, ShowsView
    <3>3. n \in 0 .. Len(events)
      BY <1>1
    <3> QED
      BY <3>2, <3>3
  <2>3. \A n \in 0 .. Len(events) : n \in R
    <3> HIDE DEF R
    <3> QED
      BY <1>1, <2>1, <2>2, ByPlaces
  <2> QED
    BY <1>7, <2>3
<1> QED
  BY <1>8, <1>9, <1>10

(* It is a view.                                                           *)
LEMMA FinallyIsView ==
  ASSUME NEW view \in Views, NEW events \in Seq(Events) PROVE Finally(view, events) \in Views
<1>1. Len(events) \in 0 .. Len(events)
  BY LenProperties
<1> QED
  BY <1>1, FinallyUpTo

(* Nothing is left to read.                                                 *)
LEMMA FinallyNothing == ASSUME NEW view \in Views PROVE Finally(view, <<>>) = view
<1> DEFINE none == <<>>
<1>0. none \in Seq(Events)
  BY EmptySeq
<1>1. Len(none) = 0
  BY EmptySeq
<1> HIDE DEF none
<1>2. PICK g \in [0 .. Len(none) -> Views] :
        /\ g[0] = view
        /\ \A i \in 1 .. Len(none) : g[i] = Shows(g[i - 1], none[i])
        /\ Finally(view, none) = g[Len(none)]
  BY <1>0, FinallyUpTo
<1>3. Finally(view, none) = view
  BY <1>1, <1>2
<1> QED
  BY <1>3 DEF none

(* One event more is sent.                                                  *)
LEMMA FinallySent ==
  ASSUME NEW view \in Views, NEW events \in Seq(Events), NEW next \in Events
  PROVE  Finally(view, Append(events, next)) = Shows(Finally(view, events), next)
<1> DEFINE n == Len(events)
           more == Append(events, next)
<1>1. /\ more \in Seq(Events) /\ Len(more) = n + 1 /\ n \in Nat
      /\ \A i \in 1 .. n : more[i] = events[i]
      /\ more[n + 1] = next
  BY AppendProperties, LenProperties
<1>2. PICK f \in [0 .. n -> Views] :
        /\ f[0] = view
        /\ \A i \in 1 .. n : f[i] = Shows(f[i - 1], events[i])
        /\ Finally(view, events) = f[n]
  BY FinallyUpTo
<1> HIDE DEF more
<1>3. PICK g \in [0 .. Len(more) -> Views] :
        /\ g[0] = view
        /\ \A i \in 1 .. Len(more) : g[i] = Shows(g[i - 1], more[i])
        /\ Finally(view, more) = g[Len(more)]
  BY <1>1, FinallyUpTo
<1> HIDE DEF n
<1> DEFINE S == {i \in 0 .. n : f[i] = g[i]}
<1>4. 0 \in S
  BY <1>1, <1>2, <1>3
<1>5. ASSUME NEW i \in 1 .. n, i - 1 \in S PROVE i \in S
  <2>1. i \in 1 .. Len(more) /\ i \in 0 .. n
    BY <1>1
  <2>2. more[i] = events[i] /\ f[i - 1] = g[i - 1]
    BY <1>1, <1>5
  <2>3. f[i] = Shows(f[i - 1], events[i])
    BY <1>2
  <2>4. g[i] = Shows(g[i - 1], more[i])
    BY <1>3, <2>1
  <2>5. f[i] = g[i]
    BY <2>2, <2>3, <2>4
  <2> QED
    BY <2>1, <2>5
<1>6. n \in S
  <2> HIDE DEF S
  <2>1. \A i \in 0 .. n : i \in S
    BY <1>1, <1>4, <1>5, ByPlaces
  <2> QED
    BY <1>1, <2>1
<1>7. g[n + 1] = Shows(g[n], more[n + 1])
  <2> DEFINE i == n + 1
  <2>1. i \in 1 .. Len(more) /\ i - 1 = n
    BY <1>1
  <2> HIDE DEF i
  <2>2. g[i] = Shows(g[i - 1], more[i])
    BY <1>3, <2>1
  <2>3. g[i] = Shows(g[n], more[i])
    BY <2>1, <2>2
  <2> QED
    BY <2>3 DEF i
<1>8. f[n] = g[n]
  BY <1>6
<1>9. Finally(view, more) = g[n + 1]
  BY <1>1, <1>3
<1> QED
  BY <1>1, <1>2, <1>7, <1>8, <1>9 DEF more

(* The next event is read.                                                  *)
LEMMA FinallyRead ==
  ASSUME NEW view \in Views, NEW events \in Seq(Events), events # <<>>
  PROVE  Finally(view, events) = Finally(Shows(view, Head(events)), Tail(events))
<1> DEFINE n == Len(events)
           rest == Tail(events)
           after == Shows(view, Head(events))
<1>1. /\ rest \in Seq(Events) /\ Len(rest) = n - 1 /\ n \in Nat \ {0}
      /\ \A i \in 1 .. n - 1 : rest[i] = events[i + 1]
      /\ Head(events) \in Events /\ Head(events) = events[1]
  <2>1. Head(events) \in Events /\ Head(events) = events[1]
    BY HeadTailProperties
  <2>2. /\ rest \in Seq(Events) /\ Len(rest) = n - 1
        /\ \A i \in 1 .. n - 1 : rest[i] = events[i + 1]
    BY HeadTailProperties
  <2>3. n \in Nat /\ n # 0
    BY LenProperties, EmptySeq
  <2> QED
    BY <2>1, <2>2, <2>3
<1>2. PICK f \in [0 .. n -> Views] :
        /\ f[0] = view
        /\ \A i \in 1 .. n : f[i] = Shows(f[i - 1], events[i])
        /\ Finally(view, events) = f[n]
  BY FinallyUpTo
<1>0. after \in Views
  BY <1>1, ShowsView
<1> HIDE DEF rest, after
<1>3. PICK g \in [0 .. Len(rest) -> Views] :
        /\ g[0] = after
        /\ \A i \in 1 .. Len(rest) : g[i] = Shows(g[i - 1], rest[i])
        /\ Finally(after, rest) = g[Len(rest)]
  BY <1>0, <1>1, FinallyUpTo
<1> HIDE DEF n
<1> DEFINE S == {i \in 0 .. n - 1 : f[i + 1] = g[i]}
<1>4. 0 \in S
  <2>1. 1 \in 1 .. n /\ 0 \in 0 .. n - 1
    BY <1>1
  <2>2. f[1] = Shows(f[1 - 1], events[1])
    BY <1>2, <2>1
  <2>3. f[1] = after
    BY <1>1, <1>2, <2>2 DEF after
  <2> QED
    BY <1>3, <2>1, <2>3
<1>5. ASSUME NEW i \in 1 .. n - 1, i - 1 \in S PROVE i \in S
  <2> DEFINE k == i + 1
  <2>1. i \in 1 .. Len(rest) /\ i \in 0 .. n - 1 /\ k \in 1 .. n /\ k - 1 = i /\ i - 1 + 1 = i
    BY <1>1
  <2>2. rest[i] = events[k] /\ f[i - 1 + 1] = g[i - 1]
    BY <1>1, <1>5
  <2> HIDE DEF k
  <2>3. f[k] = Shows(f[k - 1], events[k])
    BY <1>2, <2>1
  <2>4. g[i] = Shows(g[i - 1], rest[i])
    BY <1>3, <2>1
  <2>5. f[i] = g[i - 1]
    BY <2>1, <2>2
  <2>6. f[k] = g[i]
    BY <2>1, <2>2, <2>3, <2>4, <2>5
  <2> QED
    BY <2>1, <2>6 DEF k
<1>6. n - 1 \in S
  <2> HIDE DEF S
  <2>1. n - 1 \in Nat
    BY <1>1
  <2>2. \A i \in 0 .. n - 1 : i \in S
    BY <1>4, <1>5, <2>1, ByPlaces
  <2> QED
    BY <2>1, <2>2
<1>7. f[n - 1 + 1] = g[n - 1] /\ n - 1 + 1 = n
  BY <1>1, <1>6
<1>8. f[n] = g[Len(rest)]
  BY <1>1, <1>7
<1> QED
  BY <1>2, <1>3, <1>8 DEF rest, after

-----------------------------------------------------------------------------
(* What is stored of a message, and where the record ends.                  *)

(* The end of a text is stored: it keeps its last number and its role.      *)
LEMMA CutKeeps ==
  ASSUME NEW item \in Item
  PROVE  /\ Cut(item) \in Item /\ Cut(item).role = item.role
         /\ Len(Cut(item).text) <= MaxStored
         /\ item.text # <<>> => Cut(item).text # <<>> /\ Last(Cut(item).text) = Last(item.text)
<1> DEFINE text == item.text
           size == Len(text)
           end == SubSeq(text, size - MaxStored + 1, size)
<1>1. text \in Seq(Numbers) /\ size \in Nat /\ MaxStored \in Nat \ {0}
  <2>1. text \in Seq(Numbers)
    BY DEF Item
  <2> QED
    BY <2>1, LenProperties, ConversationAssumption
<1>2. CASE size <= MaxStored
  <2>1. Cut(item) = item
    BY <1>2 DEF Cut
  <2> QED
    BY <1>2, <2>1
<1>3. CASE ~(size <= MaxStored)
  <2>1. Cut(item) = [item EXCEPT !.text = end]
    BY <1>3 DEF Cut
  <2>2. Cut(item).text = end /\ Cut(item).role = item.role
    BY <2>1 DEF Item
  <2>3. \A i \in 1 .. size : text[i] \in Numbers
    BY <1>1, ElementOfSeq
  <2> HIDE DEF size, text
  <2> DEFINE first == size - MaxStored + 1
  <2>4. first \in 1 .. size /\ size - first + 1 = MaxStored /\ first + MaxStored - 1 = size
        /\ MaxStored \in 1 .. MaxStored
    BY <1>1, <1>3
  <2> HIDE DEF first
  <2>5. /\ SubSeq(text, first, size) \in Seq(Numbers)
        /\ Len(SubSeq(text, first, size)) = IF first <= size THEN size - first + 1 ELSE 0
        /\ \A i \in 1 .. size - first + 1 : SubSeq(text, first, size)[i] = text[first + i - 1]
    <3>1. \A i \in first .. size : text[i] \in Numbers
      BY <1>1, <2>3, <2>4
    <3> QED
      BY <1>1, <2>4, <3>1, SubSeqProperties
  <2>6. end = SubSeq(text, first, size)
    BY DEF first
  <2> HIDE DEF end
  <2>7. end \in Seq(Numbers) /\ Len(end) = MaxStored /\ end[MaxStored] = text[size]
    BY <1>1, <2>4, <2>5, <2>6
  <2>8. end # <<>> /\ Last(end) = Last(text)
    BY <1>1, <2>7, EmptySeq DEF Last, size
  <2> QED
    BY <1>1, <2>2, <2>7, <2>8, CutIsItem DEF text
<1> QED
  BY <1>2, <1>3, CutIsItem

(* Storing a message makes the transcript one longer at most.               *)
LEMMA AddedLength ==
  ASSUME NEW list \in Seq(Item), NEW item \in Item
  PROVE  AddMessage(list, item) \in Seq(Item) /\ Len(AddMessage(list, item)) <= Len(list) + 1
<1> DEFINE all == Append(list, Cut(item))
           F == {k \in 1 .. Len(all) + 1 : Fits(From(all, k))}
           m == Min(F)
<1>1. all \in Seq(Item) /\ Len(all) = Len(list) + 1 /\ Len(list) \in Nat
  BY CutIsItem, AppendProperties, LenProperties
<1>2. AddMessage(list, item) = From(all, m)
  BY DEF AddMessage
<1> HIDE DEF all
<1>3. m \in F
  <2>1. From(all, Len(all) + 1) = <<>>
    BY <1>1, SubSeqEmpty DEF From
  <2>2. Len(all) + 1 \in F
    BY <1>1, <2>1, EmptyFits
  <2> HIDE DEF F
  <2>3. F \in SUBSET Nat
    BY <1>1 DEF F
  <2> QED
    BY <2>2, <2>3, Least
<1> HIDE DEF m
<1>4. m \in 1 .. Len(all) + 1
  BY <1>3
<1>5. From(all, m) \in Seq(Item) /\ Len(From(all, m)) = Len(all) - m + 1
  BY <1>1, <1>4, FromProperties
<1>6. Len(From(all, m)) <= Len(list) + 1
  BY <1>1, <1>4, <1>5
<1> QED
  BY <1>2, <1>5, <1>6

(* A message that is recorded makes no other one known.                     *)
LEMMA KnownSame ==
  ASSUME NEW all \in Seq(Item), NEW stored \in Item, NEW item \in Item,
         item.role = "user" => Cut(item) # stored
  PROVE  Known(item, all) <=> Known(item, Append(all, stored))
<1> DEFINE more == Append(all, stored)
           n == Len(all)
<1>1. /\ n \in Nat /\ DOMAIN all = 1 .. n /\ DOMAIN more = 1 .. n + 1
      /\ \A i \in 1 .. n : more[i] = all[i]
      /\ more[n + 1] = stored
  BY AppendProperties, LenProperties
<1> HIDE DEF more, n
<1>2. ASSUME item.role = "user"
      PROVE  (\E i \in DOMAIN all : all[i] = Cut(item))
               <=> (\E i \in DOMAIN more : more[i] = Cut(item))
  <2>1. ASSUME NEW i \in 1 .. n, all[i] = Cut(item) PROVE i \in 1 .. n + 1 /\ more[i] = Cut(item)
    BY <1>1, <2>1
  <2>2. ASSUME NEW i \in 1 .. n + 1, more[i] = Cut(item) PROVE i \in 1 .. n /\ all[i] = Cut(item)
    <3>1. i # n + 1
      BY <1>1, <1>2, <2>2
    <3>2. i \in 1 .. n
      BY <1>1, <3>1
    <3> QED
      BY <1>1, <2>2, <3>2
  <2> QED
    BY <1>1, <2>1, <2>2
<1> QED
  BY <1>2 DEF Known, more

(* What is recorded is known.                                               *)
LEMMA KnownStored ==
  ASSUME NEW all \in Seq(Item), NEW item \in Item PROVE Known(item, Append(all, Cut(item)))
<1> DEFINE more == Append(all, Cut(item))
           n == Len(all)
<1>1. n \in Nat /\ DOMAIN more = 1 .. n + 1 /\ more[n + 1] = Cut(item)
  BY CutIsItem, AppendProperties, LenProperties
<1> HIDE DEF more, n
<1>2. n + 1 \in DOMAIN more
  BY <1>1
<1> QED
  BY <1>1, <1>2 DEF Known, more

(* A list that shows the end of the record does so when a message is both   *)
(* shown and recorded, and is none of those shown before.                   *)
LEMMA EndGrows ==
  ASSUME NEW list \in Seq(Item), NEW all \in Seq(Item), NEW stored \in Seq(Item),
         ShowsEnd(list, all, stored), NEW item \in Item,
         \A k \in 1 .. Len(list) : list[k].role = "user" => Cut(list[k]) # Cut(item)
  PROVE  ShowsEnd(Append(list, item), Append(all, Cut(item)), AddMessage(stored, item))
<1> DEFINE c == Cut(item)
           more == Append(all, c)
<1>1. PICK i \in 1 .. Len(all) + 1 :
        Shown(list, all) = From(all, i) /\ Len(stored) <= Len(all) - i + 1
  BY DEF ShowsEnd
<1>2. c \in Item /\ Len(all) \in Nat /\ \A k \in 1 .. Len(list) : list[k] \in Item
  BY CutIsItem, LenProperties, ElementOfSeq
<1>3. more \in Seq(Item) /\ Len(more) = Len(all) + 1
  BY <1>2, AppendProperties
<1>4. Shown(list, more) = From(all, i)
  <2>1. \A k \in 1 .. Len(list) : Known(list[k], all) <=> Known(list[k], more)
    <3> TAKE k \in 1 .. Len(list)
    <3>1. list[k].role = "user" => Cut(list[k]) # c
      OBVIOUS
    <3> HIDE DEF c
    <3> QED
      BY <1>2, <3>1, KnownSame
  <2> HIDE DEF more
  <2>2. Shown(list, all) = Shown(list, more)
    BY <2>1, ShownSame
  <2> QED
    BY <1>1, <2>2
<1>5. Known(item, more)
  BY KnownStored
<1>6. Shown(Append(list, item), more) = Append(Shown(list, more), c)
  <2> HIDE DEF more
  <2> QED
    BY <1>5, ShownAppend
<1>7. Append(From(all, i), c) = From(more, i)
  BY <1>2, FromAppend
<1> HIDE DEF more, c
<1>8. Shown(Append(list, item), more) = From(more, i)
  BY <1>4, <1>6, <1>7
<1>9. i \in 1 .. Len(more) + 1 /\ Len(AddMessage(stored, item)) <= Len(more) - i + 1
  <2>1. /\ Len(AddMessage(stored, item)) <= Len(stored) + 1
        /\ Len(AddMessage(stored, item)) \in Nat /\ Len(stored) \in Nat
    BY AddedLength, LenProperties
  <2> QED
    BY <1>1, <1>2, <1>3, <2>1
<1> QED
  BY <1>8, <1>9 DEF ShowsEnd, more, c

(* Prose and tool calls are never taken for an owner's message.             *)
LEMMA EndGoesOn ==
  ASSUME NEW list \in Seq(Item), NEW all \in Seq(Item), NEW stored \in Seq(Item),
         ShowsEnd(list, all, stored), NEW item \in Item, item.role # "user"
  PROVE  ShowsEnd(Append(list, item), Append(all, Cut(item)), AddMessage(stored, item))
<1>1. ASSUME NEW k \in 1 .. Len(list) PROVE list[k].role = "user" => Cut(list[k]) # Cut(item)
  <2>1. list[k] \in Item
    BY ElementOfSeq
  <2>2. Cut(list[k]).role = list[k].role /\ Cut(item).role = item.role
    BY <2>1, CutKeeps
  <2> QED
    BY <2>2
<1> QED
  BY <1>1, EndGrows

(* A message that is shown and not recorded changes nothing of it.          *)
LEMMA EndStays ==
  ASSUME NEW list \in Seq(Item), NEW all \in Seq(Item), NEW stored \in Seq(Item),
         NEW item \in Item, ~Known(item, all)
  PROVE  ShowsEnd(Append(list, item), all, stored) <=> ShowsEnd(list, all, stored)
<1>1. Shown(Append(list, item), all) = Shown(list, all)
  BY ShownAppend
<1> QED
  BY <1>1 DEF ShowsEnd

(* The end of a record, as it is stored, shows itself.                      *)
LEMMA EndItself ==
  ASSUME NEW all \in Seq(Item), NEW i \in 1 .. Len(all) + 1,
         \A k \in 1 .. Len(all) : Len(all[k].text) <= MaxStored
  PROVE  ShowsEnd(From(all, i), all, From(all, i))
<1> DEFINE list == From(all, i)
<1>1. /\ list \in Seq(Item) /\ Len(list) = Len(all) - i + 1 /\ Len(all) \in Nat
      /\ \A k \in 1 .. Len(all) - i + 1 : list[k] = all[i + k - 1]
  BY FromProperties, LenProperties
<1> HIDE DEF list
<1>2. ASSUME NEW k \in 1 .. Len(list) PROVE Known(list[k], all) /\ Cut(list[k]) = list[k]
  <2> DEFINE j == i + k - 1
  <2>1. j \in 1 .. Len(all) /\ list[k] = all[j]
    BY <1>1
  <2> HIDE DEF j
  <2>2. Cut(all[j]) = all[j]
    BY <2>1 DEF Cut
  <2>3. j \in DOMAIN all
    BY <2>1, LenProperties
  <2> QED
    BY <2>1, <2>2, <2>3 DEF Known
<1>3. Shown(list, all) = list
  BY <1>1, <1>2, ShownItself
<1>4. Len(list) <= Len(all) - i + 1
  BY <1>1
<1> QED
  BY <1>3, <1>4 DEF ShowsEnd, list

(* Only an owner's message needs its number, and a number that was given    *)
(* stays given.                                                             *)
LEMMA NumberedFurther ==
  ASSUME NEW item, NEW n \in Nat, NEW m \in Nat, n <= m, Numbered(item, n)
  PROVE  Numbered(item, m)
<1>1. ASSUME item.role = "user" PROVE item.text # <<>> /\ Last(item.text) \in 1 .. m
  <2>1. item.text # <<>> /\ Last(item.text) \in 1 .. n
    BY <1>1 DEF Numbered
  <2> QED
    BY <2>1
<1> QED
  BY <1>1 DEF Numbered

(* What is stored of a message keeps its number.                            *)
LEMMA NumberedCut ==
  ASSUME NEW item \in Item, NEW n, Numbered(item, n) PROVE Numbered(Cut(item), n)
BY CutKeeps DEF Numbered

(* The owner's message number n has that number, and none before it.        *)
LEMMA UserNumber ==
  ASSUME NEW n \in Numbers
  PROVE  /\ User(n) \in Item /\ Numbered(User(n), n) /\ User(n).role = "user"
         /\ \A item \in Item : Numbered(item, n - 1) /\ item.role = "user"
                                 => Cut(item) # Cut(User(n))
<1> DEFINE text == <<n, n>>
<1>1. n \in Nat /\ n \in 1 .. n
  BY ConversationAssumption DEF Numbers
<1>2. text \in Seq(Numbers) /\ Len(text) = 2 /\ text[2] = n
  OBVIOUS
<1> HIDE DEF text
<1>3. text # <<>> /\ Last(text) = n
  <2>1. Last(text) = text[Len(text)]
    BY DEF Last
  <2>2. Len(text) # 0
    BY <1>2
  <2>3. text # <<>>
    BY <2>2, EmptySeq
  <2> QED
    BY <1>2, <2>1, <2>3
<1>4. User(n) = [role |-> "user", text |-> text]
  BY DEF User, text
<1>5. User(n) \in Item /\ User(n).text = text /\ User(n).role = "user"
  BY <1>2, <1>4 DEF Item
<1>6. Numbered(User(n), n)
  BY <1>1, <1>3, <1>5 DEF Numbered
<1>7. ASSUME NEW item \in Item, Numbered(item, n - 1), item.role = "user"
      PROVE  Cut(item) # Cut(User(n))
  <2>1. item.text # <<>> /\ Last(item.text) \in 1 .. n - 1
    BY <1>7 DEF Numbered
  <2>2. Last(Cut(item).text) = Last(item.text)
    BY <2>1, CutKeeps
  <2>3. Last(Cut(User(n)).text) = n
    BY <1>3, <1>5, CutKeeps
  <2>4. Last(item.text) # n
    BY <1>1, <2>1
  <2> QED
    BY <2>2, <2>3, <2>4
<1> QED
  BY <1>5, <1>6, <1>7

(* A new message is not known by the ones recorded before it.               *)
LEMMA NewUnknown ==
  ASSUME NEW n \in Numbers, NEW all \in Seq(Item),
         \A i \in DOMAIN all : Numbered(all[i], n - 1) /\ Len(all[i].text) <= MaxStored
  PROVE  ~Known(User(n), all)
<1> SUFFICES ASSUME Known(User(n), all) PROVE FALSE
  OBVIOUS
<1>1. User(n) \in Item /\ User(n).role = "user"
  BY UserNumber
<1>2. PICK i \in DOMAIN all : all[i] = Cut(User(n))
  BY <1>1 DEF Known
<1>3. all[i] \in Item /\ Cut(all[i]) = all[i]
  <2>1. DOMAIN all = 1 .. Len(all)
    BY LenProperties
  <2> QED
    BY <2>1, ElementOfSeq DEF Cut
<1>4. all[i].role = "user"
  BY <1>1, <1>2, CutKeeps
<1>5. Numbered(all[i], n - 1)
  OBVIOUS
<1> QED
  BY <1>2, <1>3, <1>4, <1>5, UserNumber

-----------------------------------------------------------------------------
(* What an event makes of a view.                                           *)

(* Prose begins, or goes on where it stood.                                 *)
LEMMA ShowsProse ==
  ASSUME NEW view \in Views, NEW n \in Numbers
  PROVE  LET after == Shows(view, Event("text", n)) IN
         /\ view.segment = "none" =>
              /\ after.segment = "last" /\ Front(after.items) = view.items
              /\ Last(after.items) = Prose(<<n>>)
         /\ \A text \in Seq(Numbers) : view.segment = "last" /\ Last(view.items) = Prose(text) =>
              /\ after.segment = "last" /\ Front(after.items) = Front(view.items)
              /\ Last(after.items) = Prose(Append(text, n))
<1> DEFINE next == Event("text", n)
           after == Shows(view, next)
           list == view.items
<1>1. next.event = "text" /\ next.number = n
  BY DEF Event
<1>2. list \in Seq(Item) /\ view = [items |-> list, segment |-> view.segment]
      /\ (view.segment = "last" => list # <<>> /\ Last(list).role = "assistant")
  BY DEF Views
<1> HIDE DEF next
<1>3. ASSUME view.segment = "none"
      PROVE  /\ after.segment = "last" /\ Front(after.items) = list
             /\ Last(after.items) = Prose(<<n>>)
  <2> DEFINE new == [role |-> "assistant", text |-> <<n>>]
  <2>1. new \in Item /\ new = Prose(<<n>>)
    BY DEF Item, Prose
  <2>2. after = [items |-> Append(list, new), segment |-> "last"]
    BY <1>1, <1>3 DEF Shows
  <2> HIDE DEF new, list, after
  <2>3. Last(Append(list, new)) = new /\ Front(Append(list, new)) = list
    BY <1>2, <2>1, FrontLast
  <2> QED
    BY <2>1, <2>2, <2>3
<1>4. ASSUME NEW text \in Seq(Numbers), view.segment = "last", Last(list) = Prose(text)
      PROVE  /\ after.segment = "last" /\ Front(after.items) = Front(list)
             /\ Last(after.items) = Prose(Append(text, n))
  <2> DEFINE more == [list EXCEPT ![Len(list)].text = Append(@, n)]
             new == [Last(list) EXCEPT !.text = Append(@, n)]
  <2>1. after = [view EXCEPT !.items[Len(view.items)].text = Append(@, next.number)]
    BY <1>1, <1>4 DEF Shows
  <2> HIDE DEF after, next
  <2>2. after = [items |-> more, segment |-> "last"]
    <3>1. view = [items |-> list, segment |-> "last"] /\ view.items = list
      BY <1>2, <1>4
    <3>2. after = [view EXCEPT !.items = [view.items EXCEPT ![Len(view.items)].text = Append(@, n)]]
      BY <1>1, <2>1
    <3>3. after = [view EXCEPT !.items = more]
      BY <3>2, <3>1
    <3> HIDE DEF more, list
    <3> QED
      BY <3>1, <3>3
  <2>3. new = Prose(Append(text, n))
    <3> DEFINE old == [role |-> "assistant", text |-> text]
    <3>1. Last(list) = old
      BY <1>4 DEF Prose
    <3>2. [old EXCEPT !.text = Append(@, n)] = [role |-> "assistant", text |-> Append(text, n)]
      OBVIOUS
    <3>3. new = [old EXCEPT !.text = Append(@, n)]
      <4> HIDE DEF old, list
      <4> QED
        BY <3>1
    <3> HIDE DEF old, new
    <3> QED
      BY <3>2, <3>3 DEF Prose
  <2>4. list # <<>> /\ Last(list).role = "assistant"
    BY <1>2, <1>4
  <2> HIDE DEF after
  <2>5. Last(more) = new /\ Front(more) = Front(list)
    <3> HIDE DEF list
    <3> QED
      BY <1>2, <2>4, ProseGoesOn
  <2> HIDE DEF more, new
  <2> QED
    BY <2>2, <2>3, <2>5
<1> QED
  BY <1>3, <1>4 DEF next

(* A tool call ends the prose, and so do errors and the stream's end.       *)
LEMMA ShowsOther ==
  ASSUME NEW view \in Views
  PROVE  /\ \A n \in Numbers : Shows(view, Event("tool", n)) =
                                 [items |-> Append(view.items, Tool(n)), segment |-> "none"]
         /\ Shows(view, Event("error", 0)) = [items |-> view.items, segment |-> "none"]
         /\ Shows(view, Event("done", 0)) = [items |-> view.items, segment |-> "none"]
<1>1. view = [items |-> view.items, segment |-> view.segment]
  BY DEF Views
<1>2. ASSUME NEW next, next.event \in {"error", "done"}
      PROVE  Shows(view, next) = [items |-> view.items, segment |-> "none"]
  <2>1. Shows(view, next) = [view EXCEPT !.segment = "none"]
    BY <1>2 DEF Shows
  <2> QED
    BY <1>1, <2>1
<1>3. Event("error", 0).event = "error" /\ Event("done", 0).event = "done"
  BY DEF Event
<1>4. ASSUME NEW n \in Numbers
      PROVE  Shows(view, Event("tool", n)) =
               [items |-> Append(view.items, Tool(n)), segment |-> "none"]
  BY DEF Shows, Event
<1> QED
  BY <1>2, <1>3, <1>4

(* Of the owner's messages an event shows no more, and it opens no prose    *)
(* that is not shown.                                                       *)
LEMMA ShowsNumbered ==
  ASSUME NEW view \in Views, NEW next \in Events, NEW n,
         \A i \in DOMAIN view.items : Numbered(view.items[i], n)
  PROVE  LET after == Shows(view, next) IN
         /\ \A i \in DOMAIN after.items : Numbered(after.items[i], n)
         /\ view.segment # "gone" => after.segment # "gone"
<1> DEFINE list == view.items
           after == Shows(view, next)
           Kept(some) == \A i \in DOMAIN some : Numbered(some[i], n)
<1>1. /\ list \in Seq(Item) /\ view.segment \in {"none", "last", "gone"}
      /\ view = [items |-> list, segment |-> view.segment]
      /\ view.segment = "last" => list # <<>> /\ Last(list).role = "assistant"
      /\ next.event \in {"text", "tool", "error", "done"}
      /\ next.event \in {"text", "tool"} => next.number \in Numbers
  BY DEF Views, Events
<1>2. ASSUME NEW item \in Item, item.role # "user" PROVE Kept(Append(list, item))
  <2> DEFINE more == Append(list, item)
  <2>1. /\ DOMAIN list = 1 .. Len(list) /\ DOMAIN more = 1 .. Len(list) + 1 /\ Len(list) \in Nat
        /\ \A i \in 1 .. Len(list) : more[i] = list[i]
        /\ more[Len(list) + 1] = item
    BY <1>1, AppendProperties, LenProperties
  <2>2. Numbered(item, n)
    BY <1>2 DEF Numbered
  <2>3. Kept(list)
    OBVIOUS
  <2> HIDE DEF more
  <2> QED
    BY <2>1, <2>2, <2>3
<1>3. CASE next.event = "text" /\ view.segment = "none"
  <2> DEFINE new == [role |-> "assistant", text |-> <<next.number>>]
  <2>1. new \in Item /\ new.role # "user"
    BY <1>1, <1>3 DEF Item
  <2>2. after = [items |-> Append(list, new), segment |-> "last"]
    BY <1>3 DEF Shows
  <2> HIDE DEF new, list, after
  <2>3. Kept(Append(list, new))
    BY <1>2, <2>1
  <2> HIDE DEF Kept
  <2>4. Kept(after.items) /\ after.segment # "gone"
    BY <2>2, <2>3
  <2> QED
    BY <2>4 DEF Kept, after
<1>4. CASE next.event = "text" /\ view.segment = "last"
  <2> DEFINE k == Len(list)
             new == [list[k] EXCEPT !.text = Append(@, next.number)]
             more == [list EXCEPT ![k] = new]
  <2>1. after = [view EXCEPT !.items[Len(view.items)].text = Append(@, next.number)]
    BY <1>4 DEF Shows
  <2>2. k \in 1 .. k /\ list[k] \in Item /\ list[k].role = "assistant"
    <3>1. k \in Nat /\ k # 0
      BY <1>1, <1>4, LenProperties, EmptySeq
    <3>2. k \in 1 .. k
      BY <3>1
    <3>3. Last(list) = list[k]
      BY DEF Last
    <3>4. list[k] \in Item
      BY <1>1, <3>2, ElementOfSeq
    <3> QED
      BY <1>1, <1>4, <3>2, <3>3, <3>4
  <2>3. after = [items |-> more, segment |-> "last"]
    BY <1>1, <1>4, <2>1
  <2>4. new.role = "assistant"
    BY <2>2 DEF Item
  <2>5. Kept(list)
    OBVIOUS
  <2>6. Numbered(new, n)
    BY <2>4 DEF Numbered
  <2>7. \A i \in DOMAIN more : i \in DOMAIN list /\ more[i] = IF i = k THEN new ELSE list[i]
    <3> HIDE DEF new
    <3> QED
      OBVIOUS
  <2> HIDE DEF more, new, after, list
  <2>8. Kept(more)
    BY <2>5, <2>6, <2>7
  <2> HIDE DEF Kept
  <2>9. Kept(after.items) /\ after.segment # "gone"
    BY <2>3, <2>8
  <2> QED
    BY <2>9 DEF Kept, after
<1>5. CASE next.event = "text" /\ view.segment = "gone"
  BY <1>5 DEF Shows
<1>6. CASE next.event = "tool"
  <2>1. Tool(next.number) \in Item /\ Tool(next.number).role # "user"
    BY <1>1, <1>6 DEF Tool, Item
  <2>2. after = [items |-> Append(list, Tool(next.number)), segment |-> "none"]
    BY <1>6 DEF Shows
  <2> HIDE DEF list, after
  <2>3. Kept(Append(list, Tool(next.number)))
    BY <1>2, <2>1
  <2> HIDE DEF Kept
  <2>4. Kept(after.items) /\ after.segment # "gone"
    BY <2>2, <2>3
  <2> QED
    BY <2>4 DEF Kept, after
<1>7. CASE next.event \in {"error", "done"}
  <2>1. after = [items |-> list, segment |-> "none"]
    BY <1>1, <1>7 DEF Shows
  <2>2. Kept(list)
    OBVIOUS
  <2> HIDE DEF list, after, Kept
  <2>3. Kept(after.items) /\ after.segment # "gone"
    BY <2>1, <2>2
  <2> QED
    BY <2>3 DEF Kept, after
<1> QED
  BY <1>1, <1>3, <1>4, <1>5, <1>6, <1>7
=================================================================================
