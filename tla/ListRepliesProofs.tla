-------------------------- MODULE ListRepliesProofs --------------------------
(***************************************************************************)
(* Proofs about ListReplies, for columns and tables of any size.           *)
(***************************************************************************)
EXTENDS ListReplies, TLAPS

\* One row more is one factor more.
LEMMA TimesSucc == \A a, n \in Nat : a * (n + 1) = a * n + a
OBVIOUS

\* A product below the quotient is below the dividend.
LEMMA QuotientBound ==
    ASSUME NEW x \in Nat, NEW d \in Nat, d > 0, NEW n \in Nat, n <= x \div d
    PROVE  d * n <= x
<1>1. x \div d \in Nat /\ d * (x \div d) <= x
  OBVIOUS
<1>2. d * n <= d * (x \div d)
  BY <1>1
<1>3. d * n \in Nat /\ d * (x \div d) \in Nat
  BY <1>1
<1>4. QED BY <1>1, <1>2, <1>3

\* The sizes of entries are natural numbers.
LEMMA FixedType == \A k \in Kinds : Fixed(k) \in Nat /\ Fixed(k) > 0
BY DEF Fixed, RealmFixed, CharFixed, ItemSize

\* The bytes of the list stay between those of so many entries with no text and
\* with the longest.
THEOREM ListTypeCorrect == Spec => []TypeOK
<1>1. Init => TypeOK
  BY FixedType, ListAssumption DEF Init, TypeOK
<1>2. TypeOK /\ [Next]_vars => TypeOK'
  <2> SUFFICES ASSUME TypeOK, NEW t \in Texts[kind], Insert(t) PROVE TypeOK'
    BY DEF Next, TypeOK, vars
  <2> DEFINE F == Fixed(kind)
             M == MaxText[kind]
  <2>1. F \in Nat /\ M \in Nat /\ t \in 0..M /\ rows \in Nat /\ bytes \in Nat
    BY FixedType, ListAssumption DEF TypeOK
  <2>2. F * (rows + 1) = F * rows + F /\ (F + M) * (rows + 1) = (F + M) * rows + (F + M)
    <3>1. F + M \in Nat
      BY <2>1
    <3> HIDE DEF F, M
    <3>2. QED BY <2>1, <3>1, TimesSucc, Zenon
  <2>3. F * rows <= bytes /\ bytes <= (F + M) * rows
    BY <2>1 DEF TypeOK
  <2>4. F * rows \in Nat /\ (F + M) * rows \in Nat
    BY <2>1
  <2>5. F * (rows + 1) <= bytes + F + t /\ bytes + F + t <= (F + M) * (rows + 1)
    BY <2>1, <2>2, <2>3, <2>4
  <2>6. kind' = kind /\ rows' = rows + 1 /\ bytes' = bytes + F + t
    BY DEF Insert
  <2>7. QED BY <2>1, <2>5, <2>6 DEF TypeOK
<1>3. QED BY <1>1, <1>2, PTL DEF Spec

\* Up to RealmLimit realms the reply's size and count are what follows them: with
\* names and sockets of 1154 bytes, 56 realms.
THEOREM RealmListIsExact == Spec => []RealmListFits
<1>1. TypeOK => RealmListFits
  <2> SUFFICES ASSUME TypeOK, kind = "realms", rows <= RealmLimit PROVE RealmListDecodes
    BY DEF RealmListFits
  <2> DEFINE D == RealmFixed + MaxText["realms"]
  <2>1. D \in Nat /\ D >= 12 /\ rows \in Nat /\ bytes \in Nat /\ bytes <= D * rows
    BY ListAssumption DEF TypeOK, Fixed, RealmFixed, Kinds
  <2>2. D * rows <= U16 - 17 /\ D * rows \in Nat
    BY <2>1, QuotientBound DEF RealmLimit, U16
  <2>3. rows <= D * rows
    BY <2>1
  <2>4. bytes <= 65519 /\ rows <= 65519
    BY <2>1, <2>2, <2>3 DEF U16
  <2>5. QED BY <2>1, <2>4 DEF RealmListDecodes, RealmSize, RealmTail, RealmCount, CapacityFits, U16
<1>2. QED BY ListTypeCorrect, <1>1, PTL

\* Up to CharLimit characters the size and the count of CharEnum are what follows
\* them: with a column of 48 bytes, 206 characters.
THEOREM CharEnumIsExact == Spec => []CharEnumFits
<1>1. TypeOK => CharEnumFits
  <2> SUFFICES ASSUME TypeOK, kind = "characters", rows <= CharLimit PROVE CharEnumDecodes
    BY DEF CharEnumFits
  <2> DEFINE D == CharFixed + MaxText["characters"]
  <2>1. D \in Nat /\ D >= 270 /\ rows \in Nat /\ bytes \in Nat /\ bytes <= D * rows
    BY ListAssumption DEF TypeOK, Fixed, CharFixed, ItemSize, Kinds
  <2>2. D * rows <= U16 - 4 /\ D * rows \in Nat
    BY <2>1, QuotientBound DEF CharLimit, U16
  <2>3. 270 * rows <= D * rows
    BY <2>1
  <2>4. bytes <= 65532 /\ rows < 256
    BY <2>1, <2>2, <2>3 DEF U16
  <2>5. QED BY <2>1, <2>4 DEF CharEnumDecodes, CharSize, CharTail, CharCount, U16, U8
<1>2. QED BY ListTypeCorrect, <1>1, PTL
=============================================================================
