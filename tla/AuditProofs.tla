----------------------------- MODULE AuditProofs -----------------------------
(***************************************************************************)
(* Proofs about internal/audit.  First the ring, which is correct for      *)
(* every size, every set of records and every number of writes.            *)
(* ContentsAreLatest is not inductive as it stands: it says nothing of     *)
(* next while the ring is not full.  IInv relates every slot to the record *)
(* of the history that it holds; Contents is then a concatenation whose    *)
(* elements can be read off the history one by one.                        *)
(***************************************************************************)
EXTENDS Audit, FiniteSetTheorems, TLAPS

\* Slot i holds the record written into it last.
SlotsBeforeWrap ==
  ~full => /\ Len(history) = next
           /\ \A i \in 0..(next - 1) : buf[i] = history[i + 1]

SlotsAfterWrap ==
  full => /\ Len(history) >= RingSize
          /\ \A i \in 0..(next - 1) : buf[i] = history[Len(history) - next + i + 1]
          /\ \A i \in next..(RingSize - 1) :
                 buf[i] = history[Len(history) - next - RingSize + i + 1]

\* The part of the type invariant that does not speak of the copies.
RingTypeOK == /\ buf \in [0..(RingSize - 1) -> Entries \cup {Zero}]
              /\ next \in 0..(RingSize - 1)
              /\ full \in BOOLEAN
              /\ history \in Seq(Entries)

IInv == RingTypeOK /\ SlotsBeforeWrap /\ SlotsAfterWrap

\* The only arithmetic of ring.add: stepping an index of the ring.
LEMMA StepIndex ==
  ASSUME NEW n \in 0..(RingSize - 1)
  PROVE  (n + 1) % RingSize = IF n = RingSize - 1 THEN 0 ELSE n + 1
BY RingSizeAssumption, SMT

LEMMA InitIInv == RingInit => IInv
<1> SUFFICES ASSUME RingInit PROVE IInv
  OBVIOUS
<1>0. history = << >>
  BY DEF RingInit
<1>1. history \in Seq(Entries) /\ Len(history) = 0
  BY <1>0
<1>2. buf \in [0..(RingSize - 1) -> Entries \cup {Zero}]
  <2>1. buf = [i \in 0..(RingSize - 1) |-> Zero]
    BY DEF RingInit
  <2> QED
    BY <2>1
<1>3. next = 0 /\ full = FALSE
  BY DEF RingInit
<1>4. RingTypeOK
  <2>1. 0 \in 0..(RingSize - 1)
    BY RingSizeAssumption
  <2> QED
    BY <1>1, <1>2, <1>3, <2>1 DEF RingTypeOK
<1> QED
  BY <1>1, <1>3, <1>4 DEF IInv, SlotsBeforeWrap, SlotsAfterWrap

LEMMA AddIInv ==
  ASSUME IInv, NEW r \in Entries, Add(r)
  PROVE  IInv'
<1> USE RingSizeAssumption
<1>0. RingTypeOK /\ SlotsBeforeWrap /\ SlotsAfterWrap
  BY DEF IInv
<1>1. /\ history' \in Seq(Entries)
      /\ Len(history') = Len(history) + 1
      /\ history'[Len(history) + 1] = r
      /\ \A i \in 1..Len(history) : history'[i] = history[i]
  BY <1>0 DEF RingTypeOK, Add
<1>2. next' = IF next = RingSize - 1 THEN 0 ELSE next + 1
  BY <1>0, StepIndex DEF RingTypeOK, Add
<1>3. full' = (full \/ next' = 0)
  BY DEF Add
<1>4. /\ buf' \in [0..(RingSize - 1) -> Entries \cup {Zero}]
      /\ buf'[next] = r
      /\ \A i \in 0..(RingSize - 1) : i # next => buf'[i] = buf[i]
  BY <1>0 DEF RingTypeOK, Add
<1>5. RingTypeOK'
  BY <1>0, <1>1, <1>2, <1>3, <1>4 DEF RingTypeOK
<1>6. CASE next = RingSize - 1
  <2>1. next' = 0 /\ full'
    BY <1>2, <1>3, <1>6
  <2>2. Len(history') >= RingSize
    BY <1>0, <1>1, <1>6 DEF RingTypeOK, SlotsBeforeWrap, SlotsAfterWrap
  <2>3. ASSUME NEW i \in 0..(RingSize - 1)
        PROVE  buf'[i] = history'[Len(history') - RingSize + i + 1]
    <3>1. CASE i = next
      BY <1>0, <1>1, <1>4, <1>6, <3>1 DEF RingTypeOK
    <3>2. CASE i # next
      <4>1. i \in 0..(next - 1) /\ buf'[i] = buf[i]
        BY <1>0, <1>4, <1>6, <3>2 DEF RingTypeOK
      <4>2. Len(history) \in Nat
        BY <1>0 DEF RingTypeOK
      <4>3. CASE full
        <5>1. buf[i] = history[Len(history) - next + i + 1]
          BY <1>0, <4>1, <4>3 DEF SlotsAfterWrap
        <5>2. Len(history) - next + i + 1 \in 1..Len(history)
          BY <1>0, <4>1, <4>2, <4>3 DEF RingTypeOK, SlotsAfterWrap
        <5>3. Len(history') - RingSize + i + 1 = Len(history) - next + i + 1
          BY <1>0, <1>1, <1>6, <4>2 DEF RingTypeOK
        <5> QED
          BY <1>1, <4>1, <5>1, <5>2, <5>3
      <4>4. CASE ~full
        <5>1. buf[i] = history[i + 1] /\ Len(history) = next
          BY <1>0, <4>1, <4>4 DEF SlotsBeforeWrap
        <5>2. Len(history') - RingSize + i + 1 = i + 1
          BY <1>0, <1>1, <1>6, <5>1 DEF RingTypeOK
        <5>3. i + 1 \in 1..Len(history)
          BY <1>0, <4>1, <5>1 DEF RingTypeOK
        <5> QED
          BY <1>1, <4>1, <5>1, <5>2, <5>3
      <4> QED
        BY <4>3, <4>4
    <3> QED
      BY <3>1, <3>2
  <2>4. SlotsBeforeWrap'
    BY <2>1 DEF SlotsBeforeWrap
  <2>5. SlotsAfterWrap'
    BY <1>1, <2>1, <2>2, <2>3 DEF SlotsAfterWrap
  <2> QED
    BY <1>5, <2>4, <2>5 DEF IInv
<1>7. CASE next # RingSize - 1
  <2>1. next' = next + 1 /\ full' = full
    BY <1>0, <1>2, <1>3, <1>7 DEF RingTypeOK
  <2>2. Len(history) \in Nat /\ next \in Nat
    BY <1>0 DEF RingTypeOK
  <2>3. ASSUME ~full'
        PROVE  /\ Len(history') = next'
               /\ \A i \in 0..(next' - 1) : buf'[i] = history'[i + 1]
    <3>1. Len(history) = next /\ \A i \in 0..(next - 1) : buf[i] = history[i + 1]
      BY <1>0, <2>1, <2>3 DEF SlotsBeforeWrap
    <3>2. ASSUME NEW i \in 0..(next' - 1) PROVE buf'[i] = history'[i + 1]
      <4>1. CASE i = next
        BY <1>1, <1>4, <3>1, <4>1
      <4>2. CASE i # next
        <5>1. i \in 0..(next - 1) /\ i \in 0..(RingSize - 1)
          BY <1>0, <2>1, <2>2, <4>2 DEF RingTypeOK
        <5>2. i + 1 \in 1..Len(history)
          BY <2>2, <3>1, <5>1
        <5> QED
          BY <1>1, <1>4, <3>1, <4>2, <5>1, <5>2
      <4> QED
        BY <4>1, <4>2
    <3> QED
      BY <1>1, <2>1, <3>1, <3>2
  <2>4. ASSUME full'
        PROVE  /\ Len(history') >= RingSize
               /\ \A i \in 0..(next' - 1) :
                    buf'[i] = history'[Len(history') - next' + i + 1]
               /\ \A i \in next'..(RingSize - 1) :
                    buf'[i] = history'[Len(history') - next' - RingSize + i + 1]
    <3>1. /\ Len(history) >= RingSize
          /\ \A i \in 0..(next - 1) : buf[i] = history[Len(history) - next + i + 1]
          /\ \A i \in next..(RingSize - 1) :
                buf[i] = history[Len(history) - next - RingSize + i + 1]
      BY <1>0, <2>1, <2>4 DEF SlotsAfterWrap
    <3>2. ASSUME NEW i \in 0..(next' - 1)
          PROVE  buf'[i] = history'[Len(history') - next' + i + 1]
      <4>1. Len(history') - next' + i + 1 = Len(history) - next + i + 1
        BY <1>1, <2>1, <2>2
      <4>2. CASE i = next
        BY <1>1, <1>4, <2>2, <4>1, <4>2
      <4>3. CASE i # next
        <5>1. i \in 0..(next - 1) /\ i \in 0..(RingSize - 1)
          BY <1>0, <2>1, <2>2, <4>3 DEF RingTypeOK
        <5>2. Len(history) - next + i + 1 \in 1..Len(history)
          BY <1>0, <2>2, <3>1, <5>1 DEF RingTypeOK
        <5> QED
          BY <1>1, <1>4, <3>1, <4>1, <4>3, <5>1, <5>2
      <4> QED
        BY <4>2, <4>3
    <3>3. ASSUME NEW i \in next'..(RingSize - 1)
          PROVE  buf'[i] = history'[Len(history') - next' - RingSize + i + 1]
      <4>1. Len(history') - next' - RingSize + i + 1
              = Len(history) - next - RingSize + i + 1
        BY <1>1, <2>1, <2>2
      <4>2. i \in next..(RingSize - 1) /\ i \in 0..(RingSize - 1) /\ i # next
        BY <1>0, <2>1, <2>2 DEF RingTypeOK
      <4>3. Len(history) - next - RingSize + i + 1 \in 1..Len(history)
        BY <1>0, <2>2, <3>1, <4>2 DEF RingTypeOK
      <4> QED
        BY <1>1, <1>4, <3>1, <4>1, <4>2, <4>3
    <3> QED
      BY <1>1, <2>2, <3>1, <3>2, <3>3
  <2>5. SlotsBeforeWrap' /\ SlotsAfterWrap'
    BY <2>3, <2>4 DEF SlotsBeforeWrap, SlotsAfterWrap
  <2> QED
    BY <1>5, <2>5 DEF IInv
<1> QED
  BY <1>6, <1>7

LEMMA StutterIInv ==
  ASSUME IInv, UNCHANGED <<buf, next, full, history>>
  PROVE  IInv'
BY DEF IInv, RingTypeOK, SlotsBeforeWrap, SlotsAfterWrap

LEMMA NextIInv == IInv /\ [RingNext]_ringVars => IInv'
BY AddIInv, StutterIInv DEF RingNext, Snapshot, ringVars

-----------------------------------------------------------------------------
LEMMA SliceProperties ==
  ASSUME RingTypeOK, NEW lo \in 0..RingSize, NEW hi \in 0..RingSize, lo <= hi,
         \A i \in lo..(hi - 1) : buf[i] \in Entries
  PROVE  /\ Slice(lo, hi) \in Seq(Entries)
         /\ Len(Slice(lo, hi)) = hi - lo
         /\ \A i \in 1..(hi - lo) : Slice(lo, hi)[i] = buf[lo + i - 1]
BY RingSizeAssumption DEF Slice, RingTypeOK

LEMMA LatestProperties ==
  ASSUME NEW s \in Seq(Entries), NEW n \in Nat
  PROVE  /\ Window!Latest(s, n) \in Seq(Entries)
         /\ Len(s) <= n => Window!Latest(s, n) = s
         /\ Len(s) > n => /\ Len(Window!Latest(s, n)) = n
                          /\ \A i \in 1..n : Window!Latest(s, n)[i] = s[Len(s) - n + i]
BY DEF Window!Latest

LEMMA SeqEqual ==
  ASSUME NEW S, NEW s \in Seq(S), NEW t \in Seq(S), Len(s) = Len(t),
         \A i \in 1..Len(s) : s[i] = t[i]
  PROVE  s = t
OBVIOUS

LEMMA ConcatElements ==
  ASSUME NEW S, NEW s \in Seq(S), NEW t \in Seq(S)
  PROVE  /\ s \o t \in Seq(S)
         /\ Len(s \o t) = Len(s) + Len(t)
         /\ \A i \in 1..(Len(s) + Len(t)) :
              (s \o t)[i] = IF i <= Len(s) THEN s[i] ELSE t[i - Len(s)]
OBVIOUS

\* The snapshot is the latest RingSize records in write order.
LEMMA IInvContents == IInv => ContentsAreLatest /\ Contents \in Seq(Entries)
<1> SUFFICES ASSUME IInv PROVE ContentsAreLatest /\ Contents \in Seq(Entries)
  OBVIOUS
<1> USE RingSizeAssumption DEF IInv
<1>1. CASE ~full
  <2>1. \A i \in 0..(next - 1) : buf[i] \in Entries
    BY <1>1 DEF RingTypeOK, SlotsBeforeWrap
  <2>2. /\ Slice(0, next) \in Seq(Entries)
        /\ Len(Slice(0, next)) = next
        /\ \A i \in 1..next : Slice(0, next)[i] = buf[i - 1]
    BY <2>1, SliceProperties DEF RingTypeOK
  <2>3. Slice(0, next) = history
    BY <1>1, <2>2, SeqEqual DEF RingTypeOK, SlotsBeforeWrap
  <2>4. Window!Latest(history, RingSize) = history
    BY <1>1, LatestProperties DEF RingTypeOK, SlotsBeforeWrap
  <2> QED
    BY <1>1, <2>2, <2>3, <2>4 DEF ContentsAreLatest, Contents
<1>2. CASE full
  <2> DEFINE old == Slice(next, RingSize)
             new == Slice(0, next)
  <2>1. \A i \in 0..(RingSize - 1) : buf[i] \in Entries
    BY <1>2 DEF RingTypeOK, SlotsAfterWrap
  <2>2. /\ old \in Seq(Entries)
        /\ Len(old) = RingSize - next
        /\ \A i \in 1..(RingSize - next) : old[i] = buf[next + i - 1]
    BY <2>1, SliceProperties DEF RingTypeOK
  <2>3. /\ new \in Seq(Entries)
        /\ Len(new) = next
        /\ \A i \in 1..next : new[i] = buf[i - 1]
    <3>0. /\ 0 \in 0..RingSize /\ next \in 0..RingSize /\ 0 <= next
          /\ \A i \in 0..(next - 1) : buf[i] \in Entries
      BY <2>1 DEF RingTypeOK
    <3>1. /\ Slice(0, next) \in Seq(Entries)
          /\ Len(Slice(0, next)) = next - 0
          /\ \A i \in 1..(next - 0) : Slice(0, next)[i] = buf[0 + i - 1]
      BY <3>0, SliceProperties
    <3>2. next - 0 = next /\ \A i \in 1..next : 0 + i - 1 = i - 1
      BY DEF RingTypeOK
    <3> QED
      BY <3>1, <3>2
  <2>4. Contents = old \o new
    BY <1>2 DEF Contents
  <2> HIDE DEF old, new
  <2>5. /\ Contents \in Seq(Entries)
        /\ Len(Contents) = RingSize
        /\ \A i \in 1..RingSize :
             Contents[i] = IF i <= RingSize - next THEN old[i]
                                                   ELSE new[i - (RingSize - next)]
    <3>1. Len(old) + Len(new) = RingSize
      BY <2>2, <2>3 DEF RingTypeOK
    <3>2. /\ old \o new \in Seq(Entries)
          /\ Len(old \o new) = RingSize
          /\ \A i \in 1..RingSize :
               (old \o new)[i] = IF i <= Len(old) THEN old[i] ELSE new[i - Len(old)]
      BY <2>2, <2>3, <3>1, ConcatElements
    <3> QED
      BY <2>2, <2>4, <3>2
  <2>6. ASSUME NEW i \in 1..RingSize
        PROVE  Contents[i] = history[Len(history) - RingSize + i]
    <3>1. CASE i <= RingSize - next
      <4>1. Contents[i] = buf[next + i - 1]
        BY <2>2, <2>5, <3>1 DEF RingTypeOK
      <4> QED
        BY <1>2, <3>1, <4>1 DEF RingTypeOK, SlotsAfterWrap
    <3>2. CASE i > RingSize - next
      <4>0. i - (RingSize - next) \in 1..next
        BY <3>2, RingSizeAssumption DEF RingTypeOK
      <4>1. Contents[i] = buf[i - (RingSize - next) - 1]
        BY <2>3, <2>5, <3>2, <4>0 DEF RingTypeOK
      <4> QED
        BY <1>2, <3>2, <4>1 DEF RingTypeOK, SlotsAfterWrap
    <3> QED
      BY <3>1, <3>2 DEF RingTypeOK
  <2>7. Window!Latest(history, RingSize) \in Seq(Entries)
        /\ Len(Window!Latest(history, RingSize)) = RingSize
        /\ \A i \in 1..RingSize :
             Window!Latest(history, RingSize)[i] = history[Len(history) - RingSize + i]
    BY <1>2, LatestProperties DEF RingTypeOK, SlotsAfterWrap, Window!Latest
  <2> QED
    BY <2>5, <2>6, <2>7, SeqEqual DEF ContentsAreLatest
<1> QED
  BY <1>1, <1>2 DEF RingTypeOK

-----------------------------------------------------------------------------
\* ring.add and ring.snapshot keep every slot accounted for.
THEOREM RingInvariant == RingSpec => []IInv
<1>1. RingInit => IInv
  BY InitIInv
<1>2. IInv /\ [RingNext]_ringVars => IInv'
  BY NextIInv
<1> QED
  BY <1>1, <1>2, PTL DEF RingSpec

\* What ring.snapshot returns is the latest RingSize records in the order in
\* which ring.add stored them, for any capacity and any number of records.
THEOREM SnapshotIsLatest == RingSpec => []ContentsAreLatest
<1>1. IInv => ContentsAreLatest
  BY IInvContents
<1> QED
  BY <1>1, RingInvariant, PTL

-----------------------------------------------------------------------------
\* The type invariant, the readers' copies included.
THEOREM TypeCorrect == RingSpec => []TypeOK
<1> DEFINE Typed == IInv /\ copy \in [Readers -> Seq(Entries)]
<1>1. RingInit => Typed
  <2> SUFFICES ASSUME RingInit PROVE copy \in [Readers -> Seq(Entries)]
    BY InitIInv
  <2>1. copy = [r \in Readers |-> << >>]
    BY DEF RingInit
  <2>2. << >> \in Seq(Entries)
    OBVIOUS
  <2> QED
    BY <2>1, <2>2
<1>2. Typed /\ [RingNext]_ringVars => Typed'
  <2> SUFFICES ASSUME Typed, [RingNext]_ringVars
               PROVE  copy' \in [Readers -> Seq(Entries)]
    BY NextIInv
  <2>1. ASSUME NEW r \in Entries, Add(r) PROVE copy' = copy
    BY <2>1 DEF Add
  <2>2. ASSUME NEW reader \in Readers, Snapshot(reader)
        PROVE  copy' \in [Readers -> Seq(Entries)]
    BY <2>2, IInvContents DEF Snapshot
  <2> QED
    BY <2>1, <2>2 DEF RingNext, ringVars
<1>3. Typed => TypeOK
  BY DEF TypeOK, IInv, RingTypeOK
<1> QED
  BY <1>1, <1>2, <1>3, PTL DEF RingSpec

-----------------------------------------------------------------------------
\* Cutting before an append changes nothing of what is left after it.
LEMMA LatestOfLonger ==
  ASSUME NEW s \in Seq(Entries), NEW n \in Nat, Len(s) > n
  PROVE  /\ Window!Latest(s, n) \in Seq(Entries)
         /\ Len(Window!Latest(s, n)) = n
         /\ \A i \in 1..n : Window!Latest(s, n)[i] = s[Len(s) - n + i]
BY LatestProperties

LEMMA LatestAppend ==
  ASSUME NEW s \in Seq(Entries), NEW r \in Entries, NEW n \in Nat \ {0}
  PROVE  Window!Latest(Append(Window!Latest(s, n), r), n)
           = Window!Latest(Append(s, r), n)
<1> DEFINE cut == Window!Latest(s, n)
           left == Window!Latest(Append(cut, r), n)
           right == Window!Latest(Append(s, r), n)
<1>1. CASE Len(s) <= n
  BY <1>1, LatestProperties
<1>2. CASE Len(s) > n
  <2>1. /\ cut \in Seq(Entries) /\ Len(cut) = n
        /\ \A i \in 1..n : cut[i] = s[Len(s) - n + i]
    BY <1>2, LatestProperties
  <2> HIDE DEF cut
  <2>2. /\ Append(cut, r) \in Seq(Entries) /\ Len(Append(cut, r)) = n + 1
        /\ Append(cut, r)[n + 1] = r
        /\ \A i \in 1..n : Append(cut, r)[i] = cut[i]
    BY <2>1
  <2>3. /\ Append(s, r) \in Seq(Entries) /\ Len(Append(s, r)) = Len(s) + 1
        /\ Append(s, r)[Len(s) + 1] = r
        /\ \A i \in 1..Len(s) : Append(s, r)[i] = s[i]
    OBVIOUS
  <2> DEFINE longCut == Append(cut, r)
             longer == Append(s, r)
  <2> HIDE DEF longCut, longer
  <2>4. /\ left \in Seq(Entries) /\ Len(left) = n
        /\ \A i \in 1..n : left[i] = longCut[i + 1]
    <3>1. longCut \in Seq(Entries) /\ Len(longCut) = n + 1 /\ Len(longCut) > n
      BY <2>2 DEF longCut
    <3>2. /\ Window!Latest(longCut, n) \in Seq(Entries)
          /\ Len(Window!Latest(longCut, n)) = n
          /\ \A i \in 1..n :
               Window!Latest(longCut, n)[i] = longCut[Len(longCut) - n + i]
      BY <3>1, LatestOfLonger
    <3>3. \A i \in 1..n : Len(longCut) - n + i = i + 1
      BY <3>1
    <3> QED
      BY <3>2, <3>3 DEF longCut
  <2>5. /\ right \in Seq(Entries) /\ Len(right) = n
        /\ \A i \in 1..n : right[i] = longer[Len(s) + 1 - n + i]
    <3>1. longer \in Seq(Entries) /\ Len(longer) = Len(s) + 1 /\ Len(longer) > n
      BY <1>2, <2>3 DEF longer
    <3>2. /\ Window!Latest(longer, n) \in Seq(Entries)
          /\ Len(Window!Latest(longer, n)) = n
          /\ \A i \in 1..n :
               Window!Latest(longer, n)[i] = longer[Len(longer) - n + i]
      BY <3>1, LatestOfLonger
    <3> QED
      BY <3>1, <3>2 DEF longer
  <2> HIDE DEF left, right
  <2> USE DEF longCut, longer
  <2>6. ASSUME NEW i \in 1..n PROVE left[i] = right[i]
    <3>1. CASE i = n
      BY <1>2, <2>2, <2>3, <2>4, <2>5, <3>1
    <3>2. CASE i # n
      <4>1. i + 1 \in 1..n /\ Len(s) + 1 - n + i \in 1..Len(s)
        BY <1>2, <3>2
      <4>2. left[i] = s[Len(s) - n + (i + 1)]
        BY <2>1, <2>2, <2>4, <4>1
      <4>3. right[i] = s[Len(s) + 1 - n + i]
        BY <2>3, <2>5, <4>1
      <4> QED
        BY <1>2, <4>2, <4>3
    <3> QED
      BY <3>1, <3>2
  <2>7. left = right
    BY <2>4, <2>5, <2>6, SeqEqual
  <2> QED
    BY <2>7 DEF left, right, cut
<1> QED
  BY <1>1, <1>2

\* The ring implements the abstract window of the latest records.
THEOREM RingImplementsWindow == RingSpec => ImplementsWindow
<1>1. RingInit => Window!Init
  <2> SUFFICES ASSUME RingInit PROVE Contents = << >>
    BY DEF Window!Init
  <2>1. IInv /\ ~full /\ history = << >> /\ Len(history) = 0
    BY InitIInv DEF RingInit
  <2>2. Contents = Window!Latest(history, RingSize)
    BY <2>1, IInvContents DEF ContentsAreLatest
  <2> QED
    BY <2>1, <2>2, RingSizeAssumption DEF Window!Latest
<1>2. IInv /\ [RingNext]_ringVars => [Window!Next]_Contents
  <2> SUFFICES ASSUME IInv, [RingNext]_ringVars PROVE Window!Next \/ Contents' = Contents
    OBVIOUS
  <2>1. /\ Contents = Window!Latest(history, RingSize)
        /\ Contents' = Window!Latest(history', RingSize)
    <3>1. IInv'
      BY NextIInv
    <3>2. ContentsAreLatest /\ ContentsAreLatest'
      BY <3>1, IInvContents, PTL
    <3> QED
      BY <3>2 DEF ContentsAreLatest
  <2>2. ASSUME NEW r \in Entries, Add(r) PROVE Window!Push(r)
    <3>1. history' = Append(history, r) /\ history \in Seq(Entries)
      BY <2>2 DEF Add, IInv, RingTypeOK
    <3> QED
      BY <2>1, <3>1, LatestAppend, RingSizeAssumption DEF Window!Push
  <2>3. ASSUME NEW reader \in Readers, Snapshot(reader) PROVE Contents' = Contents
    BY <2>1, <2>3 DEF Snapshot
  <2>4. ASSUME UNCHANGED ringVars PROVE Contents' = Contents
    BY <2>1, <2>4 DEF ringVars
  <2> QED
    BY <2>2, <2>3, <2>4 DEF RingNext, Window!Next
<1> QED
  BY <1>1, <1>2, RingInvariant, PTL DEF RingSpec, ImplementsWindow, Window!Spec

-----------------------------------------------------------------------------
(***************************************************************************)
(* Then the logger.  Its four invariants hold for every set of callers and *)
(* every bound.  Inv strengthens them: what each caller has in hand        *)
(* (Hand), what the fields of Logger say of each other (Fields, Broken),   *)
(* and, for each number, in how many places its record is (Once).          *)
(***************************************************************************)
Types == /\ enabled \in BOOLEAN /\ closed \in BOOLEAN
         /\ today \in Days
         /\ pc \in [Callers -> {"idle", "stamped", "added"}]
         /\ rec \in [Callers -> Records \cup {NoRecord}]
         /\ started \in 0..MaxLogs
         /\ ring \in Seq(Records)
         /\ curDate \in Days \cup {NoDay}
         /\ f \in [day : Days \cup {NoDay}, open : BOOLEAN]
         /\ files \in [Days -> Seq(Records)]
         /\ lost \subseteq Records
         /\ faults \in Nat

\* A record in hand has been numbered, and nobody else has its number.
Hand == \A c \in Callers : pc[c] # "idle" =>
          /\ rec[c] \in Records /\ rec[c].id <= started
          /\ \A d \in Callers : pc[d] # "idle" /\ rec[d].id = rec[c].id => d = c
          /\ pc[c] = "added" => enabled

Fields == /\ handles = IF f.open THEN {f.day} ELSE {}
          /\ f.open => f.day = curDate
          /\ closed => ~f.open

\* A file that should be open and is not was lost to the disk.
Broken == /\ ~f.open => curDate = NoDay \/ faults > 0 \/ closed
          /\ LossNeedsCause

LostOf(id) == {r \in lost : r.id = id}
Missing(id, l) == id > started \/ InHand(id, l)

OnceInRing == \A id \in 1..MaxLogs :
  IF Missing(id, {"stamped"}) THEN Places(ring, id) = {}
                              ELSE \E i : Places(ring, id) = {i}

OnceInLog == enabled => \A id \in 1..MaxLogs :
  IF Missing(id, {"stamped", "added"})
  THEN Lines(id) = {} /\ LostOf(id) = {}
  ELSE \/ \E x : Lines(id) = {x} /\ LostOf(id) = {}
       \/ \E r : Lines(id) = {} /\ LostOf(id) = {r}

Inv == /\ Types /\ Hand /\ Fields /\ Broken
       /\ LinesOnTheirDay /\ OnceInRing /\ OnceInLog

-----------------------------------------------------------------------------
LEMMA PlacesAppend ==
  ASSUME NEW s \in Seq(Records), NEW r \in Records, NEW id
  PROVE  Places(Append(s, r), id) =
           IF r.id = id THEN Places(s, id) \cup {Len(s) + 1} ELSE Places(s, id)
<1>1. /\ Len(s) \in Nat /\ Len(Append(s, r)) = Len(s) + 1
      /\ \A i \in 1..Len(s) : Append(s, r)[i] = s[i]
      /\ Append(s, r)[Len(s) + 1] = r
  OBVIOUS
<1>2. 1..(Len(s) + 1) = (1..Len(s)) \cup {Len(s) + 1}
  BY <1>1
<1> QED  BY <1>1, <1>2 DEF Places

LEMMA InColumn ==
  ASSUME NEW d, NEW P, NEW x
  PROVE  x \in {d} \X P <=> \E i \in P : x = <<d, i>>
OBVIOUS

\* Membership in Lines, day by day.
LEMMA InLines ==
  ASSUME NEW id, NEW x
  PROVE  x \in Lines(id) <=> \E d \in Days : \E i \in Places(files[d], id) : x = <<d, i>>
<1>1. x \in Lines(id) <=> \E d \in Days : x \in {d} \X Places(files[d], id)
  BY SMT DEF Lines
<1>2. \A d \in Days : x \in {d} \X Places(files[d], id)
                         <=> \E i \in Places(files[d], id) : x = <<d, i>>
  BY InColumn
<1> QED  BY <1>1, <1>2

LEMMA InLinesNext ==
  ASSUME NEW id, NEW x
  PROVE  x \in Lines(id)' <=> \E d \in Days : \E i \in Places(files'[d], id) : x = <<d, i>>
<1>1. x \in Lines(id)' <=> \E d \in Days : x \in {d} \X Places(files'[d], id)
  BY SMT DEF Lines
<1>2. \A d \in Days : x \in {d} \X Places(files'[d], id)
                         <=> \E i \in Places(files'[d], id) : x = <<d, i>>
  BY InColumn
<1> QED  BY <1>1, <1>2

-----------------------------------------------------------------------------
LEMMA InitInv == Init => Inv
<1> SUFFICES ASSUME Init PROVE Inv
  OBVIOUS
<1>0. 0 \in Days /\ MaxLogs \in Nat
  BY BoundsAssumption DEF Days
<1>1. Types
  BY <1>0 DEF Init, Types, NoFile, NoDay
<1>2. Hand /\ Fields /\ Broken /\ LinesOnTheirDay
  BY DEF Init, Hand, Fields, Broken, LossNeedsCause, LinesOnTheirDay, NoFile, NoDay
<1>3. \A id : Places(<< >>, id) = {}
  BY DEF Places
<1>4. OnceInRing
  BY <1>3, <1>0 DEF Init, OnceInRing, Missing
<1>5. \A id : Lines(id) = {} /\ LostOf(id) = {}
  <2> TAKE id
  <2>1. \A d \in Days : files[d] = << >>
    BY DEF Init
  <2>2. \A x : x \notin Lines(id)
    BY <2>1, <1>3, InLines
  <2> QED  BY <2>2 DEF LostOf, Init
<1>6. OnceInLog
  BY <1>5, <1>0 DEF Init, OnceInLog, Missing
<1> QED  BY <1>1, <1>2, <1>4, <1>6 DEF Inv

-----------------------------------------------------------------------------
LEMMA MidnightInv == Inv /\ Midnight => Inv'
<1> SUFFICES ASSUME Inv, Midnight PROVE Inv'
  OBVIOUS
<1>1. Types'
  BY BoundsAssumption DEF Inv, Types, Midnight, calls, logger, Days
<1>2. UNCHANGED <<Hand, Fields, Broken, LinesOnTheirDay, OnceInRing, OnceInLog>>
  BY DEF Midnight, calls, logger, Hand, Fields, Broken, LossNeedsCause, LinesOnTheirDay,
         OnceInRing, OnceInLog, Missing, InHand, Lines, LostOf
<1> QED  BY <1>1, <1>2 DEF Inv

LEMMA CloseInv == Inv /\ Close => Inv'
<1> SUFFICES ASSUME Inv, Close PROVE Inv'
  OBVIOUS
<1>1. Types'
  BY DEF Inv, Types, Close, calls, NoFile, NoDay
<1>2. UNCHANGED <<Hand, LinesOnTheirDay, OnceInRing, OnceInLog>>
  BY DEF Close, calls, Hand, LinesOnTheirDay, OnceInRing, OnceInLog, Missing, InHand,
         Lines, LostOf
<1>3. Fields' /\ Broken'
  BY DEF Inv, Types, Close, Fields, Broken, LossNeedsCause, OtherHandles, NoFile
<1> QED  BY <1>1, <1>2, <1>3 DEF Inv

\* A new number: nobody has it, and no record bears it.
LEMMA StampInv == ASSUME NEW c \in Callers PROVE Inv /\ Stamp(c) => Inv'
<1> SUFFICES ASSUME Inv, Stamp(c) PROVE Inv'
  OBVIOUS
<1> USE BoundsAssumption
<1> DEFINE k == started + 1
<1>1. k \in 1..MaxLogs /\ started \in Nat /\ rec'[c] = [id |-> k, day |-> today]
  BY DEF Inv, Types, Stamp
<1>2. rec'[c] \in Records /\ rec'[c].id = k
  BY <1>1 DEF Inv, Types, Records
<1>3. \A d \in Callers : d # c => rec'[d] = rec[d] /\ pc'[d] = pc[d]
  BY DEF Inv, Types, Stamp
<1>4. Types'
  BY <1>1, <1>2 DEF Inv, Types, Stamp, logger
<1>5. pc'[c] = "stamped" /\ pc[c] = "idle" /\ enabled' = enabled /\ started' = k
  BY DEF Inv, Types, Stamp, logger
<1>6. Hand'
  <2> SUFFICES ASSUME NEW a \in Callers, pc'[a] # "idle"
               PROVE  /\ rec'[a] \in Records /\ rec'[a].id <= k
                      /\ \A d \in Callers : pc'[d] # "idle" /\ rec'[d].id = rec'[a].id => d = a
                      /\ pc'[a] = "added" => enabled
    BY <1>5 DEF Hand
  <2>1. \A d \in Callers : d # c /\ pc[d] # "idle" =>
          rec[d] \in Records /\ rec[d].id \in Nat /\ rec[d].id < k
    BY <1>1 DEF Inv, Hand, Records
  <2>2. CASE a = c
    BY <2>2, <2>1, <1>1, <1>2, <1>3, <1>5
  <2>3. CASE a # c
    <3>1. /\ rec'[a] = rec[a] /\ pc'[a] = pc[a] /\ rec[a] \in Records
          /\ rec[a].id < k /\ rec[a].id \in Nat
      BY <2>1, <2>3, <1>3
    <3>2. \A d \in Callers : pc'[d] # "idle" /\ rec'[d].id = rec'[a].id => d = a
      BY <2>1, <2>3, <3>1, <1>1, <1>2, <1>3 DEF Inv, Hand
    <3> QED  BY <3>1, <3>2, <1>1 DEF Inv, Hand
  <2> QED  BY <2>2, <2>3
<1>7. \A l \in {{"stamped"}, {"stamped", "added"}}, id \in 1..MaxLogs :
        Missing(id, l)' = Missing(id, l)
  <2> TAKE l \in {{"stamped"}, {"stamped", "added"}}, id \in 1..MaxLogs
  <2>1. CASE id = k
    BY <2>1, <1>1, <1>2, <1>5 DEF Missing, InHand
  <2>2. CASE id # k
    <3>1. InHand(id, l)' <=> InHand(id, l)
      BY <2>2, <1>2, <1>3, <1>5 DEF InHand
    <3>2. id > started <=> id > k
      BY <2>2, <1>1
    <3> QED  BY <3>1, <3>2, <1>5 DEF Missing
  <2> QED  BY <2>1, <2>2
<1>8. /\ Fields' /\ Broken' /\ LinesOnTheirDay'
      /\ ring' = ring /\ \A id : Lines(id)' = Lines(id) /\ LostOf(id)' = LostOf(id)
  BY DEF Inv, Stamp, logger, Fields, Broken, LossNeedsCause, LinesOnTheirDay, Lines, LostOf
<1>9. OnceInRing'
  BY <1>7, <1>8 DEF Inv, OnceInRing
<1>10. OnceInLog'
  BY <1>5, <1>7, <1>8 DEF Inv, OnceInLog
<1> QED  BY <1>4, <1>6, <1>8, <1>9, <1>10 DEF Inv

\* The record goes to its one place in the ring; with the log off this is the
\* end of its call.
LEMMA AddToRingInv == ASSUME NEW c \in Callers PROVE Inv /\ AddToRing(c) => Inv'
<1> SUFFICES ASSUME Inv, AddToRing(c) PROVE Inv'
  OBVIOUS
<1> USE BoundsAssumption
<1>0. rec[c].id \in 1..MaxLogs
  BY DEF Inv, Types, Hand, AddToRing, Records
<1> PICK k \in 1..MaxLogs : k = rec[c].id
  BY <1>0
<1>1. /\ rec[c] \in Records /\ ~(k > started)
      /\ started \in Nat /\ pc[c] = "stamped"
  BY DEF Inv, Types, Hand, AddToRing, Records
<1>2. /\ rec' = rec /\ started' = started /\ enabled' = enabled /\ pc'[c] # "stamped"
      /\ pc'[c] = "added" <=> enabled
      /\ \A d \in Callers : d # c => pc'[d] = pc[d]
  BY DEF Inv, Types, AddToRing, logger
<1>3. Types'
  BY <1>1 DEF Inv, Types, AddToRing, logger
<1>4. Hand'
  BY <1>1, <1>2 DEF Inv, Hand
<1>5. /\ Fields' /\ Broken' /\ LinesOnTheirDay'
      /\ \A id : Lines(id)' = Lines(id) /\ LostOf(id)' = LostOf(id)
  BY DEF Inv, AddToRing, logger, Fields, Broken, LossNeedsCause, LinesOnTheirDay, Lines, LostOf
<1>6. Missing(k, {"stamped"}) /\ ~Missing(k, {"stamped"})'
  BY <1>1, <1>2 DEF Inv, Hand, Missing, InHand
<1>7. \A id \in 1..MaxLogs : id # k => Missing(id, {"stamped"})' = Missing(id, {"stamped"})
  BY <1>2 DEF Missing, InHand
<1>8. OnceInRing'
  <2>1. ring' = Append(ring, rec[c]) /\ ring \in Seq(Records)
    BY DEF AddToRing, Inv, Types
  <2>2. \A id : Places(ring, id)' = Places(Append(ring, rec[c]), id)
    BY <2>1 DEF Places
  <2>3. \A id \in 1..MaxLogs : id # k => Places(ring, id)' = Places(ring, id)
    BY <2>1, <2>2, <1>1, PlacesAppend
  <2>4. Places(ring, k)' = Places(ring, k) \cup {Len(ring) + 1} /\ Places(ring, k) = {}
    BY <2>1, <2>2, <1>1, <1>6, PlacesAppend DEF Inv, OnceInRing
  <2> QED  BY <2>3, <2>4, <1>6, <1>7 DEF Inv, OnceInRing
<1>9. enabled => \A id \in 1..MaxLogs :
        Missing(id, {"stamped", "added"})' = Missing(id, {"stamped", "added"})
  BY <1>1, <1>2 DEF Missing, InHand
<1>10. OnceInLog'
  BY <1>2, <1>5, <1>9 DEF Inv, OnceInLog
<1> QED  BY <1>3, <1>4, <1>5, <1>8, <1>10 DEF Inv

-----------------------------------------------------------------------------
(***************************************************************************)
(* The file section: whatever the caller does there, its record stops      *)
(* being in hand, and nothing else is.                                     *)
(***************************************************************************)
LEMMA SectionHand ==
  ASSUME NEW c \in Callers, Inv, InFileSection(c)
  PROVE  /\ Hand' /\ OnceInRing' /\ enabled /\ enabled'
         /\ rec[c] \in Records /\ rec[c].id \in 1..MaxLogs /\ rec[c].day \in Days
         /\ Missing(rec[c].id, {"stamped", "added"})
         /\ ~Missing(rec[c].id, {"stamped", "added"})'
         /\ \A id \in 1..MaxLogs : id # rec[c].id =>
              Missing(id, {"stamped", "added"})' = Missing(id, {"stamped", "added"})
<1> USE BoundsAssumption
<1>1. /\ rec[c] \in Records /\ rec[c].id \in 1..MaxLogs /\ rec[c].day \in Days
      /\ enabled /\ enabled' /\ ~(rec[c].id > started) /\ started \in Nat
  BY DEF Inv, Types, Hand, InFileSection, Records
<1>2. /\ pc[c] = "added" /\ pc'[c] = "idle" /\ rec' = rec /\ started' = started
      /\ ring' = ring /\ \A d \in Callers : d # c => pc'[d] = pc[d]
  BY DEF Inv, Types, InFileSection
<1>3. Hand'
  BY <1>1, <1>2 DEF Inv, Hand
<1>4. \A id \in 1..MaxLogs : Missing(id, {"stamped"})' = Missing(id, {"stamped"})
  BY <1>2 DEF Missing, InHand
<1>5. OnceInRing'
  BY <1>2, <1>4 DEF Inv, OnceInRing
<1>6. Missing(rec[c].id, {"stamped", "added"})
  BY <1>2 DEF Missing, InHand
<1>7. ~Missing(rec[c].id, {"stamped", "added"})'
  BY <1>1, <1>2 DEF Inv, Hand, Missing, InHand
<1>8. \A id \in 1..MaxLogs : id # rec[c].id =>
        Missing(id, {"stamped", "added"})' = Missing(id, {"stamped", "added"})
  BY <1>2 DEF Missing, InHand
<1> QED  BY <1>1, <1>3, <1>5, <1>6, <1>7, <1>8

\* A record that is dropped is on no line, and is lost once.
LEMMA DropOnce ==
  ASSUME NEW c \in Callers, Inv, InFileSection(c),
         files' = files, lost' = lost \cup {rec[c]}
  PROVE  OnceInLog'
<1> PICK k \in 1..MaxLogs : k = rec[c].id
  BY SectionHand
<1>1. \A id : Lines(id)' = Lines(id)
  BY DEF Lines
<1>2. \A id : LostOf(id)' = IF id = k THEN LostOf(id) \cup {rec[c]} ELSE LostOf(id)
  BY DEF LostOf
<1>3. enabled' => enabled /\ k \in 1..MaxLogs /\ Lines(k) = {} /\ LostOf(k) = {}
  BY SectionHand DEF Inv, OnceInLog
<1>4. LostOf(k)' = {rec[c]} /\ Lines(k)' = {}
  BY <1>1, <1>2, <1>3, SectionHand
<1>5. \A id \in 1..MaxLogs : id # k => LostOf(id)' = LostOf(id)
  BY <1>2
<1>6. ~Missing(k, {"stamped", "added"})'
      /\ \A id \in 1..MaxLogs : id # k =>
           Missing(id, {"stamped", "added"})' = Missing(id, {"stamped", "added"})
  BY SectionHand DEF Missing, InFileSection
<1> QED  BY <1>1, <1>3, <1>4, <1>5, <1>6, SectionHand DEF Inv, OnceInLog

\* A record that is written is on one line, of its day, and not lost.
LEMMA WriteOnce ==
  ASSUME NEW c \in Callers, Inv, InFileSection(c), lost' = lost,
         files' = [files EXCEPT ![rec[c].day] = Append(@, rec[c])]
  PROVE  OnceInLog' /\ LinesOnTheirDay' /\ files' \in [Days -> Seq(Records)]
<1> PICK k \in 1..MaxLogs : k = rec[c].id
  BY SectionHand
<1> PICK d \in Days : d = rec[c].day
  BY SectionHand
<1>0. Len(files[d]) \in Nat
  BY DEF Inv, Types
<1> PICK n \in Nat : n = Len(files[d]) + 1
  BY <1>0
<1>1. rec[c] \in Records /\ d \in Days /\ files \in [Days -> Seq(Records)]
  BY SectionHand DEF Inv, Types
<1>2. /\ files' \in [Days -> Seq(Records)] /\ files'[d] = Append(files[d], rec[c])
      /\ \A e \in Days : e # d => files'[e] = files[e]
  BY <1>1
<1>3. LinesOnTheirDay'
  <2> SUFFICES ASSUME NEW e \in Days, NEW i \in 1..Len(files'[e])
               PROVE  files'[e][i].day = e
    BY DEF LinesOnTheirDay
  <2>1. files[e] \in Seq(Records)
    BY <1>1
  <2> HIDE DEF Records
  <2> QED  BY <1>1, <1>2, <2>1 DEF Inv, LinesOnTheirDay
<1>4. /\ \A e \in Days : \A id : e # d \/ id # k => Places(files'[e], id) = Places(files[e], id)
      /\ Places(files'[d], k) = Places(files[d], k) \cup {n}
  <2>1. files[d] \in Seq(Records)
    BY <1>1
  <2>2. \A id : Places(Append(files[d], rec[c]), id) =
          IF rec[c].id = id THEN Places(files[d], id) \cup {Len(files[d]) + 1}
                            ELSE Places(files[d], id)
    BY <1>1, <2>1, PlacesAppend
  <2> QED  BY <1>2, <2>2
<1>5. \A id : id # k => Lines(id)' = Lines(id)
  <2> TAKE id
  <2> HAVE id # k
  <2>1. ASSUME NEW x PROVE x \in Lines(id)' <=> x \in Lines(id)
    <3>1. x \in Lines(id) <=> \E e \in Days : \E i \in Places(files[e], id) : x = <<e, i>>
      BY InLines
    <3>2. x \in Lines(id)' <=> \E e \in Days : \E i \in Places(files'[e], id) : x = <<e, i>>
      BY InLinesNext
    <3>3. \A e \in Days : Places(files'[e], id) = Places(files[e], id)
      BY <1>4
    <3> QED  BY <3>1, <3>2, <3>3, Zenon
  <2> QED  BY <2>1, Zenon
<1>6. enabled' /\ enabled /\ k \in 1..MaxLogs /\ Lines(k) = {} /\ LostOf(k) = {}
  BY SectionHand DEF Inv, OnceInLog
<1>7. Lines(k)' = {<<d, n>>}
  <2>1. \A e \in Days : Places(files[e], k) = {}
    <3> SUFFICES ASSUME NEW e \in Days, NEW i \in Places(files[e], k) PROVE FALSE
      OBVIOUS
    <3>1. <<e, i>> \in Lines(k)
      BY InLines
    <3> QED  BY <3>1, <1>6
  <2>2. ASSUME NEW x PROVE x \in Lines(k)' <=> x = <<d, n>>
    <3>1. x \in Lines(k)' <=> \E e \in Days : \E i \in Places(files'[e], k) : x = <<e, i>>
      BY InLinesNext
    <3>2. /\ Places(files'[d], k) = {n}
          /\ \A e \in Days : e # d => Places(files'[e], k) = {}
      BY <1>4, <2>1
    <3> QED  BY <3>1, <3>2
  <2> QED  BY <2>2
<1>8. \A id : LostOf(id)' = LostOf(id)
  BY DEF LostOf
<1>9. ~Missing(k, {"stamped", "added"})'
      /\ \A id \in 1..MaxLogs : id # k =>
           Missing(id, {"stamped", "added"})' = Missing(id, {"stamped", "added"})
  BY SectionHand DEF Missing, InFileSection
<1>10. OnceInLog'
  BY <1>5, <1>6, <1>7, <1>8, <1>9 DEF Inv, OnceInLog
<1> QED  BY <1>2, <1>3, <1>10

-----------------------------------------------------------------------------
LEMMA LogClosedInv == ASSUME NEW c \in Callers PROVE Inv /\ LogClosed(c) => Inv'
<1> SUFFICES ASSUME Inv, LogClosed(c) PROVE Inv'
  OBVIOUS
<1>1. InFileSection(c) /\ files' = files /\ lost' = lost \cup {rec[c]}
  BY DEF LogClosed
<1>2. Hand' /\ OnceInRing' /\ rec[c] \in Records
  BY <1>1, SectionHand
<1>3. OnceInLog'
  BY <1>1, DropOnce
<1>4. Types'
  BY <1>2 DEF Inv, Types, LogClosed, InFileSection
<1>5. Fields' /\ Broken' /\ LinesOnTheirDay'
  BY DEF Inv, LogClosed, InFileSection, Fields, Broken, LossNeedsCause, LinesOnTheirDay
<1> QED  BY <1>2, <1>3, <1>4, <1>5 DEF Inv

LEMMA OpenFailsInv == ASSUME NEW c \in Callers PROVE Inv /\ OpenFails(c) => Inv'
<1> SUFFICES ASSUME Inv, OpenFails(c) PROVE Inv'
  OBVIOUS
<1>1. InFileSection(c) /\ files' = files /\ lost' = lost \cup {rec[c]}
  BY DEF OpenFails
<1>2. Hand' /\ OnceInRing' /\ rec[c] \in Records
  BY <1>1, SectionHand
<1>3. OnceInLog'
  BY <1>1, DropOnce
<1>4. Types'
  <2>1. f' = [f EXCEPT !.open = FALSE] /\ f \in [day : Days \cup {NoDay}, open : BOOLEAN]
    BY DEF Inv, Types, OpenFails
  <2>2. f' \in [day : Days \cup {NoDay}, open : BOOLEAN]
    BY <2>1
  <2>3. faults' \in Nat
    BY DEF Inv, Types, OpenFails
  <2> QED  BY <1>2, <2>2, <2>3 DEF Inv, Types, OpenFails, InFileSection
<1>5. Fields'
  BY DEF Inv, Types, OpenFails, InFileSection, Fields, OtherHandles
<1>6. Broken' /\ LinesOnTheirDay'
  BY DEF Inv, Types, OpenFails, Broken, LossNeedsCause, LinesOnTheirDay
<1> QED  BY <1>2, <1>3, <1>4, <1>5, <1>6 DEF Inv

\* After the roll, the file at hand is the one of the record's day, unless
\* that day's file was lost to the disk before.
LEMMA RollFields ==
  ASSUME NEW c \in Callers, Inv, Write(c)
  PROVE  /\ Fields' /\ curDate' = rec[c].day
         /\ f' \in [day : Days \cup {NoDay}, open : BOOLEAN]
         /\ f'.open => f'.day = rec[c].day
         /\ ~f'.open => faults > 0
<1>1. InFileSection(c) /\ Roll(c) /\ ~closed /\ closed' = closed
  BY DEF Write, InFileSection
<1>2. rec[c].day \in Days /\ rec[c].day # NoDay
  BY <1>1, SectionHand DEF Days, NoDay
<1>3. CASE MustRoll(c)
  <2>1. /\ curDate' = rec[c].day /\ f' = [day |-> rec[c].day, open |-> TRUE]
        /\ handles' = (handles \ {f.day}) \cup {rec[c].day}
    BY <1>1, <1>3 DEF Roll, OtherHandles
  <2>2. handles' = {rec[c].day} /\ f'.open /\ f'.day = rec[c].day
    BY <2>1 DEF Inv, Fields
  <2>3. f' \in [day : Days \cup {NoDay}, open : BOOLEAN]
    BY <2>1, <1>2
  <2> QED  BY <1>1, <2>1, <2>2, <2>3 DEF Fields
<1>4. CASE ~MustRoll(c)
  BY <1>1, <1>2, <1>4 DEF Inv, Types, Fields, Broken, Roll, MustRoll
<1> QED  BY <1>3, <1>4

LEMMA WriteInv == ASSUME NEW c \in Callers PROVE Inv /\ Write(c) => Inv'
<1> SUFFICES ASSUME Inv, Write(c) PROVE Inv'
  OBVIOUS
<1>1. InFileSection(c) /\ ~closed /\ closed' = closed
  BY DEF Write, InFileSection
<1>2. Hand' /\ OnceInRing' /\ rec[c] \in Records /\ rec[c].day \in Days
  BY <1>1, SectionHand
<1>3. Fields' /\ curDate' \in Days \cup {NoDay} /\ f' \in [day : Days \cup {NoDay}, open : BOOLEAN]
  BY <1>2, RollFields
<1>4. CASE f'.open /\ files' = [files EXCEPT ![f'.day] = Append(@, rec[c])] /\ UNCHANGED <<lost, faults>>
  <2>1. OnceInLog' /\ LinesOnTheirDay' /\ files' \in [Days -> Seq(Records)]
    BY <1>1, <1>4, RollFields, WriteOnce
  <2>2. Types'
    BY <1>1, <1>3, <1>4, <2>1 DEF Inv, Types, InFileSection
  <2>3. Broken'
    BY <1>1, <1>4 DEF Inv, Broken, LossNeedsCause
  <2> QED  BY <1>2, <1>3, <2>1, <2>2, <2>3 DEF Inv
<1>5. CASE /\ f'.open => faults < MaxFaults
           /\ faults' = IF f'.open THEN faults + 1 ELSE faults
           /\ lost' = lost \cup {rec[c]}
           /\ UNCHANGED files
  <2>1. OnceInLog'
    BY <1>1, <1>5, DropOnce
  <2>2. faults' \in Nat /\ faults' > 0
    BY <1>5, RollFields DEF Inv, Types
  <2>3. Types'
    BY <1>1, <1>2, <1>3, <1>5, <2>2 DEF Inv, Types, InFileSection
  <2>4. Broken' /\ LinesOnTheirDay'
    BY <1>5, <2>2 DEF Inv, Broken, LossNeedsCause, LinesOnTheirDay
  <2> QED  BY <1>2, <1>3, <2>1, <2>3, <2>4 DEF Inv
<1> QED  BY <1>4, <1>5 DEF Write

LEMMA StepInv == Inv /\ [Next]_vars => Inv'
<1> SUFFICES ASSUME Inv, [Next]_vars PROVE Inv'
  OBVIOUS
<1>1. CASE UNCHANGED vars
  <2>1. UNCHANGED <<today, calls, ring, logger>>
    BY <1>1 DEF vars
  <2>2. UNCHANGED <<Types, Hand, Fields, Broken, LinesOnTheirDay>>
    BY <2>1 DEF calls, logger, Types, Hand, Fields, Broken, LossNeedsCause, LinesOnTheirDay
  <2>3. UNCHANGED <<OnceInRing, OnceInLog>>
    BY <2>1 DEF calls, logger, OnceInRing, OnceInLog, Missing, InHand, Lines, LostOf
  <2> QED  BY <2>2, <2>3 DEF Inv
<1>2. CASE Next
  BY <1>2, MidnightInv, CloseInv, StampInv, AddToRingInv, LogClosedInv, OpenFailsInv,
     WriteInv DEF Next
<1> QED  BY <1>1, <1>2

\* Inv holds in every reachable state.
THEOREM Inductive == Spec => []Inv
BY InitInv, StepInv, PTL DEF Spec

-----------------------------------------------------------------------------
\* Every record is in the ring exactly once and, with the log on, on exactly
\* one line or lost, whoever calls Log, in whatever order, on whatever days.
THEOREM RecordsOnce == Spec => []EveryRecordOnce
<1>1. Inv => EveryRecordOnce
  <2> SUFFICES ASSUME Inv, NEW id \in 1..started
               PROVE  /\ Cardinality(Places(ring, id)) = (IF InHand(id, {"stamped"}) THEN 0 ELSE 1)
                      /\ enabled /\ ~InHand(id, {"stamped", "added"}) =>
                           Cardinality(Lines(id)) + Cardinality({r \in lost : r.id = id}) = 1
    BY DEF EveryRecordOnce
  <2>1. id \in 1..MaxLogs /\ ~(id > started)
    BY BoundsAssumption DEF Inv, Types
  <2>2. Cardinality({}) = 0 /\ \A x : Cardinality({x}) = 1
    BY FS_EmptySet, FS_Singleton
  <2>3. Cardinality(Places(ring, id)) = (IF InHand(id, {"stamped"}) THEN 0 ELSE 1)
    BY <2>1, <2>2 DEF Inv, OnceInRing, Missing
  <2>4. ASSUME enabled, ~InHand(id, {"stamped", "added"})
        PROVE  Cardinality(Lines(id)) + Cardinality(LostOf(id)) = 1
    <3>1. \/ \E x : Lines(id) = {x} /\ LostOf(id) = {}
          \/ \E r : Lines(id) = {} /\ LostOf(id) = {r}
      BY <2>1, <2>4 DEF Inv, OnceInLog, Missing
    <3>2. \/ Cardinality(Lines(id)) = 1 /\ Cardinality(LostOf(id)) = 0
          \/ Cardinality(Lines(id)) = 0 /\ Cardinality(LostOf(id)) = 1
      BY <2>2, <3>1
    <3> QED  BY <3>2
  <2> QED  BY <2>3, <2>4 DEF LostOf
<1> QED  BY <1>1, Inductive, PTL

\* A log file holds the records of its own day, however the file rolled.
THEOREM LinesOfTheDay == Spec => []LinesOnTheirDay
<1>1. Inv => LinesOnTheirDay
  BY DEF Inv
<1> QED  BY <1>1, Inductive, PTL

\* Nothing is dropped while the logger is open and the disk works.
THEOREM LossHasCause == Spec => []LossNeedsCause
<1>1. Inv => LossNeedsCause
  BY DEF Inv, Broken
<1> QED  BY <1>1, Inductive, PTL

\* The process has the file at hand open and no other, and none after Close.
THEOREM NoLeak == Spec => []NoHandleLeak
<1>1. Inv => NoHandleLeak
  BY DEF Inv, Fields, NoHandleLeak
<1> QED  BY <1>1, Inductive, PTL

-----------------------------------------------------------------------------
\* The two components together: where the ring holds the records of Log, the
\* composition is the logger, and is the ring, so that every theorem above
\* holds of it.  That what a caller adds is a record at all takes Inv.
THEOREM Composed ==
  ASSUME Entries = Records
  PROVE  AuditSpec => Spec /\ RingSpec
<1>1. AuditInit => Init /\ RingInit
  BY DEF AuditInit
<1>2. [AuditNext]_auditVars => [Next]_vars
  BY Zenon DEF AuditNext, LogToRing, TakeSnapshot, Elsewhere, Next, auditVars
<1>3. Inv /\ [AuditNext]_auditVars => [RingNext]_ringVars
  <2> SUFFICES ASSUME Inv, [AuditNext]_auditVars PROVE [RingNext]_ringVars
    OBVIOUS
  <2>1. ASSUME NEW c \in Callers, LogToRing(c) PROVE RingNext
    <3>1. pc[c] # "idle" /\ Add(rec[c])
      BY <2>1 DEF LogToRing, AddToRing
    <3>2. rec[c] \in Entries
      BY <3>1 DEF Inv, Hand
    <3> QED  BY <3>1, <3>2 DEF RingNext
  <2>2. ASSUME NEW reader \in Readers, TakeSnapshot(reader) PROVE RingNext
    BY <2>2 DEF TakeSnapshot, RingNext
  <2>3. CASE Elsewhere \/ UNCHANGED auditVars
    BY <2>3 DEF Elsewhere, auditVars
  <2> QED  BY <2>1, <2>2, <2>3 DEF AuditNext
<1>4. AuditSpec => Spec
  BY <1>1, <1>2, PTL DEF AuditSpec, Spec
<1>5. AuditSpec => RingSpec
  BY <1>1, <1>3, <1>4, Inductive, PTL DEF AuditSpec, RingSpec
<1> QED  BY <1>4, <1>5
=============================================================================
