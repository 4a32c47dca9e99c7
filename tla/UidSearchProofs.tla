-------------------------- MODULE UidSearchProofs --------------------------
(* Proofs about UidSearch, for every size of mailbox, limit and block.     *)
EXTENDS UidSearch, TLAPS, FiniteSetTheorems

\* The loop invariant: all that is unseen above the next block has been found,
\* and nothing else.
LoopInv ==
  /\ TypeOK
  /\ upper <= top
  /\ pc = "search" => lower <= upper
  /\ \A u \in inbox : lower <= u /\ u <= top /\ u > upper => u \in found
  /\ \A u \in found : u > upper /\ lower <= u /\ u <= top
  /\ pc = "done" => upper < lower \/ Enough(found)

\* A block lies between the cursor and the end of the search.
LEMMA BlockBounds ==
  ASSUME TypeOK, lower <= upper
  PROVE  Start \in Nat /\ lower <= Start /\ Start <= upper /\ Below(Start) \in 0 .. MaxUid
<1>1. BlockSize \in Nat \ {0}
  BY SizesAssumption DEF BlockSize
<1>2. lower \in Nat /\ upper \in Nat /\ MaxUid \in Nat /\ lower >= 1 /\ upper <= MaxUid
  BY MaxUidAssumption DEF TypeOK
<1>3. Start \in Nat /\ lower <= Start /\ Start <= upper
  BY <1>1, <1>2 DEF Start
<1> QED
  BY <1>2, <1>3 DEF Below

\* _recent_uids_after never loses track of what it has looked at, whatever is
\* expunged meanwhile.
THEOREM LoopCorrect == Spec => []LoopInv
<1>1. Init => LoopInv
  BY MaxUidAssumption DEF Init, LoopInv, TypeOK, Enough
<1>2. LoopInv /\ [Next]_vars => LoopInv'
  <2> SUFFICES ASSUME LoopInv, [Next]_vars PROVE LoopInv'
    OBVIOUS
  <2>1. CASE Search
    <3> DEFINE start == Start
    <3>1. /\ start \in Nat /\ lower <= start /\ start <= upper
          /\ Below(start) \in 0 .. MaxUid /\ Below(start) = start - 1
      BY <2>1, BlockBounds DEF LoopInv, Search, Below
    <3>2. /\ pc = "search" /\ lower <= upper
          /\ found' = found \cup {u \in inbox : start <= u /\ u <= upper}
          /\ upper' = start - 1 /\ blocks' = blocks + 1
          /\ inbox' = inbox /\ lower' = lower /\ top' = top
      BY <2>1, <3>1 DEF Search, LoopInv
    <3>3. pc' \in {"search", "done", "failed"}
      BY <2>1 DEF Search
    <3>4. /\ pc' = "search" => ~(upper' < lower)
          /\ pc' = "done" => upper' < lower \/ Enough(found')
      <4>1. pc' = IF Enough(found') \/ upper' < lower THEN "done"
                  ELSE IF blocks' = MaxBlocks THEN "failed" ELSE "search"
        BY <2>1 DEF Search
      <4> QED
        BY <4>1
    <3> HIDE DEF start
    <3>5. TypeOK'
      <4>1. upper' \in 0 .. MaxUid
        BY <3>1, <3>2
      <4>2. found' \subseteq 1 .. MaxUid /\ inbox' \subseteq 1 .. MaxUid
        BY <3>2 DEF LoopInv, TypeOK
      <4>3. lower' \in 1 .. (MaxUid + 1) /\ top' \in 0 .. MaxUid /\ blocks' \in Nat
        BY <3>2 DEF LoopInv, TypeOK
      <4> QED
        BY <3>3, <4>1, <4>2, <4>3 DEF TypeOK
    <3>6. upper' <= top' /\ (pc' = "search" => lower' <= upper')
      BY <3>1, <3>2, <3>4, MaxUidAssumption DEF LoopInv, TypeOK
    <3>7. \A u \in inbox' : lower' <= u /\ u <= top' /\ u > upper' => u \in found'
      BY <3>1, <3>2, MaxUidAssumption DEF LoopInv, TypeOK
    <3>8. \A u \in found' : u > upper' /\ lower' <= u /\ u <= top'
      BY <3>1, <3>2, MaxUidAssumption DEF LoopInv, TypeOK
    <3>9. pc' = "done" => upper' < lower' \/ Enough(found)'
      BY <3>2, <3>4 DEF Enough
    <3> QED
      BY <3>5, <3>6, <3>7, <3>8, <3>9 DEF LoopInv
  <2>2. ASSUME NEW u \in 1 .. MaxUid, Expunge(u) PROVE LoopInv'
    BY <2>2 DEF LoopInv, Expunge, TypeOK, Enough
  <2>3. CASE UNCHANGED vars
    BY <2>3 DEF LoopInv, vars, TypeOK, Enough
  <2> QED
    BY <2>1, <2>2, <2>3 DEF Next
<1> QED
  BY <1>1, <1>2, PTL DEF Spec

\* No unseen message is passed over for good: the cursor may go to the end of
\* what the search returns.
THEOREM NothingIsSkipped == Spec => []NothingSkipped
<1>1. LoopInv => NothingSkipped
  <2> SUFFICES ASSUME LoopInv, pc = "done", NEW u \in inbox, lower <= u, u <= top
               PROVE  u \in Result \/ Cardinality({v \in found : v > u}) >= Limit
    BY DEF NothingSkipped
  <2> DEFINE newer == {v \in found : v > u}
  <2>1. Cardinality(newer) \in Nat
    <3>1. IsFiniteSet(1 .. MaxUid)
      BY FS_Interval, MaxUidAssumption
    <3>2. newer \subseteq 1 .. MaxUid
      BY DEF LoopInv, TypeOK
    <3> QED
      BY <3>1, <3>2, FS_Subset, FS_CardinalityType
  <2>2. CASE u > upper
    <3>1. u \in found
      BY <2>2 DEF LoopInv
    <3> QED
      BY <2>1, <3>1, SizesAssumption DEF Result
  <2>3. CASE ~(u > upper)
    <3>1. u \in Nat /\ upper \in Nat /\ lower \in Nat /\ found \subseteq Nat
      BY MaxUidAssumption DEF LoopInv, TypeOK
    <3>2. Cardinality(found) >= Limit
      BY <2>3, <3>1 DEF LoopInv, Enough
    <3>3. \A v \in found : v > u
      BY <2>3, <3>1 DEF LoopInv
    <3>4. newer = found
      BY <3>3
    <3> QED
      BY <3>2, <3>4
  <2> QED
    BY <2>2, <2>3
<1> QED
  BY <1>1, LoopCorrect, PTL

\* Nothing at or below the cursor is asked for again.
THEOREM NothingIsSeenAgain == Spec => []NothingSeen
<1>1. LoopInv => NothingSeen
  BY DEF LoopInv, NothingSeen
<1> QED
  BY <1>1, LoopCorrect, PTL

\* The cursor, the blocks and what was found stay in the mailbox.
THEOREM TypeCorrect == Spec => []TypeOK
<1>1. LoopInv => TypeOK
  BY DEF LoopInv
<1> QED
  BY <1>1, LoopCorrect, PTL

=============================================================================
