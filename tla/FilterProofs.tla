---------------------------- MODULE FilterProofs ----------------------------
(***************************************************************************)
(* What the filter keeps and what it drops, for every command line, every  *)
(* inventory and every meaning of patterns and networks.  The inductive    *)
(* invariant says what main() and newServer make of the flags, and what    *)
(* the loop of FilterResources has done with the guests behind it.         *)
(***************************************************************************)
EXTENDS Filter, TLAPS

\* The filter main() and newServer make: the tags are the patterns too.
Made == [flags EXCEPT !.includeTagsRe = flags.includeTags,
                      !.excludeTagsRe = flags.excludeTags]

MadeOfFlags ==
  /\ phase = "filter" => parsed = RegexFlags
  /\ phase \in {"ready", "loop"} => filt = Made

\* Nothing is kept before there is a filter, and the loop returns at the end.
Loop ==
  /\ phase \notin {"ready", "loop"} =>
       inventory = <<>> /\ next = 1 /\ filtered = <<>>
  /\ phase = "ready" => next = Len(inventory) + 1

\* `from' says which guests behind the loop have been kept, in which order; all
\* that pass the filter have.
Accounts(from) ==
  /\ from \in [1..Len(filtered) -> 1..next - 1]
  /\ Origins(from)
  /\ phase \in {"ready", "loop"} =>
       \A i \in 1..next - 1 :
         Keep(inventory[i]) => \E k \in 1..Len(filtered) : from[k] = i

KeptSoFar == \E from \in [1..Len(filtered) -> 1..next - 1] : Accounts(from)

IInv == TypeOK /\ MadeOfFlags /\ Loop /\ KeptSoFar /\ ExclusionWins
-----------------------------------------------------------------------------
\* The fields of the filter (filter.go:77-145).
LEMMA MadeFields ==
  ASSUME flags \in Flags, filt = Made
  PROVE  /\ filt.type = flags.type
         /\ filt.includeTags = flags.includeTags
         /\ filt.includeTagsRe = flags.includeTags
         /\ filt.excludeTags = flags.excludeTags
         /\ filt.excludeTagsRe = flags.excludeTags
         /\ filt.includeCIDRs = flags.includeCIDRs
         /\ filt.excludeCIDRs = flags.excludeCIDRs
BY DEF Made, Flags

\* A guest the filter keeps meets no exclusion of the flags
\* (filter.go:148-175).
LEMMA KeepExcludes ==
  ASSUME flags \in Flags, filt = Made, NEW item, Keep(item)
  PROVE  /\ item.tags \cap flags.excludeTags = {}
         /\ \A addr \in item.addrs, c \in flags.excludeCIDRs :
              addr \notin Within[c]
BY MadeFields
   DEF Keep, shouldExcludeResourceByTags, shouldExcludeResourceByCIDRs,
       AnyContains

\* Every inventory is a sequence of guests.
LEMMA InventoryType == TypeOK => inventory \in Seq(Guest) /\ flags \in Flags
<1>1. <<>> \in Seq(Guest)
  OBVIOUS
<1> QED
  BY <1>1, FilterInputAssumption DEF TypeOK

\* Keep depends on the filter alone.
LEMMA KeepSame ==
  ASSUME filt' = filt, NEW item
  PROVE  Keep(item) <=> Keep(item)'
BY DEF Keep, shouldIncludeResourceByTags, shouldExcludeResourceByTags,
       shouldIncludeResourceByCIDRs, shouldExcludeResourceByCIDRs

\* While nothing has been filtered, nothing has been kept.
LEMMA NothingKept ==
  ASSUME filtered = <<>>, next = 1
  PROVE  KeptSoFar
<1> DEFINE from == [k \in {} |-> 0]
<1>1. 1..Len(filtered) = {} /\ 1..next - 1 = {}
  OBVIOUS
<1>2. from \in [1..Len(filtered) -> 1..next - 1]
  BY <1>1
<1>3. Accounts(from)
  BY <1>1, <1>2 DEF Accounts, Origins
<1> QED
  BY <1>2, <1>3 DEF KeptSoFar

LEMMA NothingKeptNext ==
  ASSUME filtered' = <<>>, next' = 1
  PROVE  KeptSoFar'
<1> DEFINE from == [k \in {} |-> 0]
<1>1. 1..Len(filtered') = {} /\ 1..next' - 1 = {}
  OBVIOUS
<1>2. from \in [1..Len(filtered') -> 1..next' - 1]
  BY <1>1
<1>3. Accounts(from)'
  BY <1>1, <1>2 DEF Accounts, Origins
<1> QED
  BY <1>2, <1>3 DEF KeptSoFar

\* The initial states satisfy the invariant.
LEMMA InitIInv == Init => IInv
<1>1. NoFilter \in Flags /\ NoneParsed \in Parsed
  BY DEF NoFilter, Flags, NoneParsed, Parsed
<1>2. Init => filtered \in Seq(Guest) /\ 1 \in 1..Len(inventory) + 1
  BY DEF Init
<1> QED
  BY <1>1, <1>2, NothingKept
     DEF Init, IInv, TypeOK, MadeOfFlags, Loop, ExclusionWins, Kept

\* A guest that is kept comes last; one that is not changes nothing.
LEMMA FilterItemKept ==
  ASSUME TypeOK, KeptSoFar, FilterItem
  PROVE  KeptSoFar'
<1> DEFINE item == inventory[next]
           n == Len(filtered)
<1>1. PICK from \in [1..n -> 1..next - 1] : Accounts(from)
  BY DEF KeptSoFar
<1>2. /\ inventory' = inventory /\ filt' = filt /\ next' = next + 1
      /\ phase = "loop" /\ phase' = "loop"
  BY DEF FilterItem
<1>3. /\ next \in Nat \ {0} /\ n \in Nat /\ filtered \in Seq(Guest)
      /\ item \in Guest
  BY InventoryType DEF FilterItem, TypeOK
<1>4. \A i \in 1..next' - 1 : i \in 1..next - 1 \/ i = next
  BY <1>2, <1>3
<1>5. ASSUME NEW i \in 1..next' - 1, Keep(inventory[i])'
      PROVE  Keep(inventory[i])
  BY <1>2, <1>5, KeepSame
<1>6. CASE Keep(item)
  <2>0. PICK new : new = [k \in 1..n + 1 |-> IF k <= n THEN from[k] ELSE next]
    OBVIOUS
  <2>1. /\ Len(filtered') = n + 1 /\ filtered'[n + 1] = item
        /\ \A k \in 1..n : filtered'[k] = filtered[k]
    BY <1>3, <1>6 DEF FilterItem
  <2>2. /\ new[n + 1] = next
        /\ \A k \in 1..n : new[k] = from[k] /\ from[k] \in 1..next - 1
    BY <1>1, <1>3, <2>0
  <2>3. \A k \in 1..n + 1 : k \in 1..n \/ k = n + 1
    BY <1>3
  <2>4. new \in [1..Len(filtered') -> 1..next' - 1]
    <3>1. \A k \in 1..n + 1 : new[k] \in 1..next' - 1
      BY <1>2, <1>3, <2>2, <2>3
    <3> QED
      BY <2>0, <2>1, <3>1
  <2>5. Origins(new)'
    <3>1. \A j, k \in 1..n + 1 : j < k => new[j] < new[k]
      <4> SUFFICES ASSUME NEW j \in 1..n + 1, NEW k \in 1..n + 1, j < k
                   PROVE  new[j] < new[k]
        OBVIOUS
      <4>1. j \in 1..n
        BY <1>3
      <4>2. CASE k \in 1..n
        BY <1>1, <2>2, <4>1, <4>2 DEF Accounts, Origins
      <4>3. CASE k = n + 1
        BY <1>3, <2>2, <4>1, <4>3
      <4> QED
        BY <2>3, <4>2, <4>3
    <3>2. \A k \in 1..n + 1 : filtered'[k] = inventory[new[k]]
      BY <1>1, <2>1, <2>2, <2>3 DEF Accounts, Origins
    <3> QED
      BY <1>2, <2>1, <3>1, <3>2 DEF Origins
  <2>6. ASSUME NEW i \in 1..next' - 1, Keep(inventory[i])'
        PROVE  \E k \in 1..n + 1 : new[k] = i
    <3>1. CASE i = next
      BY <1>3, <2>2, <3>1
    <3>2. CASE i \in 1..next - 1
      <4>1. PICK k \in 1..n : from[k] = i
        BY <1>1, <1>2, <1>5, <2>6, <3>2 DEF Accounts
      <4> QED
        BY <1>3, <2>2, <4>1
    <3> QED
      BY <1>4, <3>1, <3>2
  <2>7. Accounts(new)'
    BY <1>2, <2>1, <2>4, <2>5, <2>6 DEF Accounts
  <2> QED
    BY <2>4, <2>7 DEF KeptSoFar
<1>7. CASE ~Keep(item)
  <2>1. filtered' = filtered
    BY <1>7 DEF FilterItem
  <2>2. from \in [1..Len(filtered') -> 1..next' - 1]
    BY <1>1, <1>2, <1>3, <2>1
  <2>3. Origins(from)'
    BY <1>1, <1>2, <2>1 DEF Accounts, Origins
  <2>4. ASSUME NEW i \in 1..next' - 1, Keep(inventory[i])'
        PROVE  \E k \in 1..n : from[k] = i
    BY <1>1, <1>2, <1>4, <1>5, <1>7, <2>4 DEF Accounts
  <2>5. Accounts(from)'
    BY <1>2, <2>1, <2>2, <2>3, <2>4 DEF Accounts
  <2> QED
    BY <2>2, <2>5 DEF KeptSoFar
<1> QED
  BY <1>6, <1>7

\* An iteration of the loop keeps the invariant.
LEMMA FilterItemIInv == IInv /\ FilterItem => IInv'
<1> SUFFICES ASSUME IInv, FilterItem PROVE IInv'
  OBVIOUS
<1> DEFINE item == inventory[next]
<1>1. inventory \in Seq(Guest) /\ flags \in Flags
  BY InventoryType DEF IInv
<1>2. next \in 1..Len(inventory) /\ item \in Guest
  BY <1>1 DEF FilterItem, IInv, TypeOK
<1>3. /\ filtered' \in Seq(Guest)
      /\ Kept \subseteq Kept'
      /\ Kept' \subseteq Kept \cup {item}
      /\ Keep(item) => item \in Kept'
      /\ item \in Kept' => item \in Kept \/ Keep(item)
  <2>1. CASE Keep(item)
    <3>1. filtered' = Append(filtered, item) /\ filtered \in Seq(Guest)
      BY <2>1 DEF FilterItem, IInv, TypeOK
    <3>2. /\ Len(filtered') = Len(filtered) + 1
          /\ Len(filtered) \in Nat
          /\ filtered'[Len(filtered) + 1] = item
          /\ \A i \in 1..Len(filtered) : filtered'[i] = filtered[i]
      BY <3>1, <1>2
    <3>3. Kept' = Kept \cup {item}
      BY <3>2 DEF Kept
    <3> QED
      BY <2>1, <3>1, <3>3, <1>2
  <2>2. CASE ~Keep(item)
    BY <2>2 DEF FilterItem, IInv, TypeOK, Kept
  <2> QED
    BY <2>1, <2>2
<1>4. TypeOK'
  BY <1>2, <1>3 DEF FilterItem, IInv, TypeOK
<1>5. MadeOfFlags' /\ Loop'
  BY DEF FilterItem, IInv, MadeOfFlags, Made, Loop
<1>6. KeptSoFar'
  BY FilterItemKept DEF IInv
<1>7. ExclusionWins'
  <2>1. filt = Made
    BY DEF FilterItem, IInv, MadeOfFlags
  <2> QED
    BY <1>1, <1>3, <2>1, KeepExcludes DEF FilterItem, IInv, ExclusionWins
<1> QED
  BY <1>4, <1>5, <1>6, <1>7 DEF IInv

\* Every step keeps the invariant.
LEMMA NextIInv == IInv /\ [Next]_vars => IInv'
<1> SUFFICES ASSUME IInv, [Next]_vars PROVE IInv'
  OBVIOUS
<1>0. flags \in Flags
  BY InventoryType DEF IInv
<1>1. CASE CompileTags
  <2>1. RegexFlags \in Parsed
    BY <1>0 DEF RegexFlags, Parsed, Flags
  <2>2. KeptSoFar'
    BY <1>1, NothingKeptNext DEF CompileTags, IInv, Loop
  <2> QED
    BY <1>1, <2>1, <2>2
       DEF CompileTags, IInv, TypeOK, MadeOfFlags, RegexFlags, Loop,
           ExclusionWins, Kept
<1>2. CASE MakeFilter
  <2>1. parsed.include = flags.includeTags /\ parsed.exclude = flags.excludeTags
    BY <1>2 DEF MakeFilter, IInv, MadeOfFlags, RegexFlags
  <2>2. Made \in Flags
    BY <1>0 DEF Made, Flags
  <2>3. phase' = "ready" => filt' = Made
    BY <1>2, <2>1 DEF MakeFilter, Made
  <2>4. filtered = <<>> /\ Kept = {}
    BY <1>2 DEF MakeFilter, IInv, Loop, Kept
  <2>5. inventory = <<>> /\ next = 1
    BY <1>2 DEF MakeFilter, IInv, Loop
  <2>6. KeptSoFar'
    BY <1>2, <2>4, <2>5, NothingKeptNext DEF MakeFilter
  <2> QED
    BY <1>2, <2>2, <2>3, <2>4, <2>5, <2>6
       DEF MakeFilter, IInv, TypeOK, MadeOfFlags, Made, Loop, ExclusionWins,
           Kept
<1>3. CASE \E items \in Inventories : CallFilterResources(items)
  <2>1. PICK items \in Inventories : CallFilterResources(items)
    BY <1>3
  <2>2. items \in Seq(Guest) /\ <<>> \in Seq(Guest)
    BY FilterInputAssumption
  <2>3. TypeOK'
    BY <2>1, <2>2 DEF CallFilterResources, IInv, TypeOK
  <2>4. KeptSoFar'
    BY <2>1, NothingKeptNext DEF CallFilterResources
  <2> QED
    BY <2>1, <2>3, <2>4
       DEF CallFilterResources, IInv, MadeOfFlags, Made, Loop, ExclusionWins,
           Kept
<1>4. CASE FilterItem
  BY <1>4, FilterItemIInv
<1>5. CASE ReturnFiltered \/ UNCHANGED vars
  <2>1. UNCHANGED <<flags, parsed, filt, inventory, next, filtered>>
    BY <1>5 DEF ReturnFiltered, vars
  <2>2. \/ phase' = phase
        \/ phase = "loop" /\ phase' = "ready" /\ next = Len(inventory) + 1
    BY <1>5 DEF ReturnFiltered, vars
  <2>3. TypeOK' /\ MadeOfFlags' /\ Loop' /\ ExclusionWins'
    BY <2>1, <2>2
       DEF IInv, TypeOK, MadeOfFlags, RegexFlags, Made, Loop, ExclusionWins,
           Kept
  <2>4. KeptSoFar'
    <3>1. PICK from \in [1..Len(filtered) -> 1..next - 1] : Accounts(from)
      BY DEF IInv, KeptSoFar
    <3>2. \A i \in 1..next - 1 : Keep(inventory[i])' => Keep(inventory[i])
      BY <2>1, KeepSame
    <3>3. Accounts(from)'
      BY <2>1, <2>2, <3>1, <3>2 DEF Accounts, Origins
    <3> QED
      BY <2>1, <3>1, <3>3 DEF KeptSoFar
  <2> QED
    BY <2>3, <2>4 DEF IInv
<1> QED
  BY <1>1, <1>2, <1>3, <1>4, <1>5 DEF Next

\* The invariant is inductive, hence invariant.
LEMMA Invariance == Spec => []IInv
BY InitIInv, NextIInv, PTL DEF Spec
-----------------------------------------------------------------------------
\* The filter, its inventory and its result keep their types.
THEOREM TypeCorrect == Spec => []TypeOK
BY Invariance, PTL DEF IInv

\* No guest with an excluded tag or an address in an excluded network is kept
\* (filter.go:16-20).
THEOREM ExclusionWinsHolds == Spec => []ExclusionWins
BY Invariance, PTL DEF IInv

\* What the loop accounts for when it has ended, in terms of the flags.
LEMMA AllAccounted ==
  ASSUME IInv
  PROVE  \E from \in [1..Len(filtered) -> 1..Len(inventory)] :
           /\ Origins(from)
           /\ phase = "ready" /\ flags.includeTagsRe = {} =>
                \A i \in 1..Len(inventory) :
                  MeetsFlags(inventory[i]) =>
                    \E k \in 1..Len(filtered) : from[k] = i
<1>1. PICK from \in [1..Len(filtered) -> 1..next - 1] : Accounts(from)
  BY DEF IInv, KeptSoFar
<1>2. Len(inventory) \in Nat /\ flags \in Flags
  BY InventoryType DEF IInv
<1>3. from \in [1..Len(filtered) -> 1..Len(inventory)]
  BY <1>1, <1>2 DEF IInv, TypeOK
<1>4. ASSUME phase = "ready", NEW i \in 1..Len(inventory),
             MeetsFlags(inventory[i])
      PROVE  \E k \in 1..Len(filtered) : from[k] = i
  <2>1. filt = Made /\ i \in 1..next - 1
    BY <1>2, <1>4 DEF IInv, MadeOfFlags, Loop
  <2>2. Keep(inventory[i])
    BY <1>2, <1>4, <2>1, MadeFields
       DEF MeetsFlags, Keep,
           shouldIncludeResourceByTags, shouldExcludeResourceByTags,
           shouldIncludeResourceByCIDRs, shouldExcludeResourceByCIDRs
  <2> QED
    BY <1>1, <1>4, <2>1, <2>2 DEF Accounts
<1> QED
  BY <1>1, <1>3, <1>4 DEF Accounts

\* The guests that meet the flags are kept, in the order they came in and as
\* often (filter.go:146-232).
THEOREM KeepsOrderHolds == Spec => []KeepsOrder
<1>1. IInv => KeepsOrder
  BY AllAccounted DEF KeepsOrder
<1> QED
  BY <1>1, Invariance, PTL
=============================================================================
