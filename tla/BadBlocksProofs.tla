-------------------------- MODULE BadBlocksProofs --------------------------
(***************************************************************************)
(* The invariants of BadBlocks hold for every drive: any number of blocks, *)
(* any faults, any memory, any size of request and number of passes.       *)
(*                                                                         *)
(* The argument: a search that is between low and high has ruled out the   *)
(* rest of the list (SearchInv), so that only blocks which are not listed  *)
(* are added to it, each at its place (AddedInOrder). What is listed or    *)
(* reported has a fault because a good block holds what was written from   *)
(* when the writing has passed it (KeptInv). Where that depends on how the *)
(* requests were cut, a drive without faults is written and read in the    *)
(* same requests, which start at multiples of BLOCKS_AT_ONCE (CleanInv).   *)
(* What has a fault is reported as the reading passes it because a bad     *)
(* block never holds what was written (DiskInv), on a fake drive because   *)
(* no memory holds two block numbers (FakesInv).                           *)
(***************************************************************************)
EXTENDS BadBlocks, FiniteSetTheorems, TLAPS

-----------------------------------------------------------------------------
\* The inductive invariant.

\* The bounds of the search, and what it has ruled out: the block is nowhere in the
\* list but between them.
SearchInv ==
    /\ low = 0 <=> high = 0
    /\ low # 0 => pending # {} /\ low <= high
    /\ low # 0 => \A bad \in pending : IsNext(bad) =>
           \A i \in DOMAIN bb_list : bb_list[i] = bad => low < i /\ i < high

\* Blocks are reported while writing and reading; a check that runs has no result.
PhaseInv ==
    /\ pat_idx >= 1
    /\ pending # {} => pc \in {"write", "read"}
    /\ pc # "done" => result = "none"
    /\ pc = "start" => pat_idx = 1 /\ currently_testing = 0

\* A drive with faults has the memory it says.
DriveInv == size < last_block => \A b \in Blocks : faults[b] = "none"

\* A block that cannot be written or does not keep what is written never holds what
\* a pass has written there.
DiskInv == \A b \in Blocks : faults[b] \in {"write", "keep"} => disk[b] \in {BLANK, SPOILT}

\* The number that block b carries on this pass.
Number(b) == IF detect_fakes /\ pat_idx = 1 THEN b ELSE NOWHERE

\* Requests fail for faults only, and it does not matter how they are cut.
Plain == size = last_block /\ ~ unix /\ ~ large_drive /\ ~ Phased

\* A good block holds what was written, from when the writing has passed it.
KeptInv ==
    Plain => \A b \in Blocks :
        (faults[b] = "none" /\ (pc = "read" \/ (pc = "write" /\ b < currently_testing)))
            => disk[b] = <<pat_idx, Number(b), 0>>

\* The blocks that are listed or about to be, or could not be.
Flagged == Listed \cup pending \cup unlisted

\* GoodBlocksSpared, and the same of what is yet to be reported.
SparedInv == Plain => \A b \in Flagged : faults[b] # "none"

\* No request fails.
Clean == size = last_block /\ ~ MayDeny /\ \A b \in Blocks : faults[b] = "none"

\* Requests that no failure has cut short start here.
Start(s) == \E k \in 0..s : s = k * BLOCKS_AT_ONCE

\* What is written to block b in a request that starts at s.
Held(s, b) == <<pat_idx, Number(b), IF tlc /\ pat_idx \in TLCPasses THEN (b - s) % 3 ELSE 0>>

\* A drive on which no request fails is written and read in the same requests, so
\* that nothing is reported whatever the pattern.
CleanInv ==
    Clean =>
        /\ Flagged = {} /\ recover_block = NOWHERE
        /\ \/ currently_testing = last_block
           \/ tryout = BLOCKS_AT_ONCE /\ Start(currently_testing)
        /\ \A b \in Blocks : (pc = "read" \/ (pc = "write" /\ b < currently_testing)) =>
               \E s \in 0..b : Start(s) /\ b < s + BLOCKS_AT_ONCE /\ disk[b] = Held(s, b)

\* The check was not cut short in its first reading of the drive.
ReadOnce ==
    \/ pat_idx > 1
    \/ pc \in {"out", "done"} /\ ~ cancel_ops /\ result # "FALSE"

\* The first reading of the drive has passed the block.
Passed(b) == ReadOnce \/ (pc = "read" /\ b < currently_testing)

\* A block with a fault that the reading has passed is listed or about to be, or was
\* left out of the comparison.
FoundInv ==
    \A b \in Blocks : (faults[b] # "none" /\ Passed(b)) =>
        b \in Flagged \cup uncompared

\* On a fake drive the first pass lists what differs from what was written, so that
\* at most one block of those that are the same memory is not listed.
FakesInv ==
    (detect_fakes /\ size < last_block) =>
        /\ (pc = "read" /\ pat_idx = 1) => \A b \in Blocks :
               (b < currently_testing /\ Differs(b)) => b \in Flagged
        /\ ReadOnce => \A b, c \in Blocks :
               (b # c /\ Cell(b) = Cell(c)) =>
                   b \in Flagged \/ c \in Flagged

Inv ==
    /\ TypeOK /\ CountsAgree /\ SearchInv /\ PhaseInv /\ DriveInv
    /\ DiskInv /\ KeptInv /\ SparedInv /\ CleanInv /\ FoundInv /\ FakesInv

-----------------------------------------------------------------------------
\* The least and the greatest of some numbers.

\* A set of numbers has a least member, such as the first place in the list where
\* bb_u64_list_add finds a greater block (badblocks.c).
LEMMA LeastMember ==
    ASSUME NEW T, T \subseteq Nat, T # {}
    PROVE  \E x \in T : \A y \in T : x <= y
<1>1. PICK x \in T : \A y \in T : ~ (<<y, x>> \in OpToRel(<, Nat))
  <2>. HIDE DEF OpToRel
  <2>. QED  BY NatLessThanWellFounded, WFMin, Zenon
<1>2. \A y \in T : ~ (y < x)
  BY <1>1, Zenon DEF OpToRel
<1>. QED
  BY <1>2

\* A bounded set of numbers has a greatest member, such as the last of the blocks
\* written that are the same memory of a fake drive.
LEMMA GreatestMember ==
    ASSUME NEW m \in Nat, NEW T, T \subseteq 0..m, T # {}
    PROVE  \E x \in T : \A y \in T : y <= x
<1> DEFINE R == {m - x : x \in T}
<1>1. R \subseteq Nat /\ R # {}
  <2>1. ASSUME NEW x \in T PROVE m - x \in Nat
    <3>1. x \in 0..m
      OBVIOUS
    <3>. QED  BY <3>1
  <2>2. R \subseteq Nat
    BY <2>1
  <2>3. R # {}
    BY Zenon
  <2>. QED  BY <2>2, <2>3
<1>2. PICK r \in R : \A y \in R : r <= y
  <2>. HIDE DEF R
  <2>. QED  BY <1>1, LeastMember
<1>3. PICK x \in T : r = m - x
  BY <1>2
<1>4. ASSUME NEW y \in T PROVE y <= x
  <2>1. m - y \in R
    OBVIOUS
  <2>2. r <= m - y
    BY <2>1, <1>2
  <2>. QED  BY <2>2, <1>3
<1>. QED
  BY <1>4

-----------------------------------------------------------------------------
\* The list of bad blocks.

Sorted(list) == \A i, j \in DOMAIN list : i < j => list[i] < list[j]
Members(list) == {list[i] : i \in DOMAIN list}

\* bb_u64_list_add puts a block that is not in the list at its place: the list
\* stays in order, and has this block more and no other (badblocks.c).
LEMMA AddedInOrder ==
    ASSUME NEW list \in Seq(Blocks), Sorted(list), NEW blk \in Blocks,
           blk \notin Members(list)
    PROVE  /\ ListAdd(list, blk) \in Seq(Blocks)
           /\ Len(ListAdd(list, blk)) = Len(list) + 1
           /\ Sorted(ListAdd(list, blk))
           /\ Members(ListAdd(list, blk)) = Members(list) \cup {blk}
<1>0. /\ Len(list) \in Nat /\ DOMAIN list = 1..Len(list)
      /\ \A i \in 1..Len(list) : list[i] \in Blocks /\ list[i] \in Int /\ list[i] # blk
      /\ blk \in Int
      /\ list = <<>> <=> Len(list) = 0
  BY BadBlocksAssumption DEF Members, Blocks
<1>s. \A i, j \in 1..Len(list) : i < j => list[i] < list[j]
  BY <1>0 DEF Sorted
<1>1. CASE list = <<>> \/ list[Len(list)] < blk
  <2>1. ListAdd(list, blk) = Append(list, blk)
    <3>1. ~ (list # <<>> /\ list[Len(list)] = blk)
      BY <1>0
    <3>. QED  BY <3>1, <1>1 DEF ListAdd
  <2>2. /\ Append(list, blk) \in Seq(Blocks)
        /\ Len(Append(list, blk)) = Len(list) + 1
        /\ DOMAIN Append(list, blk) = 1..(Len(list) + 1)
        /\ \A i \in 1..Len(list) : Append(list, blk)[i] = list[i]
        /\ Append(list, blk)[Len(list) + 1] = blk
    BY <1>0
  <2>3. \A i \in 1..Len(list) : list[i] < blk
    BY <1>0, <1>1, <1>s
  <2> DEFINE new == Append(list, blk)
  <2> HIDE DEF new
  <2>4. Sorted(new)
    <3>1. SUFFICES ASSUME NEW i \in 1..(Len(list) + 1), NEW j \in 1..(Len(list) + 1),
                          i < j
                   PROVE  new[i] < new[j]
      BY <2>2 DEF Sorted, new
    <3>2. i \in 1..Len(list) /\ new[i] = list[i]
      BY <3>1, <2>2, <1>0 DEF new
    <3>3. CASE j = Len(list) + 1
      BY <3>2, <3>3, <2>2, <2>3 DEF new
    <3>4. CASE j # Len(list) + 1
      <4>1. j \in 1..Len(list) /\ new[j] = list[j]
        BY <3>4, <3>1, <2>2, <1>0 DEF new
      <4>. QED  BY <4>1, <3>1, <3>2, <1>s
    <3>. QED  BY <3>3, <3>4
  <2>5. Members(new) = Members(list) \cup {blk}
    <3>1. ASSUME NEW x \in Members(new) PROVE x \in Members(list) \cup {blk}
      <4>1. PICK i \in 1..(Len(list) + 1) : x = new[i]
        BY <2>2 DEF Members, new
      <4>2. CASE i = Len(list) + 1
        BY <4>1, <4>2, <2>2 DEF new
      <4>3. CASE i # Len(list) + 1
        <5>1. i \in 1..Len(list) /\ x = list[i]
          BY <4>1, <4>3, <2>2, <1>0 DEF new
        <5>. QED  BY <5>1, <1>0 DEF Members
      <4>. QED  BY <4>2, <4>3
    <3>2. ASSUME NEW i \in 1..Len(list) PROVE list[i] \in Members(new)
      <4>1. i \in 1..(Len(list) + 1) /\ new[i] = list[i]
        BY <2>2, <1>0 DEF new
      <4>. QED  BY <4>1, <2>2 DEF Members, new
    <3>3. blk \in Members(new)
      <4>1. Len(list) + 1 \in 1..(Len(list) + 1)
        BY <1>0
      <4>. QED  BY <4>1, <2>2 DEF Members, new
    <3>4. Members(list) \subseteq Members(new)
      BY <3>2, <1>0 DEF Members
    <3>. QED  BY <3>1, <3>3, <3>4
  <2>. QED  BY <2>1, <2>2, <2>4, <2>5 DEF new
<1>2. CASE ~ (list = <<>> \/ list[Len(list)] < blk)
  <2>1. Len(list) \in 1..Len(list) /\ list[Len(list)] > blk
    BY <1>2, <1>0
  <2> DEFINE Greater == {i \in DOMAIN list : list[i] > blk}
             First(i) == list[i] > blk /\ \A k \in DOMAIN list : list[k] > blk => i <= k
             j == CHOOSE i \in DOMAIN list : First(i)
  <2>2. \E i \in DOMAIN list : First(i)
    <3>1. Greater \subseteq Nat /\ Greater # {}
      BY <2>1, <1>0
    <3>2. PICK x \in Greater : \A y \in Greater : x <= y
      <4>. HIDE DEF Greater
      <4>. QED  BY <3>1, LeastMember
    <3>. QED  BY <3>2
  <2>3. j \in DOMAIN list /\ First(j)
    <3>. HIDE DEF First
    <3>. QED  BY <2>2, Zenon
  <2>4. ListAdd(list, blk) = [i \in 1..(Len(list) + 1) |->
            IF i < j THEN list[i] ELSE IF i = j THEN blk ELSE list[i - 1]]
    BY <1>2, <1>0 DEF ListAdd
  <2>5. /\ j \in 1..Len(list) /\ list[j] > blk
        /\ \A k \in 1..Len(list) : list[k] > blk => j <= k
    BY <2>3, <1>0
  <2> HIDE DEF j
  <2>6. /\ \A i \in 1..Len(list) : i < j => list[i] < blk
        /\ \A i \in 1..Len(list) : i >= j => list[i] > blk
    BY <2>5, <1>0, <1>s
  <2> DEFINE new == ListAdd(list, blk)
  <2>7. /\ DOMAIN new = 1..(Len(list) + 1)
        /\ \A i \in 1..(Len(list) + 1) :
              /\ i < j => i \in 1..Len(list) /\ new[i] = list[i]
              /\ i = j => new[i] = blk
              /\ i > j => i - 1 \in 1..Len(list) /\ i - 1 >= j /\ new[i] = list[i - 1]
    BY <2>4, <2>5, <1>0
  <2>8. new \in Seq(Blocks) /\ Len(new) = Len(list) + 1
    <3>1. new \in [1..(Len(list) + 1) -> Blocks]
      BY <2>4, <2>5, <1>0
    <3>. QED  BY <3>1, <1>0
  <2> HIDE DEF new
  <2>9. Sorted(new)
    <3>1. SUFFICES ASSUME NEW i \in 1..(Len(list) + 1), NEW k \in 1..(Len(list) + 1),
                          i < k
                   PROVE  new[i] < new[k]
      BY <2>7 DEF Sorted
    <3>2. CASE k < j
      BY <3>1, <3>2, <2>5, <2>7, <1>0, <1>s
    <3>3. CASE k = j
      BY <3>1, <3>3, <2>5, <2>6, <2>7, <1>0
    <3>4. CASE k > j /\ i < j
      <4>1. i \in 1..Len(list) /\ new[i] = list[i] /\ list[i] < blk
        BY <3>1, <3>4, <2>6, <2>7
      <4>2. k - 1 \in 1..Len(list) /\ new[k] = list[k - 1] /\ list[k - 1] > blk
        BY <3>1, <3>4, <2>6, <2>7
      <4>. QED  BY <4>1, <4>2, <1>0
    <3>5. CASE k > j /\ i = j
      <4>1. new[i] = blk
        BY <3>1, <3>5, <2>7
      <4>2. k - 1 \in 1..Len(list) /\ new[k] = list[k - 1] /\ list[k - 1] > blk
        BY <3>1, <3>5, <2>6, <2>7
      <4>. QED  BY <4>1, <4>2, <1>0
    <3>6. CASE k > j /\ i > j
      <4>1. i - 1 \in 1..Len(list) /\ new[i] = list[i - 1]
        BY <3>1, <3>6, <2>7
      <4>2. k - 1 \in 1..Len(list) /\ new[k] = list[k - 1]
        BY <3>1, <3>6, <2>7
      <4>3. i - 1 < k - 1
        BY <3>1, <1>0
      <4>. QED  BY <4>1, <4>2, <4>3, <1>s
    <3>. QED  BY <3>2, <3>3, <3>4, <3>5, <3>6, <2>5, <1>0
  <2>10. Members(new) = Members(list) \cup {blk}
    <3>1. ASSUME NEW x \in Members(new) PROVE x \in Members(list) \cup {blk}
      <4>1. PICK i \in 1..(Len(list) + 1) : x = new[i]
        BY <2>7 DEF Members
      <4>2. CASE i = j
        BY <4>1, <4>2, <2>7
      <4>3. CASE i < j
        BY <4>1, <4>3, <2>7, <1>0 DEF Members
      <4>4. CASE i > j
        BY <4>1, <4>4, <2>7, <1>0 DEF Members
      <4>. QED  BY <4>2, <4>3, <4>4, <2>5, <1>0
    <3>2. ASSUME NEW i \in 1..Len(list) PROVE list[i] \in Members(new)
      <4>1. CASE i < j
        <5>1. i \in 1..(Len(list) + 1) /\ new[i] = list[i]
          BY <4>1, <2>7, <1>0
        <5>. QED  BY <5>1, <2>7 DEF Members
      <4>2. CASE i >= j
        <5>1. i + 1 \in 1..(Len(list) + 1) /\ i + 1 > j /\ (i + 1) - 1 = i
          BY <4>2, <2>5, <1>0
        <5>2. new[i + 1] = list[i]
          BY <5>1, <2>7
        <5>. QED  BY <5>1, <5>2, <2>7 DEF Members
      <4>. QED  BY <4>1, <4>2, <2>5, <1>0
    <3>3. blk \in Members(new)
      <4>1. j \in 1..(Len(list) + 1) /\ new[j] = blk
        BY <2>5, <2>7, <1>0
      <4>. QED  BY <4>1, <2>7 DEF Members
    <3>4. Members(list) \subseteq Members(new)
      BY <3>2, <1>0 DEF Members
    <3>. QED  BY <3>1, <3>3, <3>4
  <2>. QED  BY <2>8, <2>9, <2>10 DEF new
<1>. QED
  BY <1>1, <1>2

\* An ordered list of blocks is no longer than the drive: realloc of the list is
\* bounded by the drive (bb_u64_list_add, badblocks.c).
LEMMA ListFits ==
    ASSUME NEW list \in Seq(Blocks), Sorted(list)
    PROVE  Len(list) <= last_block
<1>0. /\ Len(list) \in Nat /\ DOMAIN list = 1..Len(list)
      /\ list \in [1..Len(list) -> Blocks]
      /\ \A i \in 1..Len(list) : list[i] \in Int
  BY BadBlocksAssumption DEF Blocks
<1>1. \A i, j \in 1..Len(list) : list[i] = list[j] => i = j
  BY <1>0 DEF Sorted
<1>2. list \in Injection(1..Len(list), Blocks)
  BY <1>0, <1>1 DEF Injection, IsInjective
<1>3. IsFiniteSet(Blocks) /\ Cardinality(Blocks) = last_block
  BY BadBlocksAssumption, FS_Interval DEF Blocks
<1>4. Cardinality(1..Len(list)) = Len(list)
  BY <1>0, FS_Interval
<1>5. Cardinality(1..Len(list)) <= Cardinality(Blocks)
  BY <1>2, <1>3, FS_Injection
<1>. QED
  BY <1>3, <1>4, <1>5

-----------------------------------------------------------------------------
\* Requests.

\* A request starts at the position, has a block at least and stays on the drive
\* (test_rw cuts tryout at last_block, badblocks.c).
LEMMA RequestFits ==
    ASSUME currently_testing \in 0..last_block, currently_testing < last_block,
           tryout \in 1..BLOCKS_AT_ONCE
    PROVE  /\ Try \in 1..BLOCKS_AT_ONCE /\ currently_testing + Try <= last_block
           /\ \A n \in 0..Try : \A b \in Span(n) :
                  /\ b \in Blocks /\ b >= currently_testing
                  /\ b < currently_testing + n
           /\ \A n \in 0..Try : \A b \in Blocks :
                  b < currently_testing \/ b >= currently_testing + n \/ b \in Span(n)
           /\ Span(1) = {currently_testing}
  BY BadBlocksAssumption DEF Try, Span, Blocks

\* What do_write returns: the whole request or nothing. On Windows all was written
\* if it says so; a block that fails alone cannot be written, unless the drive denies
\* what it has written (badblocks.c).
LEMMA WriteReturns ==
    ASSUME NEW n \in Nat \ {0}, currently_testing \in Nat,
           faults \in [Blocks -> Faults], unix \in BOOLEAN, NEW got \in DoWrite(n)
    PROVE  /\ got \in {0, n}
           /\ (~ unix /\ got = n) => Written(n) = Span(n)
           /\ (~ MayDeny /\ got = 0) => ~ unix /\ Written(n) # Span(n)
           /\ (~ MayDeny /\ FailsAlone(got, n)) =>
                  n = 1 /\ faults[currently_testing] = "write"
           /\ FailsAlone(got, n) => n = 1
<1>1. /\ got \in {0, n}
      /\ (~ unix /\ got = n) => Written(n) = Span(n)
      /\ (~ MayDeny /\ got = 0) => ~ unix /\ Written(n) # Span(n)
  BY DEF DoWrite
<1>2. ASSUME ~ MayDeny, FailsAlone(got, n)
      PROVE  n = 1 /\ faults[currently_testing] = "write"
  <2>1. n = 1 /\ Written(n) # Span(n)
    BY <1>1, <1>2 DEF FailsAlone
  <2>2. Span(1) = {currently_testing}
    BY DEF Span
  <2>. QED  BY <2>1, <2>2 DEF Written, Before
<1>3. FailsAlone(got, n) => n = 1
  BY DEF FailsAlone
<1>. QED
  BY <1>1, <1>2, <1>3

\* What do_read returns: at most the request. What was read whole has no block that
\* cannot be read, and a block that fails alone cannot be read (badblocks.c).
LEMMA ReadReturns ==
    ASSUME NEW n \in Nat \ {0}, currently_testing \in Nat,
           NEW got \in DoRead(n)
    PROVE  /\ got \in 0..n
           /\ got = n => \A b \in Span(n) : faults[b] # "read"
           /\ FailsAlone(got, n) => n = 1 /\ faults[currently_testing] = "read"
<1>1. IsFiniteSet(Span(n)) /\ Cardinality(Span(n)) = n
  <2>1. /\ currently_testing \in Int /\ currently_testing + n - 1 \in Int
        /\ ~ (currently_testing > currently_testing + n - 1)
        /\ (currently_testing + n - 1) - currently_testing + 1 = n
    OBVIOUS
  <2>. QED  BY <2>1, FS_Interval DEF Span
<1>2. Before("read", n) \in SUBSET Span(n)
  BY DEF Before
<1>3. Readable(n) \in Nat /\ Readable(n) <= n
  BY <1>1, <1>2, FS_Subset, FS_CardinalityType DEF Readable
<1>4. Readable(n) = n => Before("read", n) = Span(n)
  BY <1>1, <1>2, FS_Subset DEF Readable
<1>5. got \in 0..n
  BY <1>3 DEF DoRead
<1>6. got = n => Readable(n) = n
  BY DEF DoRead
<1>7. ASSUME got = n, NEW b \in Span(n) PROVE faults[b] # "read"
  <2>1. b \in Before("read", n) /\ b \in Int
    BY <1>7, <1>6, <1>4 DEF Span
  <2>. QED  BY <2>1 DEF Before
<1>8. ASSUME FailsAlone(got, n) PROVE n = 1 /\ faults[currently_testing] = "read"
  <2>1. n = 1 /\ got = 0
    BY <1>8 DEF FailsAlone
  <2>2. Span(1) = {currently_testing}
    BY DEF Span
  <2>3. ASSUME faults[currently_testing] # "read" PROVE FALSE
    <3>1. Before("read", n) = Span(n)
      BY <2>1, <2>2, <2>3 DEF Before
    <3>2. Readable(n) = n
      BY <3>1, <1>1 DEF Readable
    <3>. QED  BY <3>2, <2>1 DEF DoRead
  <2>. QED  BY <2>1, <2>3
<1>. QED
  BY <1>5, <1>7, <1>8

\* The move after a request: past what was done, or past the block that has failed
\* alone; what is tried next is a request again (test_rw, badblocks.c).
LEMMA AdvanceMoves ==
    ASSUME NEW n \in 1..BLOCKS_AT_ONCE, NEW got \in 0..n,
           currently_testing \in 0..last_block, currently_testing + n <= last_block,
           recover_block \in {NOWHERE} \cup 0..(last_block + BLOCKS_AT_ONCE),
           Advance(got, n)
    PROVE  /\ currently_testing' = IF FailsAlone(got, n) THEN currently_testing + 1
                                   ELSE currently_testing + got
           /\ currently_testing' \in 0..last_block
           /\ tryout' \in 1..BLOCKS_AT_ONCE
           /\ recover_block' \in {NOWHERE} \cup 0..(last_block + BLOCKS_AT_ONCE)
  BY BadBlocksAssumption DEF Advance, FailsAlone, NOWHERE

\* Requests that start at multiples of BLOCKS_AT_ONCE do not overlap, and the next
\* one starts where a full one ends.
LEMMA StartsApart ==
    ASSUME NEW s \in Nat, NEW t \in Nat, Start(s), Start(t), NEW b \in Nat,
           s <= b, b < s + BLOCKS_AT_ONCE, t <= b, b < t + BLOCKS_AT_ONCE
    PROVE  s = t
<1> DEFINE B == BLOCKS_AT_ONCE
<1>b. B \in Nat /\ B > 0
  BY BadBlocksAssumption
<1>1. PICK k \in Nat : s = k * B
  BY DEF Start
<1>2. PICK l \in Nat : t = l * B
  BY DEF Start
<1> HIDE DEF B
<1>3. ASSUME NEW x \in Nat, NEW y \in Nat, x < y PROVE x * B + B <= y * B
  <2>1. y - x - 1 \in Nat
    BY <1>3
  <2>2. (y - x - 1) * B >= 0
    BY <2>1, <1>b
  <2>3. (y - x - 1) * B = y * B - x * B - B
    BY <1>b
  <2>4. x * B \in Int /\ y * B \in Int
    BY <1>b
  <2>. QED  BY <2>2, <2>3, <2>4, <1>b
<1>4. ~ (k < l)
  BY <1>1, <1>2, <1>3, <1>b DEF B
<1>5. ~ (l < k)
  BY <1>1, <1>2, <1>3, <1>b DEF B
<1>6. k = l
  BY <1>4, <1>5
<1>. QED
  BY <1>1, <1>2, <1>6

LEMMA StartsFollow ==
    ASSUME NEW s \in Nat, Start(s)
    PROVE  Start(s + BLOCKS_AT_ONCE) /\ Start(0)
<1> DEFINE B == BLOCKS_AT_ONCE
<1>b. B \in Nat /\ B > 0
  BY BadBlocksAssumption
<1>1. PICK k \in 0..s : s = k * B
  BY DEF Start
<1> HIDE DEF B
<1>2. s + B = (k + 1) * B
  BY <1>1, <1>b
<1>3. k + 1 \in 0..(s + B)
  BY <1>1, <1>b
<1>4. 0 \in 0..0 /\ 0 = 0 * B
  BY <1>b
<1>. QED
  BY <1>2, <1>3, <1>4 DEF Start, B

\* Without a pattern of three bytes it does not matter where a request starts.
LEMMA PlainContent ==
    ASSUME ~ Phased, pat_idx \in Nat, NEW b \in Blocks
    PROVE  Content(b) = <<pat_idx, Number(b), 0>>
<1>1. ~ (tlc /\ pat_idx \in TLCPasses)
  BY DEF Phased
<1>. QED
  BY <1>1 DEF Content, Phase, Number

\* A drive that has the memory it says keeps each block in a place of its own.
LEMMA OwnCell ==
    ASSUME size = last_block, NEW b \in Blocks
    PROVE  Cell(b) = b
  BY BadBlocksAssumption DEF Cell, Blocks

\* What write_sectors leaves on a drive that has the memory it says.
LEMMA DiskWritten ==
    ASSUME size = last_block, NEW w, w \subseteq Blocks, NEW c \in Blocks
    PROVE  DiskAfter(w)[c] = IF c \notin w THEN disk[c]
                             ELSE IF faults[c] = "keep" THEN SPOILT ELSE Content(c)
<1> DEFINE here == {b \in w : Cell(b) = c}
           Last(b) == \A d \in here : d <= b
           last == CHOOSE b \in here : Last(b)
<1>1. DiskAfter(w)[c] = IF here = {} THEN disk[c]
                        ELSE IF faults[c] = "keep" THEN SPOILT ELSE Content(last)
  BY DEF DiskAfter
<1>2. CASE c \notin w
  BY <1>1, <1>2, OwnCell
<1>3. CASE c \in w
  <2>0. \A b \in w : Cell(b) = b
    BY OwnCell
  <2>1. here = {c} /\ c <= c
    <3>1. here = {c}
      BY <1>3, <2>0
    <3>2. c <= c
      BY BadBlocksAssumption DEF Blocks
    <3>. QED  BY <3>1, <3>2
  <2>2. last = c
    BY <2>1
  <2>. HIDE DEF last, here
  <2>. QED  BY <1>1, <1>3, <2>1, <2>2
<1>. QED
  BY <1>2, <1>3

Contents == (-1..nb_passes) \X (Blocks \cup {NOWHERE}) \X (0..2)

\* What write_sectors leaves on any drive is what some pass has written or nothing
\* any pass writes.
LEMMA DiskType ==
    ASSUME disk \in [Blocks -> Contents], NEW w, w \subseteq Blocks,
           pat_idx \in 0..nb_passes, currently_testing \in Int
    PROVE  DiskAfter(w) \in [Blocks -> Contents]
<1>1. ASSUME NEW c \in Blocks PROVE DiskAfter(w)[c] \in Contents
  <2> DEFINE here == {b \in w : Cell(b) = c}
             Last(b) == \A d \in here : d <= b
             last == CHOOSE b \in here : Last(b)
  <2>1. DiskAfter(w)[c] = IF here = {} THEN disk[c]
                          ELSE IF faults[c] = "keep" THEN SPOILT ELSE Content(last)
    BY DEF DiskAfter
  <2>2. SPOILT \in Contents
    BY BadBlocksAssumption DEF SPOILT, Contents, NOWHERE
  <2>3. ASSUME here # {} PROVE Content(last) \in Contents
    <3>1. last_block - 1 \in Nat /\ here \subseteq 0..(last_block - 1)
      <4>1. last_block - 1 \in Nat
        BY BadBlocksAssumption
      <4>2. here \subseteq Blocks
        OBVIOUS
      <4>. QED  BY <4>1, <4>2 DEF Blocks
    <3>2. \E b \in here : Last(b)
      <4>. HIDE DEF here
      <4>. QED  BY <2>3, <3>1, GreatestMember
    <3>3. last \in here
      <4>. HIDE DEF here, Last
      <4>. QED  BY <3>2, Zenon
    <3>4. last \in Blocks
      BY <3>3
    <3>. HIDE DEF last
    <3>5. Phase(last) \in 0..2
      BY <3>4, BadBlocksAssumption DEF Phase, Blocks
    <3>. QED  BY <3>4, <3>5, BadBlocksAssumption DEF Content, Contents
  <2>. HIDE DEF last, here
  <2>. QED  BY <2>1, <2>2, <2>3
<1>. QED
  BY <1>1 DEF DiskAfter

-----------------------------------------------------------------------------
\* bb_output.

\* What the list and the pending blocks are made of, for the provers.
LEMMA ListTypes ==
    ASSUME TypeOK, CountsAgree
    PROVE  /\ bb_list \in Seq(Blocks) /\ Sorted(bb_list)
           /\ Listed = Members(bb_list)
           /\ Len(bb_list) \in Nat /\ DOMAIN bb_list = 1..Len(bb_list)
           /\ \A i \in 1..Len(bb_list) : bb_list[i] \in Blocks /\ bb_list[i] \in Int
           /\ \A b \in pending : b \in Blocks /\ b \in Int
           /\ bb_list = <<>> <=> Len(bb_list) = 0
           /\ low \in Nat /\ high \in Nat /\ low <= Len(bb_list) /\ high <= Len(bb_list)
<1>1. /\ bb_list \in Seq(Blocks) /\ pending \subseteq Blocks
      /\ low \in 0..Len(bb_list) /\ high \in 0..Len(bb_list)
  BY DEF TypeOK
<1>2. Blocks \subseteq Int
  BY BadBlocksAssumption DEF Blocks
<1>3. /\ Len(bb_list) \in Nat /\ DOMAIN bb_list = 1..Len(bb_list)
      /\ \A i \in 1..Len(bb_list) : bb_list[i] \in Blocks
      /\ bb_list = <<>> <=> Len(bb_list) = 0
  BY <1>1
<1>4. Sorted(bb_list) /\ Listed = Members(bb_list)
  BY DEF CountsAgree, Sorted, Members, Listed
<1>5. low \in Nat /\ high \in Nat /\ low <= Len(bb_list) /\ high <= Len(bb_list)
  BY <1>1, <1>3
<1>. QED
  BY <1>1, <1>2, <1>3, <1>4, <1>5

\* bb_u64_list_find finds the block if it is listed and only then: the ends of the
\* list are looked at first, then each turn halves what is left (badblocks.c).
LEMMA FindIsRight ==
    ASSUME TypeOK, CountsAgree, SearchInv, NEW bad \in pending, IsNext(bad),
           (low = 0 /\ FindEnds(bad)) \/ (low # 0 /\ FindBetween(bad))
    PROVE  \/ NewBad(bad) /\ bad \notin Listed
           \/ SeenBad(bad) /\ bad \in Listed
           \/ \E l, h \in 1..Len(bb_list) :
                  /\ Narrow(l, h) /\ l <= h
                  /\ \A i \in DOMAIN bb_list : bb_list[i] = bad => l < i /\ i < h
<1>t. /\ Len(bb_list) \in Nat /\ DOMAIN bb_list = 1..Len(bb_list)
      /\ \A i \in 1..Len(bb_list) : bb_list[i] \in Int
      /\ bad \in Int
      /\ bb_list = <<>> <=> Len(bb_list) = 0
      /\ low \in Nat /\ high \in Nat /\ low <= Len(bb_list) /\ high <= Len(bb_list)
      /\ \A i, j \in 1..Len(bb_list) : i < j => bb_list[i] < bb_list[j]
  BY ListTypes DEF CountsAgree
<1>l. \A x : x \in Listed <=> \E i \in 1..Len(bb_list) : bb_list[i] = x
  BY <1>t DEF Listed
<1>1. CASE low = 0 /\ FindEnds(bad)
  <2>1. CASE bb_list = <<>> /\ NewBad(bad)
    <3>1. bad \notin Listed
      BY <2>1, <1>l, <1>t
    <3>. QED  BY <2>1, <3>1
  <2>2. CASE /\ bb_list # <<>> /\ bad \in {bb_list[1], bb_list[Len(bb_list)]}
             /\ SeenBad(bad)
    <3>1. 1 \in 1..Len(bb_list) /\ Len(bb_list) \in 1..Len(bb_list)
      BY <2>2, <1>t
    <3>2. bad \in Listed
      BY <2>2, <3>1, <1>l
    <3>. QED  BY <2>2, <3>2
  <2>3. CASE /\ bb_list # <<>> /\ bad \notin {bb_list[1], bb_list[Len(bb_list)]}
             /\ Narrow(1, Len(bb_list))
    <3>1. 1 \in 1..Len(bb_list) /\ Len(bb_list) \in 1..Len(bb_list) /\ 1 <= Len(bb_list)
      BY <2>3, <1>t
    <3>2. \A i \in DOMAIN bb_list : bb_list[i] = bad => 1 < i /\ i < Len(bb_list)
      BY <2>3, <1>t
    <3>. QED  BY <2>3, <3>1, <3>2
  <2>. QED  BY <1>1, <2>1, <2>2, <2>3 DEF FindEnds
<1>2. CASE low # 0 /\ FindBetween(bad)
  <2> DEFINE mid == (low + high) \div 2
  <2>0. mid \in Nat /\ 2 * mid <= low + high /\ low + high <= 2 * mid + 1
    BY <1>t
  <2>1. /\ low <= high /\ low >= 1
        /\ \A i \in 1..Len(bb_list) : bb_list[i] = bad => low < i /\ i < high
    BY <1>2, <1>t DEF SearchInv
  <2>2. \/ (low >= high \/ mid = low \/ mid = high) /\ NewBad(bad)
        \/ /\ low < high /\ mid # low /\ mid # high
           /\ \/ bad = bb_list[mid] /\ SeenBad(bad)
              \/ bad < bb_list[mid] /\ Narrow(low, mid)
              \/ bad > bb_list[mid] /\ Narrow(mid, high)
    BY <1>2, Zenon DEF FindBetween
  <2> HIDE DEF mid
  <2>3. CASE (low >= high \/ mid = low \/ mid = high) /\ NewBad(bad)
    <3>1. high <= low + 1
      BY <2>3, <2>0, <2>1, <1>t
    <3>2. \A i \in 1..Len(bb_list) : ~ (low < i /\ i < high)
      BY <3>1, <1>t
    <3>3. bad \notin Listed
      BY <3>2, <2>1, <1>l
    <3>. QED  BY <2>3, <3>3
  <2>4. ASSUME low < high, mid # low, mid # high
        PROVE  mid \in 1..Len(bb_list) /\ low < mid /\ mid < high
    BY <2>4, <2>0, <2>1, <1>t
  <2>5. CASE low < high /\ mid # low /\ mid # high /\ bad = bb_list[mid] /\ SeenBad(bad)
    BY <2>5, <2>4, <1>l
  <2>6. CASE /\ low < high /\ mid # low /\ mid # high /\ bad < bb_list[mid]
             /\ Narrow(low, mid)
    <3>1. low \in 1..Len(bb_list) /\ mid \in 1..Len(bb_list) /\ low <= mid
      BY <2>6, <2>4, <2>1, <1>t
    <3>2. ASSUME NEW i \in 1..Len(bb_list), bb_list[i] = bad PROVE low < i /\ i < mid
      BY <3>1, <3>2, <2>6, <2>1, <1>t
    <3>. QED  BY <3>1, <3>2, <2>6, <1>t
  <2>7. CASE /\ low < high /\ mid # low /\ mid # high /\ bad > bb_list[mid]
             /\ Narrow(mid, high)
    <3>1. mid \in 1..Len(bb_list) /\ high \in 1..Len(bb_list) /\ mid <= high
      BY <2>7, <2>4, <2>1, <1>t
    <3>2. ASSUME NEW i \in 1..Len(bb_list), bb_list[i] = bad PROVE mid < i /\ i < high
      BY <3>1, <3>2, <2>7, <2>1, <1>t
    <3>. QED  BY <3>1, <3>2, <2>7, <1>t
  <2>. QED  BY <2>2, <2>3, <2>5, <2>6, <2>7
<1>. QED
  BY <1>1, <1>2

\* A block that is not listed is added to the list and counted once (bb_output,
\* badblocks.c).
LEMMA NewBadEffect ==
    ASSUME TypeOK, CountsAgree, NEW bad \in pending, bad \notin Listed,
           bb_list' = ListAdd(bb_list, bad), bb_count' = bb_count + 1,
           num_errors' = [num_errors EXCEPT ![error_type] = @ + 1]
    PROVE  /\ bb_list' \in Seq(Blocks) /\ bb_count' \in 0..last_block
           /\ num_errors' \in [Errors -> 0..last_block]
           /\ CountsAgree' /\ Listed' = Listed \cup {bad}
<1>t. /\ bb_list \in Seq(Blocks) /\ Sorted(bb_list) /\ Listed = Members(bb_list)
      /\ bad \in Blocks /\ Len(bb_list) \in Nat
  BY ListTypes
<1>1. bb_list' = ListAdd(bb_list, bad) /\ bb_count' = bb_count + 1
  OBVIOUS
<1>2. /\ ListAdd(bb_list, bad) \in Seq(Blocks)
      /\ Len(ListAdd(bb_list, bad)) = Len(bb_list) + 1
      /\ Sorted(ListAdd(bb_list, bad))
      /\ Members(ListAdd(bb_list, bad)) = Members(bb_list) \cup {bad}
  BY <1>t, AddedInOrder
<1>3. Len(ListAdd(bb_list, bad)) <= last_block
  BY <1>2, ListFits
<1>4. bb_count = Len(bb_list) /\ bb_count \in Nat
  BY <1>t DEF CountsAgree
<1>5. bb_count' \in 0..last_block
  BY <1>1, <1>2, <1>3, <1>4, BadBlocksAssumption
<1>e. num_errors \in [Errors -> 0..last_block] /\ error_type \in Errors
  BY DEF TypeOK
<1> DEFINE r == num_errors["READ_ERROR"]
           w == num_errors["WRITE_ERROR"]
           c == num_errors["CORRUPTION_ERROR"]
<1>6. r \in Nat /\ w \in Nat /\ c \in Nat /\ r + w + c = bb_count
  BY <1>e, BadBlocksAssumption DEF CountsAgree, Errors
<1>7. /\ num_errors' = [num_errors EXCEPT ![error_type] = @ + 1]
      /\ DOMAIN num_errors = Errors
      /\ \/ error_type = "READ_ERROR" \/ error_type = "WRITE_ERROR"
         \/ error_type = "CORRUPTION_ERROR"
  BY <1>e DEF Errors
<1>8. /\ num_errors'["READ_ERROR"] = IF error_type = "READ_ERROR" THEN r + 1 ELSE r
      /\ num_errors'["WRITE_ERROR"] = IF error_type = "WRITE_ERROR" THEN w + 1 ELSE w
      /\ num_errors'["CORRUPTION_ERROR"] =
             IF error_type = "CORRUPTION_ERROR" THEN c + 1 ELSE c
      /\ DOMAIN num_errors' = Errors
  BY <1>7 DEF Errors
<1>n. num_errors' = [e \in Errors |-> num_errors'[e]]
  BY <1>7
<1> HIDE DEF r, w, c
<1>9. /\ num_errors'["READ_ERROR"] + num_errors'["WRITE_ERROR"]
             + num_errors'["CORRUPTION_ERROR"] = bb_count + 1
      /\ num_errors'["READ_ERROR"] \in 0..(bb_count + 1)
      /\ num_errors'["WRITE_ERROR"] \in 0..(bb_count + 1)
      /\ num_errors'["CORRUPTION_ERROR"] \in 0..(bb_count + 1)
  BY <1>6, <1>7, <1>8
<1>10. num_errors' \in [Errors -> 0..last_block]
  <2>1. bb_count + 1 <= last_block
    BY <1>2, <1>3, <1>4
  <2>2. \A e \in Errors : num_errors'[e] \in 0..last_block
    BY <1>9, <2>1, <1>4, BadBlocksAssumption DEF Errors
  <2>. QED  BY <2>2, <1>n
<1>11. Sorted(bb_list')
  BY <1>1, <1>2
<1>12. bb_count' = Len(bb_list')
  BY <1>1, <1>2, <1>4
<1>13. CountsAgree'
  BY <1>1, <1>9, <1>11, <1>12 DEF CountsAgree, Sorted
<1>14. Listed' = Members(bb_list')
  BY DEF Listed, Members
<1>. QED
  BY <1>1, <1>2, <1>5, <1>10, <1>13, <1>14, <1>t

\* bb_output moves blocks from those to report to the list, whichever way a turn of
\* the search ends: none is lost and none is added (badblocks.c).
LEMMA OutputEffect ==
    ASSUME TypeOK, CountsAgree, SearchInv, OutputStep
    PROVE  /\ Flagged' = Flagged /\ pending' \subseteq pending /\ pending # {}
           /\ TypeOK' /\ CountsAgree' /\ SearchInv'
<1>1. PICK bad \in pending :
           /\ IsNext(bad)
           /\ (low = 0 /\ FindEnds(bad)) \/ (low # 0 /\ FindBetween(bad))
  BY DEF OutputStep
<1>2. UNCHANGED <<drive, disk, pc, position, error_type, cancel_ops, ErrorStatus,
                  result, uncompared>>
  BY DEF OutputStep
<1>3. ASSUME /\ pending' \subseteq pending
             /\ low' \in 0..Len(bb_list') /\ high' \in 0..Len(bb_list')
             /\ bb_list' \in Seq(Blocks) /\ bb_count' \in 0..last_block
             /\ num_errors' \in [Errors -> 0..last_block]
             /\ unlisted' \subseteq unlisted \cup pending
      PROVE  TypeOK'
  <2>1. pending' \subseteq Blocks /\ unlisted' \subseteq Blocks
    BY <1>3 DEF TypeOK
  <2>. QED  BY <1>2, <1>3, <2>1, Zenon DEF TypeOK, drive, position, Faults
<1>t. /\ Len(bb_list) \in Nat /\ bb_list \in Seq(Blocks) /\ bb_count \in 0..last_block
      /\ num_errors \in [Errors -> 0..last_block]
  BY ListTypes DEF TypeOK
<1>4. CASE NewBad(bad) /\ bad \notin Listed
  <2>1. pending' = pending \ {bad} /\ low' = 0 /\ high' = 0
    BY <1>4 DEF NewBad, Reported
  <2>2. SearchInv'
    BY <2>1 DEF SearchInv
  <2>3. CASE /\ bb_list' = ListAdd(bb_list, bad) /\ bb_count' = bb_count + 1
             /\ num_errors' = [num_errors EXCEPT ![error_type] = @ + 1]
             /\ unlisted' = unlisted
    <3>1. /\ bb_list' \in Seq(Blocks) /\ bb_count' \in 0..last_block
          /\ num_errors' \in [Errors -> 0..last_block]
          /\ CountsAgree' /\ Listed' = Listed \cup {bad}
      BY <1>4, <2>3, NewBadEffect
    <3>2. Len(bb_list') \in Nat
      BY <3>1
    <3>3. Flagged' = Flagged
      BY <2>1, <2>3, <3>1 DEF Flagged
    <3>4. TypeOK'
      BY <1>3, <2>1, <2>3, <3>1, <3>2
    <3>. QED  BY <2>1, <2>2, <3>1, <3>3, <3>4
  <2>4. CASE /\ unlisted' = unlisted \cup {bad} /\ bb_list' = bb_list
             /\ bb_count' = bb_count /\ num_errors' = num_errors
    <3>1. Listed' = Listed /\ CountsAgree'
      BY <2>4 DEF Listed, CountsAgree
    <3>2. Flagged' = Flagged
      BY <2>1, <2>4, <3>1 DEF Flagged
    <3>3. TypeOK'
      BY <1>3, <2>1, <2>4, <1>t
    <3>. QED  BY <2>1, <2>2, <3>1, <3>2, <3>3
  <2>. QED  BY <1>4, <2>3, <2>4 DEF NewBad
<1>5. CASE SeenBad(bad) /\ bad \in Listed
  <2>1. /\ pending' = pending \ {bad} /\ low' = 0 /\ high' = 0
        /\ bb_list' = bb_list /\ bb_count' = bb_count /\ num_errors' = num_errors
        /\ unlisted' = unlisted
    BY <1>5 DEF SeenBad, Reported, counts
  <2>2. Listed' = Listed /\ CountsAgree'
    BY <2>1 DEF Listed, CountsAgree
  <2>3. SearchInv'
    BY <2>1 DEF SearchInv
  <2>4. Flagged' = Flagged
    BY <2>1, <2>2, <1>5 DEF Flagged
  <2>5. TypeOK'
    BY <1>3, <2>1, <1>t
  <2>. QED  BY <2>1, <2>2, <2>3, <2>4, <2>5
<1>6. CASE \E l, h \in 1..Len(bb_list) :
              /\ Narrow(l, h) /\ l <= h
              /\ \A i \in DOMAIN bb_list : bb_list[i] = bad => l < i /\ i < h
  <2>0. PICK l \in 1..Len(bb_list), h \in 1..Len(bb_list) :
              /\ Narrow(l, h) /\ l <= h
              /\ \A i \in DOMAIN bb_list : bb_list[i] = bad => l < i /\ i < h
    BY <1>6
  <2>1. /\ pending' = pending /\ low' = l /\ high' = h
        /\ bb_list' = bb_list /\ bb_count' = bb_count /\ num_errors' = num_errors
        /\ unlisted' = unlisted
    BY <2>0 DEF Narrow, counts
  <2>2. Listed' = Listed /\ CountsAgree'
    BY <2>1 DEF Listed, CountsAgree
  <2>3. SearchInv'
    <3>1. \A b \in pending : IsNext(b)' => b = bad
      BY <2>1, <1>1, ListTypes DEF IsNext
    <3>. QED  BY <2>0, <2>1, <3>1, <1>t DEF SearchInv
  <2>4. Flagged' = Flagged
    BY <2>1, <2>2 DEF Flagged
  <2>5. TypeOK'
    BY <1>3, <2>1, <1>t
  <2>. QED  BY <2>1, <2>2, <2>3, <2>4, <2>5
<1>7. pending # {}
  OBVIOUS
<1>. QED
  BY <1>1, <1>4, <1>5, <1>6, <1>7, FindIsRight

-----------------------------------------------------------------------------
\* Every step keeps the invariant.

\* A turn of bb_output (badblocks.c).
LEMMA OutputKeeps ==
    ASSUME Inv, OutputStep
    PROVE  Inv'
<1>1. /\ Flagged' = Flagged /\ pending' \subseteq pending /\ pending # {}
      /\ TypeOK' /\ CountsAgree' /\ SearchInv'
  BY OutputEffect DEF Inv
<1>2. /\ faults' = faults /\ size' = size /\ unix' = unix /\ large_drive' = large_drive
      /\ tlc' = tlc /\ detect_fakes' = detect_fakes /\ disk' = disk /\ pc' = pc
      /\ pat_idx' = pat_idx /\ currently_testing' = currently_testing
      /\ cancel_ops' = cancel_ops /\ result' = result /\ uncompared' = uncompared
  BY DEF OutputStep, drive, position
<1>3. PhaseInv'
  BY <1>1, <1>2 DEF Inv, PhaseInv
<1>4. DriveInv'
  BY <1>2 DEF Inv, DriveInv
<1>5. DiskInv'
  BY <1>2 DEF Inv, DiskInv
<1>6. KeptInv'
  BY <1>2 DEF Inv, KeptInv, Plain, Phased, Number
<1>7. SparedInv'
  BY <1>1, <1>2 DEF Inv, SparedInv, Plain, Phased
<1>10. CleanInv'
  <2>1. ~ Clean
    BY <1>1 DEF Inv, CleanInv, Flagged
  <2>. QED  BY <1>2, <2>1 DEF CleanInv, Clean, MayDeny
<1>8. FoundInv'
  BY <1>1, <1>2 DEF Inv, FoundInv, Passed, ReadOnce
<1>9. FakesInv'
  BY <1>1, <1>2 DEF Inv, FakesInv, ReadOnce, Differs, Content, Phase, Cell
<1>. QED
  BY <1>1, <1>3, <1>4, <1>5, <1>6, <1>7, <1>8, <1>9, <1>10 DEF Inv

\* The list of bad blocks, the arguments and the buffers (test_rw, badblocks.c).
LEMMA BeginKeeps ==
    ASSUME Inv, Begin
    PROVE  Inv'
<1>2. /\ faults' = faults /\ size' = size /\ unix' = unix /\ large_drive' = large_drive
      /\ tlc' = tlc /\ detect_fakes' = detect_fakes /\ disk' = disk
      /\ pat_idx' = pat_idx /\ currently_testing' = currently_testing
      /\ tryout' = tryout /\ recover_block' = recover_block
      /\ pending' = pending /\ error_type' = error_type /\ low' = low /\ high' = high
      /\ bb_list' = bb_list /\ bb_count' = bb_count /\ num_errors' = num_errors
      /\ unlisted' = unlisted
      /\ ErrorStatus' = ErrorStatus /\ uncompared' = uncompared
  BY DEF Begin, drive, position, output, counts
<1>3. /\ pc = "start" /\ pat_idx = 1 /\ pending = {} /\ result = "none"
  BY DEF Begin, Inv, PhaseInv
<1>4. \/ pc' = "write" /\ cancel_ops' = cancel_ops /\ result' = result
      \/ pc' = "out" /\ cancel_ops' = TRUE /\ result' = result
      \/ pc' = "done" /\ result' = "FALSE" /\ cancel_ops' = cancel_ops
  BY DEF Begin
<1>5. TypeOK'
  BY <1>2, <1>4, Zenon DEF Inv, TypeOK
<1>6. CountsAgree' /\ SearchInv' /\ Flagged' = Flagged
  BY <1>2 DEF Inv, CountsAgree, SearchInv, IsNext, Flagged, Listed
<1>7. PhaseInv'
  BY <1>2, <1>3, <1>4 DEF Inv, PhaseInv
<1>8. DriveInv' /\ DiskInv'
  BY <1>2 DEF Inv, DriveInv, DiskInv
<1>9. KeptInv'
  <2>1. \A b \in Blocks : ~ (b < 0)
    BY DEF Blocks
  <2>2. pc' # "read" /\ (pc' = "write" => currently_testing = 0)
    BY <1>4, <1>3 DEF Inv, PhaseInv
  <2>. QED  BY <1>2, <2>1, <2>2 DEF KeptInv
<1>10. SparedInv'
  BY <1>2, <1>6 DEF Inv, SparedInv, Plain, Phased
<1>13. CleanInv'
  <2>1. \A b \in Blocks : ~ (b < 0)
    BY DEF Blocks
  <2>2. pc' # "read" /\ (pc' = "write" => currently_testing = 0)
    BY <1>4, <1>3 DEF Inv, PhaseInv
  <2>. QED  BY <1>2, <1>6, <2>1, <2>2 DEF Inv, CleanInv, Clean, MayDeny
<1>11. ~ ReadOnce' /\ pc' # "read"
  BY <1>2, <1>3, <1>4 DEF ReadOnce
<1>12. FoundInv' /\ FakesInv'
  BY <1>11 DEF FoundInv, FakesInv, Passed
<1>. QED
  BY <1>5, <1>6, <1>7, <1>8, <1>9, <1>10, <1>12, <1>13 DEF Inv

\* Steps that change none but cancel_ops, ErrorStatus, result and the way out.
LEMMA ApartKeeps ==
    ASSUME Inv,
           UNCHANGED <<drive, disk, position, output, counts, uncompared>>,
           TypeOK', PhaseInv',
           pc' # pc => pc' \in {"out", "done"},
           ReadOnce' => ReadOnce
    PROVE  Inv'
<1>2. /\ faults' = faults /\ size' = size /\ unix' = unix /\ large_drive' = large_drive
      /\ tlc' = tlc /\ detect_fakes' = detect_fakes /\ disk' = disk
      /\ pat_idx' = pat_idx /\ currently_testing' = currently_testing
      /\ tryout' = tryout /\ recover_block' = recover_block
      /\ pending' = pending /\ low' = low /\ high' = high
      /\ bb_list' = bb_list /\ bb_count' = bb_count /\ num_errors' = num_errors
      /\ unlisted' = unlisted
      /\ uncompared' = uncompared
  BY DEF drive, position, output, counts
<1>3. pc' = "read" => pc = "read"
  OBVIOUS
<1>4. pc' = "write" => pc = "write"
  OBVIOUS
<1>6. CountsAgree' /\ SearchInv' /\ Flagged' = Flagged
  BY <1>2 DEF Inv, CountsAgree, SearchInv, IsNext, Flagged, Listed
<1>8. DriveInv' /\ DiskInv'
  BY <1>2 DEF Inv, DriveInv, DiskInv
<1>9. KeptInv'
  BY <1>2, <1>3, <1>4 DEF Inv, KeptInv, Plain, Phased, Number
<1>10. SparedInv'
  BY <1>2, <1>6 DEF Inv, SparedInv, Plain, Phased
<1>13. CleanInv'
  BY <1>2, <1>3, <1>4, <1>6 DEF Inv, CleanInv, Clean, MayDeny, Held, Number
<1>11. FoundInv'
  BY <1>2, <1>3, <1>6 DEF Inv, FoundInv, Passed
<1>12. FakesInv'
  BY <1>2, <1>3, <1>6 DEF Inv, FakesInv, Differs, Content, Phase, Cell
<1>. QED
  BY <1>6, <1>8, <1>9, <1>10, <1>11, <1>12, <1>13 DEF Inv

\* A check that is cut short: cancelled, or too many bad blocks (badblocks.c).
LEMMA StopKeeps ==
    ASSUME Inv, Stop
    PROVE  Inv'
<1>1. /\ UNCHANGED <<drive, disk, position, output, counts, uncompared>>
      /\ pc' = "out" /\ cancel_ops' = TRUE /\ ErrorStatus' = ErrorStatus
      /\ result' = result /\ pending = {} /\ pc \in {"write", "read"}
  BY DEF Stop
<1>2. TypeOK'
  BY <1>1, Zenon DEF Inv, TypeOK, drive, position, output, counts
<1>3. PhaseInv'
  BY <1>1 DEF Inv, PhaseInv, position, output
<1>4. ReadOnce' => ReadOnce
  BY <1>1 DEF ReadOnce, position
<1>. QED
  BY <1>1, <1>2, <1>3, <1>4, ApartKeeps

\* BadBlocks returns (badblocks.c).
LEMMA ReturnKeeps ==
    ASSUME Inv, Return
    PROVE  Inv'
<1>1. /\ UNCHANGED <<drive, disk, position, output, counts, uncompared>>
      /\ pc = "out" /\ pc' = "done" /\ cancel_ops' = cancel_ops
      /\ ErrorStatus' = ErrorStatus /\ result' \in {"TRUE", "FALSE"}
      /\ pending = {} /\ result = "none"
  BY DEF Return, Inv, PhaseInv
<1>2. TypeOK'
  BY <1>1, Zenon DEF Inv, TypeOK, drive, position, output, counts
<1>3. PhaseInv'
  BY <1>1 DEF Inv, PhaseInv, position, output
<1>4. ReadOnce' => ReadOnce
  BY <1>1 DEF ReadOnce, position
<1>. QED
  BY <1>1, <1>2, <1>3, <1>4, ApartKeeps

\* The user, the timer of the main window and a check that has returned.
LEMMA CancelKeeps ==
    ASSUME Inv, UserCancel \/ Alarm \/ UNCHANGED vars
    PROVE  Inv'
<1>1. /\ UNCHANGED <<drive, disk, position, output, counts, uncompared>>
      /\ pc' = pc /\ result' = result
      /\ cancel_ops' \in {cancel_ops, TRUE} /\ ErrorStatus' \in {ErrorStatus, TRUE}
  BY DEF UserCancel, Alarm, vars
<1>2. TypeOK'
  <2>1. cancel_ops' \in BOOLEAN /\ ErrorStatus' \in BOOLEAN
    BY <1>1, Zenon DEF Inv, TypeOK
  <2>. QED  BY <1>1, <2>1, Zenon DEF Inv, TypeOK, drive, position, output, counts
<1>3. PhaseInv'
  BY <1>1 DEF Inv, PhaseInv, position, output
<1>4. ReadOnce' => ReadOnce
  <2>1. cancel_ops => cancel_ops'
    BY <1>1, Zenon
  <2>. QED  BY <1>1, <2>1 DEF ReadOnce, position
<1>. QED
  BY <1>1, <1>2, <1>3, <1>4, ApartKeeps

\* No memory holds the numbers of two blocks, so that once the first pass has read
\* all blocks, of two that are the same memory one has been found to differ (the
\* blk_id in test_rw, badblocks.c).
LEMMA FakesDiffer ==
    ASSUME TypeOK, PhaseInv, FakesInv, detect_fakes, size < last_block,
           pc = "read", currently_testing = last_block,
           NEW b \in Blocks, NEW c \in Blocks, b # c, Cell(b) = Cell(c)
    PROVE  b \in Flagged \/ c \in Flagged
<1>1. CASE pat_idx > 1
  BY <1>1 DEF FakesInv, ReadOnce
<1>2. CASE ~ (pat_idx > 1)
  <2>1. pat_idx = 1
    BY <1>2 DEF TypeOK, PhaseInv
  <2>2. b < currently_testing /\ c < currently_testing
    BY BadBlocksAssumption DEF Blocks
  <2>3. Content(b) = <<1, b, 0>> /\ Content(c) = <<1, c, 0>>
    BY <2>1, BadBlocksAssumption DEF Content, Phase
  <2>4. Content(b) # Content(c)
    BY <2>3
  <2>5. Differs(b) \/ Differs(c)
    BY <2>4 DEF Differs
  <2>. QED  BY <2>1, <2>2, <2>5 DEF FakesInv
<1>. QED
  BY <1>1, <1>2

\* From writing to reading, to the next pass or to the end (test_rw, badblocks.c).
LEMMA NextPhaseKeeps ==
    ASSUME Inv, NextPhase
    PROVE  Inv'
<1>2. /\ faults' = faults /\ size' = size /\ unix' = unix /\ large_drive' = large_drive
      /\ tlc' = tlc /\ detect_fakes' = detect_fakes /\ disk' = disk
      /\ recover_block' = recover_block
      /\ pending' = pending /\ error_type' = error_type /\ low' = low /\ high' = high
      /\ bb_list' = bb_list /\ bb_count' = bb_count /\ num_errors' = num_errors
      /\ unlisted' = unlisted
      /\ cancel_ops' = cancel_ops /\ ErrorStatus' = ErrorStatus
      /\ result' = result /\ uncompared' = uncompared
      /\ currently_testing = last_block /\ currently_testing' = 0
      /\ tryout' = BLOCKS_AT_ONCE /\ pending = {}
  BY DEF NextPhase, drive, output, counts
<1>3. \/ pc = "write" /\ pc' = "read" /\ pat_idx' = pat_idx
      \/ pc = "read" /\ pat_idx < nb_passes /\ pc' = "write" /\ pat_idx' = pat_idx + 1
      \/ pc = "read" /\ pc' = "out" /\ pat_idx' = pat_idx
  BY DEF NextPhase
<1>p. pat_idx \in 0..nb_passes /\ nb_passes \in Nat /\ pat_idx >= 1
  BY BadBlocksAssumption DEF Inv, TypeOK, PhaseInv
<1>4. pat_idx' \in 0..nb_passes /\ pat_idx' >= 1
  BY <1>3, <1>p
<1>b. \A b \in Blocks : b < last_block /\ ~ (b < 0)
  BY BadBlocksAssumption DEF Blocks
<1>5. TypeOK'
  <2>1. currently_testing' \in 0..last_block /\ tryout' \in 1..BLOCKS_AT_ONCE
    BY <1>2, BadBlocksAssumption
  <2>2. pc' \in {"start", "write", "read", "out", "done"}
    BY <1>3
  <2>. QED  BY <1>2, <1>4, <2>1, <2>2, Zenon DEF Inv, TypeOK
<1>6. CountsAgree' /\ SearchInv' /\ Flagged' = Flagged
  BY <1>2 DEF Inv, CountsAgree, SearchInv, IsNext, Flagged, Listed
<1>7. PhaseInv'
  BY <1>2, <1>3, <1>4 DEF Inv, PhaseInv
<1>8. DriveInv' /\ DiskInv'
  BY <1>2 DEF Inv, DriveInv, DiskInv
<1>9. KeptInv'
  BY <1>2, <1>3, <1>b DEF Inv, KeptInv, Plain, Phased, Number
<1>10. SparedInv'
  <2>1. Phased => Phased'
    BY <1>2, <1>3, <1>p, BadBlocksAssumption DEF Phased
  <2>. QED  BY <1>2, <1>6, <2>1 DEF Inv, SparedInv, Plain
<1>13. CleanInv'
  <2>1. SUFFICES ASSUME Clean PROVE CleanInv'
    BY <1>2 DEF CleanInv, Clean, MayDeny
  <2>2. Start(0)
    <3>1. 0 \in 0..0 /\ 0 = 0 * BLOCKS_AT_ONCE
      BY BadBlocksAssumption
    <3>. QED  BY <3>1 DEF Start
  <2>3. CASE pc = "write" /\ pc' = "read" /\ pat_idx' = pat_idx
    BY <1>2, <1>6, <1>b, <2>1, <2>2, <2>3 DEF Inv, CleanInv, Held, Number
  <2>4. CASE pc' # "read"
    BY <1>2, <1>6, <1>b, <2>1, <2>2, <2>4 DEF Inv, CleanInv
  <2>. QED  BY <1>3, <2>3, <2>4
<1>11. FoundInv'
  <2>1. CASE pc = "read"
    BY <1>2, <1>6, <1>b, <2>1 DEF Inv, FoundInv, Passed
  <2>2. CASE pc = "write" /\ pc' = "read" /\ pat_idx' = pat_idx
    <3>1. \A b \in Blocks : Passed(b)' => Passed(b)
      BY <1>2, <1>b, <2>2 DEF Passed, ReadOnce
    <3>. QED  BY <1>2, <1>6, <3>1 DEF Inv, FoundInv
  <2>. QED  BY <1>3, <2>1, <2>2
<1>12. FakesInv'
  <2>1. CASE pc = "read"
    <3>1. pc' # "read"
      BY <1>3, <2>1
    <3>2. ASSUME detect_fakes, size < last_block, NEW b \in Blocks, NEW c \in Blocks,
                 b # c, Cell(b) = Cell(c)
          PROVE  b \in Flagged \/ c \in Flagged
      BY <1>2, <2>1, <3>2, FakesDiffer DEF Inv
    <3>. QED  BY <1>2, <1>6, <3>1, <3>2 DEF FakesInv, Cell
  <2>2. CASE pc = "write" /\ pc' = "read" /\ pat_idx' = pat_idx
    <3>1. ReadOnce' => ReadOnce
      BY <2>2 DEF ReadOnce
    <3>. QED  BY <1>2, <1>6, <1>b, <3>1 DEF Inv, FakesInv, Cell
  <2>. QED  BY <1>3, <2>1, <2>2
<1>. QED
  BY <1>5, <1>6, <1>7, <1>8, <1>9, <1>10, <1>11, <1>12, <1>13 DEF Inv

\* A request to write (test_rw, badblocks.c).
LEMMA WriteKeeps ==
    ASSUME Inv, WriteStep
    PROVE  Inv'
<1> DEFINE n == Try
           ct == currently_testing
<1>0. PICK got \in DoWrite(n) :
           /\ disk' = DiskAfter(Written(n)) /\ Advance(got, n)
           /\ IF FailsAlone(got, n) THEN Report({ct}, "WRITE_ERROR")
              ELSE UNCHANGED <<output, counts>>
  BY DEF WriteStep
<1> DEFINE alone == FailsAlone(got, n)
<1>1. /\ pc = "write" /\ pending = {} /\ ct < last_block
      /\ disk' = DiskAfter(Written(n)) /\ Advance(got, n)
      /\ IF alone THEN Report({ct}, "WRITE_ERROR") ELSE UNCHANGED <<output, counts>>
  BY <1>0 DEF WriteStep
<1>2. /\ faults' = faults /\ size' = size /\ unix' = unix /\ large_drive' = large_drive
      /\ tlc' = tlc /\ detect_fakes' = detect_fakes /\ pc' = pc /\ pat_idx' = pat_idx
      /\ cancel_ops' = cancel_ops /\ ErrorStatus' = ErrorStatus
      /\ result' = result /\ uncompared' = uncompared
  BY DEF WriteStep, drive
<1>3. /\ bb_list' = bb_list /\ bb_count' = bb_count /\ num_errors' = num_errors
      /\ unlisted' = unlisted
      /\ low' = low /\ high' = high
      /\ pending' = IF alone THEN {ct} ELSE {}
      /\ error_type' \in Errors
  BY <1>1 DEF Inv, TypeOK, Report, output, counts, Errors
<1>t. /\ ct \in 0..last_block /\ tryout \in 1..BLOCKS_AT_ONCE
      /\ recover_block \in {NOWHERE} \cup 0..(last_block + BLOCKS_AT_ONCE)
      /\ faults \in [Blocks -> Faults] /\ size \in 1..last_block
      /\ pat_idx \in 0..nb_passes /\ disk \in [Blocks -> Contents]
  BY DEF Inv, TypeOK, Contents
<1>u. unix \in BOOLEAN
  BY Zenon DEF Inv, TypeOK
<1>4. /\ n \in 1..BLOCKS_AT_ONCE /\ ct + n <= last_block
      /\ \A b \in Span(n) : b \in Blocks /\ b >= ct /\ b < ct + n
      /\ \A b \in Blocks : b < ct \/ b >= ct + n \/ b \in Span(n)
  <2>1. n \in 1..BLOCKS_AT_ONCE /\ n \in 0..n
    BY <1>1, <1>t, RequestFits, BadBlocksAssumption
  <2>. QED  BY <1>1, <1>t, <2>1, RequestFits
<1>n. n \in Nat \ {0} /\ ct \in Nat /\ last_block \in Nat
  BY <1>4, <1>t, BadBlocksAssumption
<1>5. /\ got \in {0, n}
      /\ (~ unix /\ got = n) => Written(n) = Span(n)
      /\ (~ MayDeny /\ got = 0) => ~ unix /\ Written(n) # Span(n)
      /\ (~ MayDeny /\ alone) => n = 1 /\ faults[ct] = "write"
      /\ alone => n = 1 /\ got = 0
  <2>1. alone => got = 0
    BY DEF FailsAlone
  <2> HIDE DEF n
  <2>. QED  BY <1>n, <1>t, <1>u, <2>1, WriteReturns
<1>w. Written(n) \subseteq Span(n) /\ \A b \in Written(n) : faults[b] # "write"
  <2>1. \A b \in Span(n) : b \in Int
    BY <1>t DEF Span
  <2>. QED  BY <2>1 DEF Written, Before
<1> HIDE DEF n
<1>6. /\ ct' = IF alone THEN ct + 1 ELSE ct + got
      /\ ct' \in 0..last_block /\ tryout' \in 1..BLOCKS_AT_ONCE
      /\ recover_block' \in {NOWHERE} \cup 0..(last_block + BLOCKS_AT_ONCE)
  <2>1. got \in 0..n
    BY <1>5, <1>n
  <2>. QED  BY <1>1, <1>t, <1>4, <2>1, AdvanceMoves
<1> HIDE DEF alone
<1>7. TypeOK'
  <2>1. disk' \in [Blocks -> Contents]
    <3>1. Written(n) \subseteq Blocks
      BY <1>w, <1>4
    <3>2. ct \in Int
      BY <1>n
    <3>. QED  BY <1>1, <1>t, <3>1, <3>2, DiskType
  <2>2. pending' \subseteq Blocks
    BY <1>3, <1>n, <1>1 DEF Blocks
  <2>3. low' \in 0..Len(bb_list') /\ high' \in 0..Len(bb_list')
    BY <1>3 DEF Inv, TypeOK
  <2>. QED  BY <1>2, <1>3, <1>6, <2>1, <2>2, <2>3, Zenon DEF Inv, TypeOK, Contents
<1>s. low = 0 /\ high = 0
  BY <1>1 DEF Inv, SearchInv
<1>8. CountsAgree' /\ SearchInv' /\ Listed' = Listed
  BY <1>3, <1>s DEF Inv, CountsAgree, SearchInv, Listed
<1>9. PhaseInv' /\ DriveInv'
  BY <1>1, <1>2 DEF Inv, PhaseInv, DriveInv
<1>10. DiskInv'
  <2>1. SUFFICES ASSUME NEW b \in Blocks, faults[b] \in {"write", "keep"}
                 PROVE  disk'[b] \in {BLANK, SPOILT}
    BY <1>2 DEF DiskInv
  <2>2. size = last_block
    BY <2>1, <1>t, <1>n DEF Inv, DriveInv
  <2>3. disk'[b] = IF b \notin Written(n) THEN disk[b]
                   ELSE IF faults[b] = "keep" THEN SPOILT ELSE Content(b)
    <3>1. Written(n) \subseteq Blocks
      BY <1>w, <1>4
    <3>. QED  BY <1>1, <2>2, <3>1, DiskWritten
  <2>4. disk[b] \in {BLANK, SPOILT}
    BY <2>1 DEF Inv, DiskInv
  <2>. QED  BY <2>1, <2>3, <2>4, <1>w
<1>11. KeptInv'
  <2>0. SUFFICES ASSUME Plain, NEW b \in Blocks, faults[b] = "none", b < ct'
                 PROVE  disk'[b] = <<pat_idx, Number(b), 0>>
    BY <1>1, <1>2 DEF KeptInv, Plain, Phased, Number
  <2>1. /\ ~ unix /\ ~ MayDeny /\ size = last_block /\ faults[b] = "none" /\ b < ct'
        /\ Content(b) = <<pat_idx, Number(b), 0>>
    <3>1. pat_idx \in Nat
      BY <1>t, BadBlocksAssumption
    <3>. QED  BY <2>0, <3>1, PlainContent DEF Plain, MayDeny
  <2>2. disk'[b] = IF b \notin Written(n) THEN disk[b] ELSE Content(b)
    <3>1. Written(n) \subseteq Blocks
      BY <1>w, <1>4
    <3>. QED  BY <1>1, <2>1, <3>1, DiskWritten
  <2>3. CASE b < ct
    BY <2>0, <2>1, <2>2, <2>3, <1>1 DEF Inv, KeptInv
  <2>4. CASE ~ (b < ct)
    <3>1. ~ alone
      BY <2>1, <2>4, <1>5, <1>6, <1>n DEF Blocks
    <3>2. got = n
      BY <3>1, <2>1, <2>4, <1>5, <1>6, <1>n
    <3>3. b \in Span(n)
      BY <3>1, <3>2, <2>1, <2>4, <1>4, <1>6, <1>n DEF Blocks
    <3>. QED  BY <3>2, <3>3, <2>1, <2>2, <1>5
  <2>. QED  BY <2>3, <2>4
<1>12. SparedInv'
  <2>1. Plain /\ alone => faults[ct] # "none"
    BY <1>5 DEF Plain, MayDeny
  <2>. QED  BY <1>1, <1>2, <1>3, <1>8, <2>1 DEF Inv, SparedInv, Plain, Phased, Flagged
<1>16. CleanInv'
  <2>1. SUFFICES ASSUME Clean PROVE CleanInv'
    BY <1>2 DEF CleanInv, Clean, MayDeny
  <2>2. Written(n) = Span(n) /\ Span(n) \subseteq Blocks
    BY <2>1, <1>4 DEF Clean, Written, Before
  <2>3. got = n /\ ~ alone
    BY <2>1, <2>2, <1>5, <1>n DEF Clean
  <2>4. /\ tryout = BLOCKS_AT_ONCE /\ Start(ct) /\ recover_block = NOWHERE
        /\ Flagged = {}
    <3>1. ct # last_block
      BY <1>1, <1>n
    <3>. QED  BY <2>1, <3>1 DEF Inv, CleanInv
  <2>5. n = BLOCKS_AT_ONCE \/ ct + n = last_block
    BY <2>4, <1>n, BadBlocksAssumption DEF n, Try
  <2>6. ct' = ct + n /\ recover_block' = NOWHERE /\ tryout' = n
    <3>1. ct + n # NOWHERE
      BY <1>n DEF NOWHERE
    <3>2. ct' = ct + n
      BY <1>6, <2>3
    <3>. QED  BY <1>1, <2>3, <2>4, <3>1, <3>2 DEF Advance
  <2>7. ct' = last_block \/ (tryout' = BLOCKS_AT_ONCE /\ Start(ct'))
    BY <2>4, <2>5, <2>6, <1>n, StartsFollow
  <2>8. Flagged' = {}
    BY <1>3, <1>8, <2>3, <2>4 DEF Flagged
  <2>9. ASSUME NEW b \in Blocks, b < ct'
        PROVE  \E s \in 0..b : Start(s) /\ b < s + BLOCKS_AT_ONCE /\ disk'[b] = Held(s, b)
    <3>1. disk'[b] = IF b \notin Span(n) THEN disk[b] ELSE Content(b)
      BY <1>1, <2>1, <2>2, DiskWritten DEF Clean
    <3>2. CASE b < ct
      <4>1. b \notin Span(n)
        BY <3>2, <1>4, <1>n DEF Blocks
      <4>. QED  BY <3>1, <3>2, <4>1, <2>1, <1>1 DEF Inv, CleanInv
    <3>3. CASE ~ (b < ct)
      <4>1. b \in Span(n) /\ ct \in 0..b /\ b < ct + BLOCKS_AT_ONCE
        BY <3>3, <2>6, <2>9, <1>4, <1>n, BadBlocksAssumption DEF Blocks
      <4>2. Content(b) = Held(ct, b)
        BY DEF Content, Phase, Held, Number
      <4>. QED  BY <3>1, <4>1, <4>2, <2>4
    <3>. QED  BY <3>2, <3>3
  <2>10. \A s, b : Held(s, b)' = Held(s, b)
    BY <1>2 DEF Held, Number
  <2>. QED  BY <1>1, <1>2, <2>6, <2>7, <2>8, <2>9, <2>10 DEF CleanInv
<1>13. Flagged \subseteq Flagged'
  BY <1>1, <1>3, <1>8 DEF Flagged
<1>14. FoundInv'
  BY <1>1, <1>2, <1>13 DEF Inv, FoundInv, Passed, ReadOnce
<1>15. FakesInv'
  BY <1>1, <1>2, <1>13 DEF Inv, FakesInv, ReadOnce, Cell
<1>. QED
  BY <1>7, <1>8, <1>9, <1>10, <1>11, <1>12, <1>14, <1>15, <1>16 DEF Inv

\* A request to read: what was read whole is compared (test_rw, badblocks.c).
LEMMA ReadKeeps ==
    ASSUME Inv, ReadStep
    PROVE  Inv'
<1> DEFINE n == Try
           ct == currently_testing
<1>0. PICK got \in DoRead(n) :
           /\ Advance(got, n)
           /\ IF FailsAlone(got, n)
              THEN Report({ct}, "READ_ERROR") /\ uncompared' = uncompared
              ELSE IF got # n
              THEN /\ UNCHANGED <<output, counts>>
                   /\ uncompared' = uncompared \cup Span(got)
              ELSE /\ Report({b \in Span(got) : Differs(b)}, "CORRUPTION_ERROR")
                   /\ uncompared' = uncompared
  BY DEF ReadStep
<1>1. /\ pc = "read" /\ pending = {} /\ ct < last_block
  BY DEF ReadStep
<1>2. /\ faults' = faults /\ size' = size /\ unix' = unix /\ large_drive' = large_drive
      /\ tlc' = tlc /\ detect_fakes' = detect_fakes /\ pc' = pc /\ pat_idx' = pat_idx
      /\ cancel_ops' = cancel_ops /\ ErrorStatus' = ErrorStatus
      /\ result' = result /\ disk' = disk
  BY DEF ReadStep, drive
<1> DEFINE alone == FailsAlone(got, n)
           wrong == {b \in Span(n) : Differs(b)}
<1>3. /\ bb_list' = bb_list /\ bb_count' = bb_count /\ num_errors' = num_errors
      /\ unlisted' = unlisted
      /\ low' = low /\ high' = high
      /\ pending' = IF alone THEN {ct} ELSE IF got # n THEN {} ELSE wrong
      /\ error_type' \in Errors
      /\ uncompared' = IF ~ alone /\ got # n THEN uncompared \cup Span(got)
                       ELSE uncompared
  BY <1>0, <1>1 DEF Inv, TypeOK, Report, output, counts, Errors
<1>t. /\ ct \in 0..last_block /\ tryout \in 1..BLOCKS_AT_ONCE
      /\ recover_block \in {NOWHERE} \cup 0..(last_block + BLOCKS_AT_ONCE)
      /\ faults \in [Blocks -> Faults] /\ size \in 1..last_block
      /\ pat_idx \in 0..nb_passes /\ pat_idx >= 1
      /\ uncompared \subseteq Blocks
  BY DEF Inv, TypeOK, PhaseInv
<1>4. /\ n \in 1..BLOCKS_AT_ONCE /\ ct + n <= last_block
      /\ \A m \in 0..n : \A b \in Span(m) : b \in Blocks /\ b >= ct /\ b < ct + m
      /\ \A m \in 0..n : \A b \in Blocks : b < ct \/ b >= ct + m \/ b \in Span(m)
  BY <1>1, <1>t, RequestFits
<1>n. n \in Nat \ {0} /\ n \in 0..n /\ ct \in Nat /\ last_block \in Nat
  BY <1>4, <1>t, BadBlocksAssumption
<1>5. /\ got \in 0..n
      /\ got = n => \A b \in Span(n) : faults[b] # "read"
      /\ alone => n = 1 /\ got = 0 /\ faults[ct] = "read"
  <2>1. alone => got = 0
    BY DEF FailsAlone
  <2> HIDE DEF n
  <2>. QED  BY <1>n, <2>1, ReadReturns
<1> HIDE DEF n
<1>6. /\ ct' = IF alone THEN ct + 1 ELSE ct + got
      /\ ct' \in 0..last_block /\ tryout' \in 1..BLOCKS_AT_ONCE
      /\ recover_block' \in {NOWHERE} \cup 0..(last_block + BLOCKS_AT_ONCE)
  BY <1>0, <1>t, <1>4, <1>5, AdvanceMoves
<1> HIDE DEF alone, wrong
<1>7. TypeOK'
  <2>1. wrong \subseteq Blocks /\ Span(got) \subseteq Blocks /\ ct \in Blocks
    BY <1>1, <1>4, <1>5, <1>n DEF wrong, Blocks
  <2>2. pending' \subseteq Blocks
    BY <1>3, <2>1
  <2>3. low' \in 0..Len(bb_list') /\ high' \in 0..Len(bb_list')
    BY <1>3 DEF Inv, TypeOK
  <2>4. uncompared' \subseteq Blocks
    BY <1>3, <1>t, <2>1
  <2>. QED  BY <1>2, <1>3, <1>6, <2>2, <2>3, <2>4, Zenon DEF Inv, TypeOK
<1>s. low = 0 /\ high = 0
  BY <1>1 DEF Inv, SearchInv
<1>8. CountsAgree' /\ SearchInv' /\ Listed' = Listed
  BY <1>3, <1>s DEF Inv, CountsAgree, SearchInv, Listed
<1>9. PhaseInv' /\ DriveInv' /\ DiskInv' /\ KeptInv'
  BY <1>1, <1>2 DEF Inv, PhaseInv, DriveInv, DiskInv, KeptInv, Plain, Phased, Number
<1>10. Flagged \subseteq Flagged' /\ pending' \subseteq Flagged'
  BY <1>1, <1>3, <1>8 DEF Flagged
<1>11. SparedInv'
  <2>1. SUFFICES ASSUME Plain, NEW b \in pending'
                 PROVE  faults[b] # "none"
    BY <1>2, <1>3, <1>8 DEF Inv, SparedInv, Plain, Phased, Flagged
  <2>2. CASE alone
    BY <2>1, <2>2, <1>3, <1>5
  <2>3. CASE ~ alone
    <3>1. b \in wrong
      BY <2>1, <2>3, <1>3
    <3>2. b \in Blocks /\ disk[Cell(b)] # Content(b)
      BY <3>1, <1>4, <1>n DEF wrong, Differs
    <3>3. disk[b] # <<pat_idx, Number(b), 0>>
      <4>1. pat_idx \in Nat
        BY <1>t, BadBlocksAssumption
      <4>. QED  BY <3>2, <4>1, <2>1, OwnCell, PlainContent DEF Plain
    <3>. QED  BY <3>2, <3>3, <2>1, <1>1 DEF Inv, KeptInv
  <2>. QED  BY <2>2, <2>3
<1>14. CleanInv'
  <2>1. SUFFICES ASSUME Clean PROVE CleanInv'
    BY <1>2 DEF CleanInv, Clean, MayDeny
  <2>2. got = n /\ ~ alone
    <3>1. \A c \in Blocks : faults[c] = "none"
      BY <2>1 DEF Clean
    <3>2. Before("read", n) = Span(n)
      BY <3>1, <1>4, <1>n DEF Before
    <3>3. Readable(n) = n
      <4>1. /\ ct \in Int /\ ct + n - 1 \in Int /\ ~ (ct > ct + n - 1)
            /\ (ct + n - 1) - ct + 1 = n
        BY <1>n
      <4>. QED  BY <3>2, <4>1, FS_Interval DEF Readable, Span
    <3>4. got = n
      BY <3>3 DEF DoRead
    <3>. QED  BY <3>4, <1>5, <1>n
  <2>3. /\ tryout = BLOCKS_AT_ONCE /\ Start(ct) /\ recover_block = NOWHERE
        /\ Flagged = {}
    <3>1. ct # last_block
      BY <1>1, <1>n
    <3>. QED  BY <2>1, <3>1 DEF Inv, CleanInv
  <2>4. n = BLOCKS_AT_ONCE \/ ct + n = last_block
    BY <2>3, <1>n, BadBlocksAssumption DEF n, Try
  <2>5. ct' = ct + n /\ recover_block' = NOWHERE /\ tryout' = n
    <3>1. ct + n # NOWHERE
      BY <1>n DEF NOWHERE
    <3>2. ct' = ct + n
      BY <1>6, <2>2
    <3>. QED  BY <1>0, <2>2, <2>3, <3>1, <3>2 DEF Advance
  <2>6. ct' = last_block \/ (tryout' = BLOCKS_AT_ONCE /\ Start(ct'))
    BY <2>3, <2>4, <2>5, <1>n, StartsFollow
  <2>7. ASSUME NEW b \in Span(n) PROVE ~ Differs(b)
    <3>1. b \in Blocks /\ b \in Nat /\ ct <= b /\ b < ct + BLOCKS_AT_ONCE
      BY <1>4, <1>n, BadBlocksAssumption DEF Blocks
    <3>2. PICK s \in 0..b : Start(s) /\ b < s + BLOCKS_AT_ONCE /\ disk[b] = Held(s, b)
      BY <3>1, <2>1, <1>1 DEF Inv, CleanInv
    <3>3. s \in Nat /\ s <= b
      BY <3>1
    <3>4. s = ct
      BY <2>3, <3>1, <3>2, <3>3, <1>n, StartsApart
    <3>5. Content(b) = Held(ct, b)
      BY DEF Content, Phase, Held, Number
    <3>. QED  BY <3>1, <3>2, <3>4, <3>5, <2>1, OwnCell DEF Differs, Clean
  <2>8. Flagged' = {}
    BY <1>3, <1>8, <2>2, <2>3, <2>7 DEF Flagged, wrong
  <2>9. \A s, b : Held(s, b)' = Held(s, b)
    BY <1>2 DEF Held, Number
  <2>. QED  BY <1>1, <1>2, <2>1, <2>5, <2>6, <2>8, <2>9 DEF Inv, CleanInv
<1>12. FoundInv'
  <2>1. SUFFICES ASSUME NEW b \in Blocks, faults[b] # "none", Passed(b)'
                 PROVE  b \in Flagged' \cup uncompared'
    BY <1>2 DEF FoundInv
  <2>2. uncompared \subseteq uncompared'
    BY <1>3
  <2>3. CASE Passed(b)
    BY <2>1, <2>2, <2>3, <1>10 DEF Inv, FoundInv
  <2>4. CASE ~ Passed(b)
    <3>1. b < ct' /\ ~ (b < ct) /\ b \in Int /\ b >= ct
      BY <2>1, <2>4, <1>1, <1>2, <1>n DEF Passed, ReadOnce, Blocks
    <3>2. CASE alone
      <4>1. b = ct
        BY <3>1, <3>2, <1>6, <1>n
      <4>. QED  BY <4>1, <3>2, <1>3, <1>10
    <3>3. CASE ~ alone /\ got # n
      <4>1. b \in Span(got)
        BY <3>1, <3>3, <1>4, <1>5, <1>6, <1>n
      <4>. QED  BY <4>1, <3>3, <1>3
    <3>4. CASE ~ alone /\ got = n
      <4>1. b \in Span(n)
        BY <3>1, <3>4, <1>4, <1>5, <1>6, <1>n
      <4>2. faults[b] \in {"write", "keep"}
        BY <4>1, <3>4, <2>1, <1>5, <1>t DEF Faults
      <4>3. disk[b] \in {BLANK, SPOILT}
        BY <4>2 DEF Inv, DiskInv
      <4>4. size = last_block
        BY <2>1, <1>t, <1>n DEF Inv, DriveInv
      <4>5. Differs(b)
        BY <4>3, <4>4, <1>t, OwnCell DEF Differs, Content, BLANK, SPOILT
      <4>. QED  BY <4>1, <4>5, <3>4, <1>3, <1>10 DEF wrong
    <3>. QED  BY <3>2, <3>3, <3>4
  <2>. QED  BY <2>3, <2>4
<1>13. FakesInv'
  <2>1. ReadOnce' => ReadOnce
    BY <1>2 DEF ReadOnce
  <2>2. ASSUME detect_fakes, size < last_block, pat_idx = 1, NEW b \in Blocks,
               b < ct', Differs(b)
        PROVE  b \in Flagged'
    <3>1. CASE b < ct
      BY <2>2, <3>1, <1>1, <1>10 DEF Inv, FakesInv
    <3>2. CASE ~ (b < ct)
      <4>1. \A c \in Blocks : faults[c] = "none"
        BY <2>2 DEF Inv, DriveInv
      <4>2. ~ alone /\ got = n
        <5>1. ~ alone
          BY <4>1, <1>5, <1>1, <1>n DEF Blocks
        <5>2. Before("read", n) = Span(n)
          BY <4>1, <1>4, <1>n DEF Before
        <5>3. Readable(n) = n
          <6>1. /\ ct \in Int /\ ct + n - 1 \in Int /\ ~ (ct > ct + n - 1)
                /\ (ct + n - 1) - ct + 1 = n
            BY <1>n
          <6>. QED  BY <5>2, <6>1, FS_Interval DEF Readable, Span
        <5>. QED  BY <5>1, <5>3 DEF DoRead
      <4>3. b \in Span(n)
        BY <2>2, <3>2, <4>2, <1>4, <1>6, <1>n DEF Blocks
      <4>. QED  BY <4>2, <4>3, <2>2, <1>3, <1>10 DEF wrong
    <3>. QED  BY <3>1, <3>2
  <2>3. pat_idx = 1 => \A b \in Blocks : Differs(b)' <=> Differs(b)
    BY <1>2, BadBlocksAssumption DEF Differs, Content, Phase, Cell
  <2>. QED  BY <1>2, <1>10, <2>1, <2>2, <2>3 DEF Inv, FakesInv, Cell
<1>. QED
  BY <1>7, <1>8, <1>9, <1>11, <1>12, <1>13, <1>14 DEF Inv

-----------------------------------------------------------------------------
\* Every step of the check leaves less to do.

\* What the measure is made of.
LEMMA MeasureTypes ==
    ASSUME Inv
    PROVE  /\ nb_passes \in Nat /\ last_block \in Nat /\ BLOCKS_AT_ONCE \in Nat
           /\ pat_idx \in Nat /\ pat_idx >= 1 /\ pat_idx <= nb_passes
           /\ currently_testing \in 0..last_block /\ tryout \in 1..BLOCKS_AT_ONCE
           /\ recover_block \in {NOWHERE} \cup 0..(last_block + BLOCKS_AT_ONCE)
           /\ pc \in {"start", "write", "read", "out", "done"}
           /\ pc = "start" => pat_idx = 1
  BY BadBlocksAssumption DEF Inv, TypeOK, PhaseInv

\* A request that has moved on leaves fewer blocks; one that has not, because it
\* failed as a whole, is followed by requests of one block (test_rw, badblocks.c).
LEMMA AdvanceProgresses ==
    ASSUME Inv, currently_testing < last_block, NEW got \in 0..Try, Advance(got, Try),
           pc \in {"write", "read"}, pc' = pc, pat_idx' = pat_idx
    PROVE  LessLeft
<1>t. /\ last_block \in Nat /\ BLOCKS_AT_ONCE \in Nat
      /\ currently_testing \in 0..last_block /\ tryout \in 1..BLOCKS_AT_ONCE
      /\ recover_block \in {NOWHERE} \cup 0..(last_block + BLOCKS_AT_ONCE)
  BY MeasureTypes
<1>1. Try \in 1..BLOCKS_AT_ONCE /\ currently_testing + Try <= last_block
  BY <1>t, RequestFits
<1>2. Try <= tryout
  BY <1>t DEF Try
<1>3. PhasesLeft' = PhasesLeft
  BY DEF PhasesLeft
<1>4. currently_testing' = IF FailsAlone(got, Try) THEN currently_testing + 1
                           ELSE currently_testing + got
  BY <1>t, <1>1, AdvanceMoves
<1>5. CASE FailsAlone(got, Try) \/ got > 0
  <2>1. currently_testing' > currently_testing
    BY <1>4, <1>5, <1>t
  <2>2. BlocksLeft' < BlocksLeft
    BY <1>4, <1>5, <1>t DEF BlocksLeft
  <2>. QED  BY <1>3, <2>2 DEF LessLeft
<1>6. CASE ~ (FailsAlone(got, Try) \/ got > 0)
  <2>1. got = 0 /\ got # Try /\ tryout > 1
    BY <1>1, <1>2, <1>6, <1>t DEF FailsAlone
  <2>2. tryout' = 1
    BY <2>1 DEF Advance
  <2>3. BlocksLeft' = BlocksLeft
    BY <1>4, <1>6, <2>1, <1>t DEF BlocksLeft
  <2>. QED  BY <1>3, <2>1, <2>2, <2>3 DEF LessLeft, RequestsLess
<1>. QED
  BY <1>5, <1>6

\* A turn of bb_output is done with a block or has narrowed the search for it.
LEMMA OutputProgresses ==
    ASSUME Inv, OutputStep
    PROVE  LessLeft
<1>1. PICK bad \in pending :
           /\ IsNext(bad)
           /\ (low = 0 /\ FindEnds(bad)) \/ (low # 0 /\ FindBetween(bad))
  BY DEF OutputStep
<1>2. pc' = pc /\ pat_idx' = pat_idx /\ currently_testing' = currently_testing
      /\ tryout' = tryout
  BY DEF OutputStep, position
<1>3. PhasesLeft' = PhasesLeft /\ BlocksLeft' = BlocksLeft
  BY <1>2 DEF PhasesLeft, BlocksLeft
<1>4. SUFFICES ReportsLess
  BY <1>2, <1>3 DEF LessLeft, RequestsLess
<1>5. CASE Reported(bad)
  BY <1>5 DEF ReportsLess, Reported
<1>t. /\ low \in Nat /\ high \in Nat /\ Len(bb_list) \in Nat
      /\ Len(bb_list) <= last_block /\ last_block \in Nat
      /\ bb_list = <<>> <=> Len(bb_list) = 0
  BY ListTypes, ListFits, BadBlocksAssumption DEF Inv
<1>6. CASE low = 0 /\ bb_list # <<>> /\ Narrow(1, Len(bb_list))
  <2>1. pending' = pending /\ low' = 1 /\ high' = Len(bb_list) /\ Len(bb_list) >= 1
    BY <1>6, <1>t DEF Narrow
  <2>2. SearchLeft = last_block /\ SearchLeft' = Len(bb_list) - 1
    BY <1>6, <2>1 DEF SearchLeft
  <2>. QED  BY <2>1, <2>2, <1>t DEF ReportsLess
<1>7. CASE low # 0 /\ \E l, h \in Nat : Narrow(l, h) /\ l # 0 /\ h - l < high - low
  <2>1. PICK l \in Nat, h \in Nat : Narrow(l, h) /\ l # 0 /\ h - l < high - low
    BY <1>7
  <2>2. pending' = pending /\ low' = l /\ high' = h
    BY <2>1 DEF Narrow
  <2>3. SearchLeft = high - low /\ SearchLeft' = h - l
    BY <1>7, <2>1, <2>2 DEF SearchLeft
  <2>. QED  BY <2>1, <2>2, <2>3 DEF ReportsLess
<1>8. CASE low = 0 /\ FindEnds(bad)
  BY <1>5, <1>6, <1>8 DEF FindEnds, NewBad, SeenBad
<1>9. CASE low # 0 /\ FindBetween(bad)
  <2> DEFINE mid == (low + high) \div 2
  <2>0. mid \in Nat /\ 2 * mid <= low + high /\ low + high <= 2 * mid + 1
    BY <1>t
  <2>1. \/ NewBad(bad) \/ SeenBad(bad)
        \/ /\ low < high /\ mid # low /\ mid # high
           /\ Narrow(low, mid) \/ Narrow(mid, high)
    BY <1>9, Zenon DEF FindBetween
  <2> HIDE DEF mid
  <2>2. CASE NewBad(bad) \/ SeenBad(bad)
    BY <2>2, <1>5 DEF NewBad, SeenBad
  <2>3. CASE /\ low < high /\ mid # low /\ mid # high
             /\ Narrow(low, mid) \/ Narrow(mid, high)
    <3>1. low < mid /\ mid < high /\ mid - low < high - low /\ high - mid < high - low
          /\ mid # 0
      BY <2>0, <2>3, <1>t
    <3>. QED  BY <3>1, <2>0, <2>3, <1>7, <1>9, <1>t
  <2>. QED  BY <2>1, <2>2, <2>3
<1>. QED
  BY <1>1, <1>8, <1>9

\* Any step of test_rw (badblocks.c).
LEMMA TestProgresses ==
    ASSUME Inv, Begin \/ WriteStep \/ ReadStep \/ OutputStep \/ NextPhase \/ Stop \/ Return
    PROVE  LessLeft
<1>t. /\ nb_passes \in Nat /\ pat_idx \in Nat /\ pat_idx >= 1 /\ pat_idx <= nb_passes
      /\ last_block \in Nat /\ BLOCKS_AT_ONCE \in Nat
      /\ currently_testing \in 0..last_block /\ tryout \in 1..BLOCKS_AT_ONCE
      /\ pc = "start" => pat_idx = 1
  BY MeasureTypes
<1>1. CASE Begin
  <2>1. pc = "start" /\ pc' \in {"write", "out", "done"} /\ pat_idx' = pat_idx
    BY <1>1 DEF Begin, position
  <2>. QED  BY <2>1, <1>t DEF LessLeft, PhasesLeft
<1>2. CASE WriteStep
  <2>1. /\ currently_testing < last_block
        /\ pc = "write" /\ pc' = pc /\ pat_idx' = pat_idx
    BY <1>2 DEF WriteStep
  <2>2. PICK got \in DoWrite(Try) : Advance(got, Try)
    BY <1>2 DEF WriteStep
  <2>3. Try \in 1..BLOCKS_AT_ONCE
    BY <2>1, <1>t, RequestFits
  <2>4. got \in 0..Try
    BY <2>3, <1>t DEF DoWrite
  <2>. QED  BY <2>1, <2>2, <2>4, AdvanceProgresses
<1>3. CASE ReadStep
  <2>1. /\ currently_testing < last_block
        /\ pc = "read" /\ pc' = pc /\ pat_idx' = pat_idx
    BY <1>3 DEF ReadStep
  <2>2. PICK got \in DoRead(Try) : Advance(got, Try)
    BY <1>3 DEF ReadStep
  <2>3. Try \in 1..BLOCKS_AT_ONCE
    BY <2>1, <1>t, RequestFits
  <2>4. got \in 0..Try
    <3>1. Try \in Nat \ {0} /\ currently_testing \in Nat
      BY <2>3, <1>t
    <3>. QED  BY <3>1, ReadReturns
  <2>. QED  BY <2>1, <2>2, <2>4, AdvanceProgresses
<1>4. CASE OutputStep
  BY <1>4, OutputProgresses
<1>5. CASE NextPhase
  <2>1. \/ pc = "write" /\ pc' = "read" /\ pat_idx' = pat_idx
        \/ pc = "read" /\ pc' = "write" /\ pat_idx' = pat_idx + 1
        \/ pc = "read" /\ pc' = "out" /\ pat_idx' = pat_idx
    BY <1>5 DEF NextPhase
  <2>. QED  BY <2>1, <1>t DEF LessLeft, PhasesLeft
<1>6. CASE Stop
  <2>1. pc \in {"write", "read"} /\ pc' = "out"
    BY <1>6 DEF Stop
  <2>. QED  BY <2>1, <1>t DEF LessLeft, PhasesLeft
<1>7. CASE Return
  <2>1. pc = "out" /\ pc' = "done"
    BY <1>7 DEF Return
  <2>. QED  BY <2>1 DEF LessLeft, PhasesLeft
<1>. QED
  BY <1>1, <1>2, <1>3, <1>4, <1>5, <1>6, <1>7

-----------------------------------------------------------------------------
\* The theorems.

\* Inv holds of every check of every drive.
THEOREM Invariance == Spec => []Inv
<1>1. Init => Inv
  <2>. SUFFICES ASSUME Init PROVE Inv
    OBVIOUS
  <2>1. /\ faults \in [Blocks -> Faults] /\ size \in 1..last_block
        /\ disk = [b \in Blocks |-> BLANK] /\ pc = "start" /\ pat_idx = 1
        /\ currently_testing = 0 /\ tryout = BLOCKS_AT_ONCE /\ recover_block = NOWHERE
        /\ pending = {} /\ error_type = "READ_ERROR" /\ low = 0 /\ high = 0
        /\ bb_list = <<>> /\ bb_count = 0 /\ num_errors = [e \in Errors |-> 0]
        /\ result = "none" /\ uncompared = {} /\ unlisted = {}
    BY DEF Init
  <2>2. TypeOK
    <3>1. BLANK \in (-1..nb_passes) \X (Blocks \cup {NOWHERE}) \X (0..2)
      BY BadBlocksAssumption DEF BLANK, NOWHERE
    <3>2. disk \in [Blocks -> (-1..nb_passes) \X (Blocks \cup {NOWHERE}) \X (0..2)]
      BY <2>1, <3>1
    <3>3. /\ pat_idx \in 0..nb_passes /\ currently_testing \in 0..last_block
          /\ tryout \in 1..BLOCKS_AT_ONCE /\ bb_count \in 0..last_block
          /\ low \in 0..Len(bb_list) /\ high \in 0..Len(bb_list)
          /\ bb_list \in Seq(Blocks) /\ num_errors \in [Errors -> 0..last_block]
          /\ error_type \in Errors
      BY <2>1, BadBlocksAssumption DEF Errors
    <3>4. /\ recover_block \in {NOWHERE} \cup 0..(last_block + BLOCKS_AT_ONCE)
          /\ pending \subseteq Blocks /\ uncompared \subseteq Blocks
          /\ unlisted \subseteq Blocks
          /\ result \in {"none", "TRUE", "FALSE"}
          /\ pc \in {"start", "write", "read", "out", "done"}
      BY <2>1
    <3>5. /\ unix \in BOOLEAN /\ detect_fakes \in BOOLEAN
          /\ large_drive \in BOOLEAN /\ tlc \in BOOLEAN
          /\ cancel_ops \in BOOLEAN /\ ErrorStatus \in BOOLEAN
      BY Zenon DEF Init
    <3>. QED  BY <2>1, <3>2, <3>3, <3>4, <3>5, Zenon DEF TypeOK
  <2>3. CountsAgree
    BY <2>1 DEF CountsAgree, Errors
  <2>4. SearchInv /\ PhaseInv
    BY <2>1 DEF SearchInv, PhaseInv
  <2>5. DriveInv
    BY DEF Init, DriveInv
  <2>6. DiskInv /\ KeptInv
    BY <2>1 DEF DiskInv, KeptInv
  <2>7. Flagged = {}
    BY <2>1 DEF Flagged, Listed
  <2>8. SparedInv /\ FoundInv /\ FakesInv
    BY <2>1, <2>7 DEF SparedInv, FoundInv, FakesInv, Passed, ReadOnce
  <2>9. CleanInv
    <3>1. 0 \in 0..0 /\ 0 = 0 * BLOCKS_AT_ONCE
      BY BadBlocksAssumption
    <3>. QED  BY <2>1, <2>7, <3>1 DEF CleanInv, Start
  <2>. QED  BY <2>2, <2>3, <2>4, <2>5, <2>6, <2>8, <2>9 DEF Inv
<1>2. Inv /\ [Next]_vars => Inv'
  <2>. SUFFICES ASSUME Inv, [Next]_vars PROVE Inv'
    OBVIOUS
  <2>1. CASE Begin
    BY <2>1, BeginKeeps
  <2>2. CASE WriteStep
    BY <2>2, WriteKeeps
  <2>3. CASE ReadStep
    BY <2>3, ReadKeeps
  <2>4. CASE OutputStep
    BY <2>4, OutputKeeps
  <2>5. CASE NextPhase
    BY <2>5, NextPhaseKeeps
  <2>6. CASE Stop
    BY <2>6, StopKeeps
  <2>7. CASE Return
    BY <2>7, ReturnKeeps
  <2>8. CASE UserCancel \/ Alarm \/ Done \/ UNCHANGED vars
    BY <2>8, CancelKeeps DEF Done
  <2>. QED
    BY <2>1, <2>2, <2>3, <2>4, <2>5, <2>6, <2>7, <2>8 DEF Next
<1>. QED
  BY <1>1, <1>2, PTL DEF Spec

\* The position, the search and the results of test_rw and bb_output stay in their
\* types, whatever the drive does; the position never runs past the drive.
THEOREM TypeCorrect == Spec => []TypeOK
<1>1. Inv => TypeOK
  BY DEF Inv
<1>. QED
  BY <1>1, Invariance, PTL

\* The list of bad blocks is in order without duplicates, and each of its blocks is
\* counted once, as one kind of error (bb_output, badblocks.c).
THEOREM ListAndCountsAgree == Spec => []CountsAgree
<1>1. Inv => CountsAgree
  BY DEF Inv
<1>. QED
  BY <1>1, Invariance, PTL

\* A check that was not cut short has found every block that fails, and of the blocks
\* of a fake drive that are one block all but one, but for what a short read has
\* skipped and what there was no memory for (test_rw, badblocks.c).
THEOREM EveryBadBlockFound == Spec => []BadBlocksFound
<1>1. Inv => BadBlocksFound
  <2>. SUFFICES ASSUME Inv, pc = "done", result = "TRUE", ~ cancel_ops
                PROVE  /\ \A b \in Blocks : faults[b] # "none" =>
                              b \in Listed \cup uncompared \cup unlisted
                       /\ detect_fakes => \A b, c \in Blocks :
                              (b # c /\ Cell(b) = Cell(c)) =>
                                  {b, c} \cap (Listed \cup unlisted) # {}
    BY DEF BadBlocksFound
  <2>1. ReadOnce /\ Flagged = Listed \cup unlisted
    BY DEF Inv, PhaseInv, ReadOnce, Flagged
  <2>2. \A b \in Blocks : faults[b] # "none" => b \in Listed \cup uncompared \cup unlisted
    BY <2>1 DEF Inv, FoundInv, Passed
  <2>3. ASSUME detect_fakes, NEW b \in Blocks, NEW c \in Blocks, b # c, Cell(b) = Cell(c)
        PROVE  {b, c} \cap (Listed \cup unlisted) # {}
    <3>1. size # last_block
      BY <2>3, OwnCell
    <3>2. size < last_block
      BY <3>1, BadBlocksAssumption DEF Inv, TypeOK
    <3>3. b \in Flagged \/ c \in Flagged
      BY <2>1, <2>3, <3>2 DEF Inv, FakesInv
    <3>. QED  BY <2>1, <3>3
  <2>. QED  BY <2>2, <2>3
<1>. QED
  BY <1>1, Invariance, PTL

\* On a drive that has the memory it says and does not deny what it has written, a
\* check lists nothing if all blocks are good, whatever the patterns; and on Windows,
\* until a pattern of three bytes is in use, only blocks with a fault, as retrying
\* block by block lets their neighbours off (test_rw, badblocks.c).
THEOREM GoodNeighboursSpared == Spec => []GoodBlocksSpared
<1>1. Inv => GoodBlocksSpared
  <2>. SUFFICES ASSUME Inv, size = last_block, ~ MayDeny
                PROVE  /\ (\A b \in Blocks : faults[b] = "none") => Listed = {}
                       /\ (~ unix /\ ~ Phased) => \A b \in Listed : faults[b] # "none"
    BY DEF GoodBlocksSpared
  <2>1. (\A b \in Blocks : faults[b] = "none") => Listed = {}
    BY DEF Inv, CleanInv, Clean, Flagged
  <2>2. (~ unix /\ ~ Phased) => \A b \in Listed : faults[b] # "none"
    BY DEF Inv, SparedInv, Plain, MayDeny, Flagged
  <2>. QED  BY <2>1, <2>2
<1>. QED
  BY <1>1, Invariance, PTL

\* Every step of test_rw leaves less to do, by a measure that cannot fall for ever:
\* what retries and searches there are come to an end (badblocks.c).
THEOREM CheckAlwaysProgresses == Spec => CheckProgresses
<1>1. Inv /\ [Next]_vars =>
          [IF UserCancel \/ Alarm THEN UNCHANGED <<pc, position, output>>
           ELSE LessLeft]_vars
  <2>. SUFFICES ASSUME Inv, Next, ~ UNCHANGED vars
                PROVE  IF UserCancel \/ Alarm THEN UNCHANGED <<pc, position, output>>
                       ELSE LessLeft
    OBVIOUS
  <2>1. CASE UserCancel \/ Alarm
    BY <2>1 DEF UserCancel, Alarm
  <2>2. CASE ~ (UserCancel \/ Alarm)
    BY <2>2, TestProgresses DEF Next, Done
  <2>. QED  BY <2>1, <2>2
<1>. QED
  BY <1>1, Invariance, PTL DEF Spec, CheckProgresses
=============================================================================
