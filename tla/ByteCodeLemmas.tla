----------------------------- MODULE ByteCodeLemmas -----------------------------
(***************************************************************************)
(* What the line runs of a code array stand for, for every list of runs    *)
(* and every line.                                                         *)
(***************************************************************************)
EXTENDS ByteCodeOps, NatLemmas, SequenceTheorems, TLAPS

(***************************************************************************)
(* The arithmetic of line runs: how the sums of a list of runs change when *)
(* ByteCode_updateLineRuns adds to it and ByteCode_rewind cuts it off.     *)
(***************************************************************************)

LineRuns == Seq([line : Nat, run : Nat])

(* The sums of the first n runs, as a function.                            *)
SumsOf(runs, n, sums) ==
  /\ sums \in [0 .. n -> Nat]
  /\ sums[0] = 0
  /\ \A i \in 1 .. n : sums[i] = sums[i - 1] + runs[i].run

LEMMA RunFields ==
  ASSUME NEW runs \in LineRuns
  PROVE  /\ Len(runs) \in Nat /\ DOMAIN runs = 1 .. Len(runs)
         /\ \A i \in 1 .. Len(runs) :
              /\ runs[i] \in [line : Nat, run : Nat]
              /\ runs[i].line \in Nat /\ runs[i].run \in Nat
<1>1. Len(runs) \in Nat /\ DOMAIN runs = 1 .. Len(runs)
  BY LenProperties DEF LineRuns
<1>2. \A i \in 1 .. Len(runs) : runs[i] \in [line : Nat, run : Nat]
  BY ElementOfSeq DEF LineRuns
<1>. QED
  BY <1>1, <1>2

LEMMA SumsExist ==
  ASSUME NEW runs \in LineRuns
  PROVE  \E sums : SumsOf(runs, Len(runs), sums)
<1>. DEFINE T == {n \in Nat : n <= Len(runs) => \E sums : SumsOf(runs, n, sums)}
<1>1. 0 \in T
  <2>1. SumsOf(runs, 0, [i \in 0 .. 0 |-> 0])
    BY DEF SumsOf
  <2>. QED
    BY <2>1
<1>2. ASSUME NEW n \in Nat, n \in T PROVE n + 1 \in T
  <2>. SUFFICES ASSUME n + 1 <= Len(runs) PROVE \E sums : SumsOf(runs, n + 1, sums)
    OBVIOUS
  <2>1. PICK sums : SumsOf(runs, n, sums)
    BY <1>2, RunFields
  <2>. DEFINE more == [i \in 0 .. n + 1 |-> IF i = n + 1 THEN sums[n] + runs[n + 1].run ELSE sums[i]]
  <2>2. sums[n] + runs[n + 1].run \in Nat
    BY <2>1, RunFields DEF SumsOf
  <2>3. more \in [0 .. n + 1 -> Nat]
    BY <2>1, <2>2 DEF SumsOf
  <2>4. more[0] = 0
    BY <2>1 DEF SumsOf
  <2>5. ASSUME NEW i \in 1 .. n + 1 PROVE more[i] = more[i - 1] + runs[i].run
    BY <2>1 DEF SumsOf
  <2>6. SumsOf(runs, n + 1, more)
    <3>. HIDE DEF more
    <3>. QED
      BY <2>3, <2>4, <2>5 DEF SumsOf
  <2>. QED
    BY <2>6
<1>3. Nat \subseteq T
  <2>. HIDE DEF T
  <2>. QED
    BY <1>1, <1>2, Induction
<1>. QED
  BY <1>3, RunFields

(* RunSums is such a function: the recursion has a solution. *)
LEMMA RunSumsAreSums ==
  ASSUME NEW runs \in LineRuns
  PROVE  \A i \in 0 .. Len(runs) :
           RunsUpTo(runs, i) = IF i = 0 THEN 0 ELSE RunsUpTo(runs, i - 1) + runs[i].run
<1>. DEFINE Solves(f) == f = [i \in 0 .. Len(runs) |-> IF i = 0 THEN 0 ELSE f[i - 1] + runs[i].run]
<1>1. PICK sums : SumsOf(runs, Len(runs), sums)
  BY SumsExist
<1>2. Solves(sums)
  BY <1>1, RunFields DEF SumsOf
<1>3. RunSums(runs) = CHOOSE f : Solves(f)
  BY DEF RunSums
<1>4. Solves(RunSums(runs))
  <2>. HIDE DEF Solves
  <2>. QED
    BY <1>2, <1>3
<1>. QED
  BY <1>4 DEF RunsUpTo

LEMMA SumStep ==
  ASSUME NEW runs \in LineRuns
  PROVE  /\ RunsUpTo(runs, 0) = 0
         /\ \A i \in 1 .. Len(runs) : RunsUpTo(runs, i) = RunsUpTo(runs, i - 1) + runs[i].run
<1>1. Len(runs) \in Nat
  BY RunFields
<1>2. 0 \in 0 .. Len(runs) /\ \A i \in 1 .. Len(runs) : i \in 0 .. Len(runs) /\ i # 0
  BY <1>1
<1>. QED
  BY <1>2, RunSumsAreSums

LEMMA SumsAreNatural ==
  ASSUME NEW runs \in LineRuns
  PROVE  \A i \in 0 .. Len(runs) : RunsUpTo(runs, i) \in Nat
<1>. DEFINE T == {n \in Nat : n <= Len(runs) => RunsUpTo(runs, n) \in Nat}
<1>1. 0 \in T
  BY SumStep
<1>2. ASSUME NEW n \in Nat, n \in T PROVE n + 1 \in T
  BY <1>2, SumStep, RunFields
<1>3. Nat \subseteq T
  <2>. HIDE DEF T
  <2>. QED
    BY <1>1, <1>2, Induction
<1>. QED
  BY <1>3, RunFields

(* A longer part of the list stands for no fewer bytes. *)
LEMMA SumsGrow ==
  ASSUME NEW runs \in LineRuns, NEW i \in 0 .. Len(runs)
  PROVE  \A j \in i .. Len(runs) : RunsUpTo(runs, i) <= RunsUpTo(runs, j)
<1>. DEFINE T == {n \in Nat : i + n <= Len(runs) => RunsUpTo(runs, i) <= RunsUpTo(runs, i + n)}
<1>1. i \in Nat /\ Len(runs) \in Nat
  BY RunFields
<1>2. 0 \in T
  BY <1>1, SumsAreNatural
<1>3. ASSUME NEW n \in Nat, n \in T PROVE n + 1 \in T
  <2>. SUFFICES ASSUME i + (n + 1) <= Len(runs)
                PROVE  RunsUpTo(runs, i) <= RunsUpTo(runs, i + (n + 1))
    OBVIOUS
  <2>. DEFINE j == i + (n + 1)
  <2>1. j \in 1 .. Len(runs) /\ j - 1 = i + n /\ j - 1 \in 0 .. Len(runs) /\ i + n <= Len(runs)
    BY <1>1
  <2>2. RunsUpTo(runs, i) <= RunsUpTo(runs, j - 1)
    BY <1>3, <2>1
  <2>3. RunsUpTo(runs, j) = RunsUpTo(runs, j - 1) + runs[j].run /\ runs[j].run \in Nat
    BY <2>1, SumStep, RunFields
  <2>4. RunsUpTo(runs, i) \in Nat /\ RunsUpTo(runs, j - 1) \in Nat
    BY <2>1, SumsAreNatural
  <2>. HIDE DEF j
  <2>5. RunsUpTo(runs, i) <= RunsUpTo(runs, j)
    BY <2>2, <2>3, <2>4
  <2>. QED
    BY <2>5 DEF j
<1>4. Nat \subseteq T
  <2>. HIDE DEF T
  <2>. QED
    BY <1>2, <1>3, Induction
<1>5. ASSUME NEW j \in i .. Len(runs) PROVE RunsUpTo(runs, i) <= RunsUpTo(runs, j)
  <2>1. j - i \in Nat /\ i + (j - i) = j /\ j <= Len(runs)
    BY <1>1
  <2>2. j - i \in T
    BY <1>4, <2>1
  <2>. QED
    BY <2>1, <2>2
<1>. QED
  BY <1>5

(* The sums of two lists agree as far as their runs do. *)
LEMMA SumsAgree ==
  ASSUME NEW runs \in LineRuns, NEW other \in LineRuns, NEW m \in Nat,
         m <= Len(runs), m <= Len(other), \A i \in 1 .. m : runs[i].run = other[i].run
  PROVE  \A i \in 0 .. m : RunsUpTo(runs, i) = RunsUpTo(other, i)
<1>. DEFINE T == {n \in Nat : n <= m => RunsUpTo(runs, n) = RunsUpTo(other, n)}
<1>1. 0 \in T
  BY SumStep
<1>2. ASSUME NEW n \in Nat, n \in T PROVE n + 1 \in T
  <2>. SUFFICES ASSUME n + 1 <= m PROVE RunsUpTo(runs, n + 1) = RunsUpTo(other, n + 1)
    OBVIOUS
  <2>1. n + 1 \in 1 .. Len(runs) /\ n + 1 \in 1 .. Len(other) /\ (n + 1) - 1 = n /\ n + 1 \in 1 .. m
    BY RunFields
  <2>2. RunsUpTo(runs, n) = RunsUpTo(other, n)
    BY <1>2
  <2>3. /\ RunsUpTo(runs, n + 1) = RunsUpTo(runs, n) + runs[n + 1].run
        /\ RunsUpTo(other, n + 1) = RunsUpTo(other, n) + other[n + 1].run
    BY <2>1, SumStep
  <2>. QED
    BY <2>1, <2>2, <2>3
<1>3. Nat \subseteq T
  <2>. HIDE DEF T
  <2>. QED
    BY <1>1, <1>2, Induction
<1>. QED
  BY <1>3

-------------------------------------------------------------------------------
(* The first of some positions, if there are any. *)
LEMMA FirstIsLeast ==
  ASSUME NEW positions, positions \subseteq Nat, positions # {}
  PROVE  FirstOf(positions) \in positions /\ \A j \in positions : FirstOf(positions) <= j
BY LeastNatural DEF FirstOf

(* The loops over the runs stop at the first one whose sum is large        *)
(* enough, and the sum before it is not.                                   *)
LEMMA FirstRunReaching ==
  ASSUME NEW runs \in LineRuns, Len(runs) >= 1, NEW count \in Nat,
         count <= RunsUpTo(runs, Len(runs))
  PROVE  LET last == FirstOf({i \in 1 .. Len(runs) : RunsUpTo(runs, i) >= count}) IN
           /\ last \in 1 .. Len(runs)
           /\ RunsUpTo(runs, last) >= count
           /\ RunsUpTo(runs, last - 1) <= count
<1>. DEFINE ending == {i \in 1 .. Len(runs) : RunsUpTo(runs, i) >= count}
            last == FirstOf(ending)
<1>1. Len(runs) \in 1 .. Len(runs) /\ Len(runs) \in 0 .. Len(runs)
  BY RunFields
<1>2. Len(runs) \in ending
  BY <1>1, SumsAreNatural
<1>3. last \in ending /\ \A j \in ending : last <= j
  <2>1. ending \subseteq Nat /\ ending # {}
    BY <1>2
  <2>. HIDE DEF ending
  <2>. QED
    BY <2>1, FirstIsLeast
<1>. HIDE DEF last
<1>4. last \in 1 .. Len(runs) /\ RunsUpTo(runs, last) >= count
  BY <1>3
<1>5. RunsUpTo(runs, last - 1) <= count
  <2>1. CASE last = 1
    BY <2>1, SumStep
  <2>2. CASE last # 1
    <3>1. last - 1 \in 1 .. Len(runs) /\ last - 1 \in 0 .. Len(runs) /\ ~ (last <= last - 1)
      BY <1>4, <2>2, RunFields
    <3>2. ~ (RunsUpTo(runs, last - 1) >= count)
      BY <1>3, <3>1
    <3>3. RunsUpTo(runs, last - 1) \in Nat
      BY <3>1, SumsAreNatural
    <3>. QED
      BY <3>2, <3>3
  <2>. QED
    BY <2>1, <2>2
<1>. QED
  BY <1>4, <1>5 DEF last

LEMMA FirstRunPassing ==
  ASSUME NEW runs \in LineRuns, NEW index \in Nat, index < RunsUpTo(runs, Len(runs))
  PROVE  LET first == FirstOf({i \in 1 .. Len(runs) : RunsUpTo(runs, i) > index}) IN
           /\ first \in 1 .. Len(runs)
           /\ RunsUpTo(runs, first) > index
           /\ RunsUpTo(runs, first - 1) <= index
<1>1. Len(runs) \in Nat /\ RunsUpTo(runs, 0) = 0
      /\ \A i \in 0 .. Len(runs) : RunsUpTo(runs, i) \in Nat
  BY RunFields, SumStep, SumsAreNatural
<1>2. Len(runs) >= 1
  <2>1. Len(runs) # 0
    BY <1>1
  <2>. QED
    BY <1>1, <2>1
<1>3. RunsUpTo(runs, Len(runs)) \in Nat
  <2>1. Len(runs) \in 0 .. Len(runs)
    BY <1>1
  <2>. QED
    BY <1>1, <2>1
<1>. DEFINE ending == {i \in 1 .. Len(runs) : RunsUpTo(runs, i) > index}
            reaching == {i \in 1 .. Len(runs) : RunsUpTo(runs, i) >= index + 1}
            first == FirstOf(ending)
<1>4. ending = reaching
  BY <1>1
<1>5. /\ first \in 1 .. Len(runs)
      /\ RunsUpTo(runs, first) >= index + 1
      /\ RunsUpTo(runs, first - 1) <= index + 1
  <2>1. index + 1 \in Nat /\ index + 1 <= RunsUpTo(runs, Len(runs))
    BY <1>3
  <2>. QED
    BY <1>2, <1>4, <2>1, FirstRunReaching
<1>6. \A j \in ending : first <= j
  <2>1. ending \subseteq Nat /\ ending # {}
    BY <1>1, <1>5
  <2>. HIDE DEF ending
  <2>. QED
    BY <2>1, FirstIsLeast
<1>. HIDE DEF first
<1>7. RunsUpTo(runs, first) > index
  BY <1>1, <1>5
<1>8. RunsUpTo(runs, first - 1) <= index
  <2>1. CASE first = 1
    BY <1>1, <2>1
  <2>2. CASE first # 1
    <3>1. first - 1 \in 1 .. Len(runs) /\ first - 1 \in 0 .. Len(runs) /\ ~ (first <= first - 1)
      BY <1>1, <1>5, <2>2
    <3>2. ~ (RunsUpTo(runs, first - 1) > index)
      BY <1>6, <3>1
    <3>. QED
      BY <1>1, <3>1, <3>2
  <2>. QED
    BY <2>1, <2>2
<1>. QED
  BY <1>5, <1>7, <1>8 DEF first

-------------------------------------------------------------------------------
(* What is recorded of each byte emitted.                                  *)
Entries == [byte : 0 .. 255, line : Nat]

(* The runs stand for as many bytes as were written, and each run is of    *)
(* the line its bytes came from.                                           *)
Covers(runs, bytes) ==
  /\ runs \in LineRuns /\ Len(runs) >= 1
  /\ RunsUpTo(runs, Len(runs)) = Len(bytes)
  /\ \A i \in 1 .. Len(runs) : \A k \in 1 .. Len(bytes) :
       RunsUpTo(runs, i - 1) < k /\ k <= RunsUpTo(runs, i) => bytes[k].line = runs[i].line

LEMMA AddedBytesAreCovered ==
  ASSUME NEW runs, NEW bytes \in Seq(Entries), Covers(runs, bytes),
         NEW line \in Nat, NEW added \in Seq(Entries),
         \A k \in 1 .. Len(added) : added[k].line = line
  PROVE  Covers(ByteCode_updateLineRuns(runs, line, Len(added)), bytes \o added)
<1>. DEFINE new == ByteCode_updateLineRuns(runs, line, Len(added))
            after == bytes \o added
            last == Len(runs)
            n == Len(added)
            count == Len(bytes)
<1>1. /\ runs \in LineRuns /\ last \in Nat /\ last >= 1 /\ DOMAIN runs = 1 .. last
      /\ \A i \in 1 .. last : runs[i] \in [line : Nat, run : Nat]
                             /\ runs[i].line \in Nat /\ runs[i].run \in Nat
      /\ RunsUpTo(runs, last) = count
  BY RunFields DEF Covers
<1>2. /\ n \in Nat /\ count \in Nat /\ Len(after) = count + n
      /\ \A k \in 1 .. count : after[k] = bytes[k]
      /\ \A k \in count + 1 .. count + n : after[k].line = line
  <2>1. /\ n \in Nat /\ count \in Nat /\ Len(after) = count + n
        /\ \A k \in 1 .. count + n :
             after[k] = IF k <= count THEN bytes[k] ELSE added[k - count]
    BY ConcatProperties, LenProperties
  <2>2. \A k \in count + 1 .. count + n : k - count \in 1 .. n /\ ~ (k <= count) /\ k \in 1 .. count + n
    BY <2>1
  <2>. QED
    BY <2>1, <2>2
<1>. HIDE DEF after, n, count, last
<1>3. CASE runs[last].line = line
  <2>1. new = [runs EXCEPT ![last].run = @ + n]
    BY <1>3 DEF ByteCode_updateLineRuns, last, n
  <2>2. new \in LineRuns /\ Len(new) = last
    <3>1. [runs[last] EXCEPT !.run = @ + n] \in [line : Nat, run : Nat]
      BY <1>1, <1>2, SMTT(30)
    <3>2. new = [runs EXCEPT ![last] = [runs[last] EXCEPT !.run = @ + n]]
      BY <2>1
    <3>. QED
      BY <1>1, <3>1, <3>2, ExceptSeq DEF LineRuns, last
  <2>3. /\ \A i \in 1 .. last - 1 : new[i] = runs[i]
        /\ new[last].line = line /\ new[last].run = runs[last].run + n
        /\ \A i \in 1 .. last : new[i].line = runs[i].line
    BY <1>1, <1>3, <2>1
  <2>. HIDE DEF new
  <2>4. \A i \in 0 .. last - 1 : RunsUpTo(new, i) = RunsUpTo(runs, i)
    <3>1. last - 1 \in Nat /\ last - 1 <= Len(new) /\ last - 1 <= Len(runs)
      BY <1>1, <2>2 DEF last
    <3>. QED
      BY <1>1, <2>2, <2>3, <3>1, SumsAgree
  <2>5. RunsUpTo(new, last) = count + n
    <3>1. last \in 1 .. Len(runs) /\ last \in 1 .. Len(new) /\ last - 1 \in 0 .. last - 1
      BY <1>1, <2>2 DEF last
    <3>2. /\ RunsUpTo(new, last) = RunsUpTo(new, last - 1) + new[last].run
          /\ RunsUpTo(runs, last) = RunsUpTo(runs, last - 1) + runs[last].run
      BY <1>1, <2>2, <3>1, SumStep
    <3>3. RunsUpTo(new, last - 1) = RunsUpTo(runs, last - 1) /\ RunsUpTo(runs, last - 1) \in Nat
      BY <1>1, <2>4, <3>1, SumsAreNatural
    <3>4. runs[last].run \in Nat
      BY <1>1, <3>1
    <3>. QED
      BY <1>1, <1>2, <2>3, <3>2, <3>3, <3>4
  <2>6. ASSUME NEW i \in 1 .. Len(new), NEW k \in 1 .. Len(after),
               RunsUpTo(new, i - 1) < k, k <= RunsUpTo(new, i)
        PROVE  after[k].line = new[i].line
    <3>1. i \in 1 .. last /\ i - 1 \in 0 .. last - 1 /\ k \in 1 .. count + n
      <4>1. last \in Nat /\ Len(new) = last /\ Len(after) = count + n
        BY <1>1, <1>2, <2>2
      <4>. QED
        BY <4>1
    <3>2. RunsUpTo(new, i - 1) = RunsUpTo(runs, i - 1)
      BY <2>4, <3>1
    <3>3. CASE k <= count
      <4>1. k \in 1 .. count /\ after[k] = bytes[k]
        BY <1>2, <3>1, <3>3
      <4>2. k <= RunsUpTo(runs, i)
        <5>1. CASE i = last
          BY <1>1, <3>3, <5>1
        <5>2. CASE i # last
          <6>1. i \in 0 .. last - 1
            BY <1>1, <3>1, <5>2
          <6>. QED
            BY <2>4, <2>6, <6>1
        <5>. QED
          BY <5>1, <5>2
      <4>. QED
        BY <1>1, <2>3, <2>6, <3>1, <3>2, <4>1, <4>2 DEF Covers, last, count
    <3>4. CASE ~ (k <= count)
      <4>1. k \in count + 1 .. count + n
        BY <1>2, <3>1, <3>4
      <4>2. i = last
        <5>. SUFFICES ASSUME i # last PROVE FALSE
          OBVIOUS
        <5>1. i \in 0 .. last - 1 /\ i \in 0 .. Len(runs) /\ last \in i .. Len(runs)
          <6>1. i \in 0 .. last - 1 /\ i \in 0 .. last /\ last \in i .. last
            BY <1>1, <3>1
          <6>. QED
            BY <6>1 DEF last
        <5>2. RunsUpTo(new, i) <= count /\ RunsUpTo(new, i) \in Nat
          BY <1>1, <2>4, <5>1, SumsGrow, SumsAreNatural
        <5>. QED
          BY <1>2, <2>6, <3>4, <5>2
      <4>. QED
        BY <1>2, <2>3, <4>1, <4>2
    <3>. QED
      BY <3>3, <3>4
  <2>7. Len(new) >= 1 /\ RunsUpTo(new, Len(new)) = Len(after)
    BY <1>1, <1>2, <2>2, <2>5
  <2>8. Covers(new, after)
    BY <2>2, <2>6, <2>7 DEF Covers
  <2>. QED
    BY <2>8 DEF new, after, n
<1>4. CASE runs[last].line # line
  <2>1. new = Append(runs, [line |-> line, run |-> n])
    BY <1>4 DEF ByteCode_updateLineRuns, last, n
  <2>2. /\ new \in LineRuns /\ Len(new) = last + 1
        /\ new[last + 1] = [line |-> line, run |-> n]
        /\ \A i \in 1 .. last : new[i] = runs[i]
    <3>1. [line |-> line, run |-> n] \in [line : Nat, run : Nat]
      BY <1>2
    <3>. QED
      BY <1>1, <2>1, <3>1, AppendProperties DEF LineRuns, last
  <2>. HIDE DEF new
  <2>3. \A i \in 0 .. last : RunsUpTo(new, i) = RunsUpTo(runs, i)
    <3>1. last <= Len(new) /\ last <= Len(runs)
      BY <1>1, <2>2 DEF last
    <3>. QED
      BY <1>1, <2>2, <3>1, SumsAgree
  <2>4. RunsUpTo(new, last + 1) = count + n
    <3>1. last + 1 \in 1 .. Len(new) /\ (last + 1) - 1 = last /\ last \in 0 .. last
      BY <1>1, <2>2
    <3>2. RunsUpTo(new, last + 1) = RunsUpTo(new, last) + new[last + 1].run
      BY <2>2, <3>1, SumStep
    <3>. QED
      BY <1>1, <2>2, <2>3, <3>1, <3>2
  <2>5. ASSUME NEW i \in 1 .. Len(new), NEW k \in 1 .. Len(after),
               RunsUpTo(new, i - 1) < k, k <= RunsUpTo(new, i)
        PROVE  after[k].line = new[i].line
    <3>1. CASE i = last + 1
      <4>1. i - 1 = last /\ last \in 0 .. last
        BY <1>1, <3>1
      <4>2. count < k
        BY <1>1, <2>3, <2>5, <4>1
      <4>3. k \in count + 1 .. count + n
        BY <1>2, <4>2
      <4>. QED
        BY <1>2, <2>2, <3>1, <4>3
    <3>2. CASE i # last + 1
      <4>1. i \in 1 .. last /\ i \in 0 .. last /\ i - 1 \in 0 .. last
            /\ i \in 0 .. Len(runs) /\ last \in i .. Len(runs) /\ i \in 1 .. Len(runs)
        BY <1>1, <2>2, <3>2 DEF last
      <4>2. RunsUpTo(runs, i) <= count /\ RunsUpTo(runs, i) \in Nat
        BY <1>1, <4>1, SumsGrow, SumsAreNatural
      <4>3. RunsUpTo(runs, i - 1) < k /\ k <= RunsUpTo(runs, i)
        BY <2>3, <2>5, <4>1
      <4>4. k \in 1 .. count
        BY <1>2, <4>2, <4>3
      <4>5. bytes[k].line = runs[i].line
        BY <4>1, <4>3, <4>4 DEF Covers, count
      <4>. QED
        BY <1>2, <2>2, <4>1, <4>4, <4>5
    <3>. QED
      BY <3>1, <3>2
  <2>6. Len(new) >= 1 /\ RunsUpTo(new, Len(new)) = Len(after)
    BY <1>1, <1>2, <2>2, <2>4
  <2>7. Covers(new, after)
    BY <2>2, <2>5, <2>6 DEF Covers
  <2>. QED
    BY <2>7 DEF new, after, n
<1>. QED
  BY <1>3, <1>4

(* The runs that ByteCode_rewind leaves, and what it leaves of a sequence. *)
LEMMA Prefix ==
  ASSUME NEW S, NEW seq \in Seq(S), NEW m \in 0 .. Len(seq)
  PROVE  /\ SubSeq(seq, 1, m) \in Seq(S)
         /\ Len(SubSeq(seq, 1, m)) = m /\ m \in Nat
         /\ \A k \in 1 .. m : SubSeq(seq, 1, m)[k] = seq[k]
<1>1. Len(seq) \in Nat /\ m \in Nat /\ m \in Int /\ 1 \in Int
  BY LenProperties
<1>2. \A k \in 1 .. m : seq[k] \in S
  <2>1. \A k \in 1 .. m : k \in 1 .. Len(seq)
    BY <1>1
  <2>. QED
    BY <2>1, ElementOfSeq
<1>3. /\ SubSeq(seq, 1, m) \in Seq(S)
      /\ Len(SubSeq(seq, 1, m)) = IF 1 <= m THEN m - 1 + 1 ELSE 0
      /\ \A k \in 1 .. m - 1 + 1 : SubSeq(seq, 1, m)[k] = seq[1 + k - 1]
  BY <1>1, <1>2, SubSeqProperties
<1>4. \A k \in 1 .. m : k \in 1 .. m - 1 + 1 /\ 1 + k - 1 = k
  BY <1>1
<1>. QED
  BY <1>1, <1>3, <1>4

LEMMA BytesLeftAreCovered ==
  ASSUME NEW runs, NEW bytes \in Seq(Entries), Covers(runs, bytes),
         NEW count \in 0 .. Len(bytes), NEW last \in 1 .. Len(runs),
         last = FirstOf({i \in 1 .. Len(runs) : RunsUpTo(runs, i) >= count}),
         NEW excess, excess = RunsUpTo(runs, last) - count
  PROVE  Covers([SubSeq(runs, 1, last) EXCEPT ![last].run = @ - excess], SubSeq(bytes, 1, count))
<1>. DEFINE cut == SubSeq(runs, 1, last)
            new == [cut EXCEPT ![last].run = @ - excess]
            after == SubSeq(bytes, 1, count)
<1>1. /\ runs \in LineRuns /\ Len(runs) \in Nat /\ Len(runs) >= 1
      /\ \A i \in 1 .. Len(runs) : runs[i] \in [line : Nat, run : Nat]
                                  /\ runs[i].line \in Nat /\ runs[i].run \in Nat
      /\ RunsUpTo(runs, Len(runs)) = Len(bytes)
  BY RunFields DEF Covers
<1>2. Len(bytes) \in Nat /\ count \in Nat /\ count <= Len(bytes)
      /\ last \in Nat /\ last \in 0 .. Len(runs) /\ last - 1 \in 0 .. Len(runs)
      /\ last <= Len(runs) /\ last - 1 \in Nat /\ last - 1 <= Len(runs) /\ last >= 1
  BY <1>1, LenProperties
<1>3. RunsUpTo(runs, last) >= count /\ RunsUpTo(runs, last - 1) <= count
  BY <1>1, <1>2, FirstRunReaching
<1>4. /\ RunsUpTo(runs, last) \in Nat /\ RunsUpTo(runs, last - 1) \in Nat
      /\ RunsUpTo(runs, last) = RunsUpTo(runs, last - 1) + runs[last].run
  BY <1>1, <1>2, SumsAreNatural, SumStep
<1>5. runs[last].run - excess = count - RunsUpTo(runs, last - 1) /\ runs[last].run - excess \in Nat
  <2>. DEFINE before == RunsUpTo(runs, last - 1)
              sum == RunsUpTo(runs, last)
              run == runs[last].run
  <2>1. run \in Nat /\ before \in Nat /\ sum \in Nat /\ sum = before + run /\ before <= count
        /\ excess = sum - count
    BY <1>1, <1>3, <1>4
  <2>. HIDE DEF before, sum, run
  <2>2. run - excess = count - before /\ run - excess \in Nat
    BY <1>2, <2>1, SMTT(30)
  <2>. QED
    BY <2>2 DEF before, run
<1>6. /\ cut \in LineRuns /\ Len(cut) = last
      /\ \A i \in 1 .. last : cut[i] = runs[i]
  BY <1>1, <1>2, Prefix DEF LineRuns
<1>7. /\ after \in Seq(Entries) /\ Len(after) = count
      /\ \A k \in 1 .. count : after[k] = bytes[k]
  BY <1>2, Prefix
<1>8. new \in LineRuns /\ Len(new) = last
      /\ new[last].run = runs[last].run - excess
      /\ (\A i \in 1 .. last - 1 : new[i] = runs[i])
      /\ (\A i \in 1 .. last : new[i].line = runs[i].line)
  <2>. HIDE DEF cut
  <2>. DEFINE e == [cut[last] EXCEPT !.run = @ - excess]
  <2>1. last \in 1 .. last /\ cut[last] = runs[last] /\ runs[last] \in [line : Nat, run : Nat]
    BY <1>1, <1>2, <1>6
  <2>2. e \in [line : Nat, run : Nat] /\ e.run = runs[last].run - excess /\ e.line = runs[last].line
    BY <1>5, <2>1
  <2>3. new = [cut EXCEPT ![last] = e]
    OBVIOUS
  <2>. HIDE DEF e, new
  <2>4. /\ [cut EXCEPT ![last] = e] \in LineRuns
        /\ Len([cut EXCEPT ![last] = e]) = Len(cut)
        /\ \A j \in 1 .. Len(cut) : [cut EXCEPT ![last] = e][j] = IF j = last THEN e ELSE cut[j]
    BY <1>6, <2>1, <2>2, ExceptSeq DEF LineRuns
  <2>5. new \in LineRuns /\ Len(new) = last
        /\ \A j \in 1 .. last : new[j] = IF j = last THEN e ELSE runs[j]
    BY <1>6, <2>3, <2>4
  <2>6. \A i \in 1 .. last - 1 : i \in 1 .. last /\ i # last
    BY <1>2
  <2>. QED
    BY <2>1, <2>2, <2>5, <2>6
<1>. HIDE DEF new, cut, after
<1>9. \A i \in 0 .. last - 1 : RunsUpTo(new, i) = RunsUpTo(runs, i)
  <2>1. last - 1 <= Len(new)
    BY <1>2, <1>8
  <2>. QED
    BY <1>1, <1>2, <1>8, <2>1, SumsAgree
<1>10. RunsUpTo(new, last) = count
  <2>1. last \in 1 .. Len(new) /\ last - 1 \in 0 .. last - 1
    BY <1>2, <1>8
  <2>2. RunsUpTo(new, last) = RunsUpTo(new, last - 1) + new[last].run
    BY <1>8, <2>1, SumStep
  <2>. QED
    <3>1. RunsUpTo(new, last - 1) = RunsUpTo(runs, last - 1)
      BY <1>9, <2>1
    <3>2. new[last].run = count - RunsUpTo(runs, last - 1)
      BY <1>5, <1>8
    <3>. QED
      BY <1>2, <1>4, <2>2, <3>1, <3>2
<1>11. ASSUME NEW i \in 1 .. Len(new), NEW k \in 1 .. Len(after),
              RunsUpTo(new, i - 1) < k, k <= RunsUpTo(new, i)
       PROVE  after[k].line = new[i].line
  <2>1. i \in 1 .. last /\ i - 1 \in 0 .. last - 1 /\ k \in 1 .. count
        /\ i \in 1 .. Len(runs) /\ k \in 1 .. Len(bytes)
    <3>1. /\ Len(runs) \in Nat /\ Len(bytes) \in Nat /\ last \in Nat /\ count \in Nat
          /\ last >= 1 /\ last <= Len(runs) /\ count <= Len(bytes)
      BY <1>1, <1>2
    <3>2. i \in 1 .. last /\ k \in 1 .. count
      BY <1>7, <1>8
    <3>. QED
      BY <3>1, <3>2
  <2>2. RunsUpTo(runs, i - 1) < k
    BY <1>9, <1>11, <2>1
  <2>3. k <= RunsUpTo(runs, i)
    <3>1. CASE i = last
      BY <1>2, <1>3, <1>4, <2>1, <3>1
    <3>2. CASE i # last
      <4>1. i \in 0 .. last - 1
        BY <1>2, <2>1, <3>2
      <4>. QED
        BY <1>9, <1>11, <4>1
    <3>. QED
      BY <3>1, <3>2
  <2>4. bytes[k].line = runs[i].line
    BY <2>1, <2>2, <2>3 DEF Covers
  <2>. QED
    BY <1>7, <1>8, <2>1, <2>4
<1>12. Len(new) >= 1 /\ RunsUpTo(new, Len(new)) = Len(after)
  BY <1>2, <1>7, <1>8, <1>10
<1>13. Covers(new, after)
  BY <1>8, <1>11, <1>12 DEF Covers
<1>. QED
  BY <1>13 DEF new, cut, after

===============================================================================
