------------------------------ MODULE StackProofs ------------------------------
(***************************************************************************)
(* Proofs about the operand stack, for every initial size, every set of    *)
(* values, every place realloc may choose and every platform.              *)
(*                                                                         *)
(* The inductive invariant says that the struct holds the values and marks *)
(* its pointers name (Holds), and that while nothing failed these are the  *)
(* ones the calls so far should have left.                                 *)
(***************************************************************************)
EXTENDS Stack, SequenceTheorems, TLAPS

-------------------------------------------------------------------------------
(* What each operation of StackOps does to a stack that represents a       *)
(* sequence of values and the marks of its open scopes.                    *)

Fields == {"items", "top", "maxTop", "cells", "currentScope", "scopes",
           "scopeRoom", "scopeCount", "scopeCapacity", "fault"}

(* marks[k] values lie below the k-th scope, the outermost first.          *)
Nested(vals, marks) ==
  /\ vals \in Seq(Values)
  /\ marks \in Seq(Nat)
  /\ Len(marks) \in 1 .. UINT8_MAX
  /\ \A k \in 1 .. Len(marks) : marks[k] <= Len(vals)
  /\ \A j, k \in 1 .. Len(marks) : j <= k => marks[j] <= marks[k]

(* The items block: in use up to the top, and holding the values.          *)
HoldsItems(s, vals) ==
  /\ s.items \in Nat /\ s.maxTop \in Int /\ s.items <= s.maxTop
  /\ s.top = s.items + (Len(vals) - 1) /\ s.top <= s.maxTop
  /\ s.cells \in [0 .. s.maxTop - s.items -> Values \cup {Garbage}]
  /\ \A k \in 1 .. Len(vals) : s.cells[k - 1] = vals[k]

(* The scopes block, whose capacity never leaves 0.                        *)
HoldsScopes(s, marks) ==
  /\ s.currentScope = s.items + marks[Len(marks)]
  /\ s.scopeCount = Len(marks) - 1
  /\ s.scopes \in [DOMAIN s.scopes -> Int]
  /\ \A k \in 1 .. Len(marks) - 1 :
       k - 1 \in DOMAIN s.scopes /\ s.scopes[k - 1] = s.items + marks[k]
  /\ s.scopeCapacity = 0
  /\ s.scopeRoom \in {0, ZeroRoom}
  /\ s.scopeCount > 0 => s.scopeRoom = ZeroRoom

Holds(s, vals, marks) ==
  /\ DOMAIN s = Fields
  /\ Nested(vals, marks)
  /\ HoldsItems(s, vals)
  /\ HoldsScopes(s, marks)

(* A stack that has not failed, and holds these values in these scopes.    *)
Represents(s, vals, marks) == Holds(s, vals, marks) /\ s.fault = NoFault

(* The values are values and the marks natural numbers, of which there is  *)
(* at least one.                                                           *)
LEMMA MarksAreHeights ==
  ASSUME NEW vals, NEW marks, Nested(vals, marks)
  PROVE  /\ Len(vals) \in Nat /\ \A k \in 1 .. Len(vals) : vals[k] \in Values
         /\ Len(marks) \in Nat \ {0} /\ \A k \in 1 .. Len(marks) : marks[k] \in Nat
<1>1. vals \in Seq(Values) /\ marks \in Seq(Nat)
  BY DEF Nested
<1>2. \A m \in 1 .. UINT8_MAX : m \in Nat \ {0}
  BY DEF UINT8_MAX
<1>3. \A k \in 1 .. Len(vals) : vals[k] \in Values
  BY <1>1, ElementOfSeq
<1>4. \A k \in 1 .. Len(marks) : marks[k] \in Nat
  BY <1>1, ElementOfSeq
<1>5. Len(vals) \in Nat
  BY <1>1, LenProperties
<1>6. Len(marks) \in Nat \ {0}
  BY <1>2, Zenon DEF Nested
<1>. QED
  BY <1>3, <1>4, <1>5, <1>6, Zenon

(* The first m elements of a sequence. *)
LEMMA Prefix ==
  ASSUME NEW S, NEW seq \in Seq(S), NEW m \in 0 .. Len(seq)
  PROVE  /\ SubSeq(seq, 1, m) \in Seq(S)
         /\ Len(SubSeq(seq, 1, m)) = m
         /\ \A k \in 1 .. m : SubSeq(seq, 1, m)[k] = seq[k]
<1>1. \A k \in 1 .. m : seq[k] \in S
  <2>1. 1 .. m \subseteq 1 .. Len(seq)
    BY LenProperties
  <2>. QED
    BY <2>1, ElementOfSeq
<1>2. m \in Int /\ 1 \in Int
  BY LenProperties
<1>3. SubSeq(seq, 1, m) \in Seq(S)
  BY <1>1, <1>2, SubSeqProperties
<1>4. Len(SubSeq(seq, 1, m)) = IF 1 <= m THEN m - 1 + 1 ELSE 0
  BY <1>1, <1>2, SubSeqProperties
<1>5. \A k \in 1 .. m - 1 + 1 : SubSeq(seq, 1, m)[k] = seq[1 + k - 1]
  BY <1>1, <1>2, SubSeqProperties
<1>6. Len(SubSeq(seq, 1, m)) = m
  BY <1>4, LenProperties
<1>7. ASSUME NEW k \in 1 .. m PROVE SubSeq(seq, 1, m)[k] = seq[k]
  <2>1. k \in 1 .. m - 1 + 1 /\ 1 + k - 1 = k
    BY <1>2
  <2>. QED
    BY <2>1, <1>5
<1>. QED
  BY <1>3, <1>6, <1>7

(* The current scope may lose a value it has. *)
LEMMA NestedWithoutLast ==
  ASSUME NEW vals, NEW marks, Nested(vals, marks), Len(vals) > marks[Len(marks)],
         NEW w \in Seq(Values), Len(w) = Len(vals) - 1
  PROVE  Nested(w, marks)
<1>1. /\ Len(vals) \in Nat
      /\ Len(marks) \in Nat \ {0} /\ \A k \in 1 .. Len(marks) : marks[k] \in Nat
  BY MarksAreHeights
<1>2. /\ marks \in Seq(Nat) /\ Len(marks) \in 1 .. UINT8_MAX
      /\ \A j, k \in 1 .. Len(marks) : j <= k => marks[j] <= marks[k]
  BY DEF Nested
<1>3. ASSUME NEW k \in 1 .. Len(marks) PROVE marks[k] <= Len(w)
  <2>1. marks[k] <= marks[Len(marks)] /\ marks[k] \in Nat /\ marks[Len(marks)] \in Nat
    BY <1>1, <1>2
  <2>. QED
    BY <2>1, <1>1
<1>. QED
  BY <1>2, <1>3 DEF Nested

(* A new stack is empty and in its outermost scope.                        *)
LEMMA InitRepresents ==
  ASSUME NEW base \in Nat
  PROVE  Represents(Stack_init(base), <<>>, <<0>>)
<1>. DEFINE s == Stack_init(base)
<1>1. Nested(<<>>, <<0>>)
  BY DEF Nested, UINT8_MAX
<1>2. DOMAIN s = Fields /\ s.fault = NoFault
  BY DEF Stack_init, Fields
<1>3. HoldsItems(s, <<>>)
  BY InitialItemsAssumption DEF HoldsItems, Stack_init
<1>4. HoldsScopes(s, <<0>>)
  BY ZeroRoomAssumption DEF HoldsScopes, Stack_init
<1>. QED
  BY <1>1, <1>2, <1>3, <1>4 DEF Represents, Holds

(* Growing moves the block and leaves every pointer where it pointed.      *)
LEMMA GrowRepresents ==
  ASSUME NEW s, NEW vals, NEW marks, Represents(s, vals, marks),
         s.top = s.maxTop, NEW base \in Nat
  PROVE  /\ Represents(Grow(s, base), vals, marks)
         /\ Grow(s, base).top < Grow(s, base).maxTop
         /\ Grow(s, base).items = base
<1>. DEFINE t == Grow(s, base)
            n == Len(vals)
<1>. USE DEF Represents, Holds
<1>1. n \in Nat \ {0} /\ TopIndex(s) = n - 1 /\ s.maxTop - s.items = n - 1
  BY DEF HoldsItems, Nested, TopIndex
<1>2. /\ DOMAIN t = Fields /\ t.fault = NoFault
      /\ t.items = base /\ t.top = base + (n - 1) /\ t.maxTop = (base + 2 * n) - 1
      /\ t.scopeCount = s.scopeCount /\ t.scopeRoom = s.scopeRoom
      /\ t.scopeCapacity = s.scopeCapacity
  BY <1>1 DEF Grow, MovedCells, LastCell, MovedScopes, Fields
<1>3. HoldsItems(t, vals)
  <2>1. t.cells = [k \in 0 .. 2 * n - 1 |-> IF k \in DOMAIN s.cells THEN s.cells[k] ELSE Garbage]
    BY <1>1 DEF Grow, MovedCells, LastCell, MovedScopes, Fields
  <2>2. s.cells \in [0 .. n - 1 -> Values \cup {Garbage}]
    BY <1>1 DEF HoldsItems
  <2>3. t.cells \in [0 .. t.maxTop - t.items -> Values \cup {Garbage}]
    BY <2>1, <2>2, <1>1, <1>2
  <2>4. \A k \in 1 .. n : t.cells[k - 1] = vals[k]
    BY <2>1, <2>2, <1>1 DEF HoldsItems
  <2>. QED
    BY <2>3, <2>4, <1>1, <1>2 DEF HoldsItems
<1>4. HoldsScopes(t, marks)
  <2>1. Len(marks) \in Nat \ {0} /\ \A k \in 1 .. Len(marks) : marks[k] \in Nat
    BY MarksAreHeights
  <2>2. s.items \in Nat /\ s.currentScope = s.items + marks[Len(marks)]
    BY DEF HoldsItems, HoldsScopes
  <2>3. t.currentScope = base + marks[Len(marks)]
    <3>1. t.currentScope = base + (s.currentScope - s.items)
      BY DEF Grow, MovedCells, LastCell, MovedScopes, Fields
    <3>. QED
      BY <3>1, <2>1, <2>2
  <2>4. t.scopes = [i \in DOMAIN s.scopes |->
                      IF i < s.scopeCount THEN base + (s.scopes[i] - s.items) ELSE s.scopes[i]]
    BY DEF Grow, MovedCells, LastCell, MovedScopes, Fields
  <2>5. t.scopes \in [DOMAIN t.scopes -> Int]
    BY <2>2, <2>4 DEF HoldsScopes
  <2>6. ASSUME NEW k \in 1 .. Len(marks) - 1
        PROVE  k - 1 \in DOMAIN t.scopes /\ t.scopes[k - 1] = t.items + marks[k]
    <3>1. /\ k - 1 \in DOMAIN s.scopes /\ k - 1 < s.scopeCount
          /\ s.scopes[k - 1] = s.items + marks[k] /\ marks[k] \in Nat
      BY <2>1 DEF HoldsScopes
    <3>. QED
      BY <3>1, <2>2, <2>4, <1>2
  <2>. QED
    BY <2>3, <2>5, <2>6, <1>2 DEF HoldsScopes
<1>. QED
  BY <1>1, <1>2, <1>3, <1>4

(* Writing at or above the end of what the stack represents, and moving    *)
(* top there, is what is left of every operation once it has grown.        *)
LEMMA PutRepresents ==
  ASSUME NEW s, NEW vals, NEW marks, Represents(s, vals, marks),
         s.top < s.maxTop, NEW item \in Values
  PROVE  /\ Represents(Put(s, item), Append(vals, item), marks)
         /\ Put(s, item).items = s.items
<1>. DEFINE t == Put(s, item)
            n == Len(vals)
            w == Append(vals, item)
<1>. USE DEF Represents, Holds
<1>1. n \in Nat /\ TopIndex(s) = n - 1 /\ vals \in Seq(Values)
  BY DEF HoldsItems, Nested, TopIndex
<1>2. /\ DOMAIN t = Fields /\ t.fault = NoFault
      /\ t.items = s.items /\ t.top = s.top + 1 /\ t.maxTop = s.maxTop
      /\ t.cells = [s.cells EXCEPT ![n] = item]
      /\ t.currentScope = s.currentScope /\ t.scopes = s.scopes
      /\ t.scopeCount = s.scopeCount /\ t.scopeRoom = s.scopeRoom
      /\ t.scopeCapacity = s.scopeCapacity
  BY <1>1 DEF Put, Fields
<1>3. /\ w \in Seq(Values) /\ Len(w) = n + 1
      /\ \A k \in 1 .. n : w[k] = vals[k] /\ w[n + 1] = item
  BY <1>1
<1>4. Nested(w, marks)
  <2>1. /\ marks \in Seq(Nat) /\ Len(marks) \in 1 .. UINT8_MAX
        /\ \A k \in 1 .. Len(marks) : marks[k] <= n /\ marks[k] \in Nat
        /\ \A j, k \in 1 .. Len(marks) : j <= k => marks[j] <= marks[k]
    BY MarksAreHeights DEF Nested
  <2>2. \A k \in 1 .. Len(marks) : marks[k] <= Len(w)
    BY <2>1, <1>1, <1>3
  <2>. QED
    BY <2>1, <2>2, <1>3 DEF Nested
<1>5. HoldsItems(t, w)
  <2>1. /\ s.items \in Nat /\ s.maxTop \in Int /\ s.top = s.items + (n - 1)
        /\ s.cells \in [0 .. s.maxTop - s.items -> Values \cup {Garbage}]
        /\ \A k \in 1 .. n : s.cells[k - 1] = vals[k]
    BY DEF HoldsItems
  <2>2. n \in 0 .. s.maxTop - s.items
    BY <2>1, <1>1
  <2>3. t.cells \in [0 .. t.maxTop - t.items -> Values \cup {Garbage}]
    BY <2>1, <1>2
  <2>4. \A k \in 1 .. n + 1 : t.cells[k - 1] = w[k]
    BY <2>1, <2>2, <1>1, <1>2, <1>3
  <2>5. /\ t.items \in Nat /\ t.maxTop \in Int /\ t.items <= t.maxTop
        /\ t.top = t.items + (Len(w) - 1) /\ t.top <= t.maxTop
    <3>1. s.top + 1 <= s.maxTop /\ s.items <= s.maxTop
      BY <2>1, <1>1 DEF HoldsItems
    <3>2. t.items = s.items /\ t.top = s.top + 1 /\ t.maxTop = s.maxTop /\ Len(w) = n + 1
      BY <1>2, <1>3
    <3>3. s.items \in Nat /\ s.maxTop \in Int /\ s.top = s.items + (n - 1) /\ n \in Nat
      BY <2>1, <1>1
    <3>. QED
      BY <3>1, <3>2, <3>3
  <2>. QED
    BY <2>3, <2>4, <2>5, <1>3 DEF HoldsItems
<1>6. HoldsScopes(t, marks)
  BY <1>2 DEF HoldsScopes
<1>. QED
  BY <1>2, <1>4, <1>5, <1>6

(* Stack_push appends, whether or not it has to grow.                      *)
LEMMA PushRepresents ==
  ASSUME NEW s, NEW vals, NEW marks, Represents(s, vals, marks),
         NEW item \in Values, NEW base \in Nat
  PROVE  /\ Represents(Stack_push(s, item, base), Append(vals, item), marks)
         /\ Stack_push(s, item, base).items \in {s.items, base}
<1>1. CASE s.top = s.maxTop
  BY <1>1, GrowRepresents, PutRepresents DEF Stack_push, Represents, Holds
<1>2. CASE s.top # s.maxTop
  <2>1. s.top < s.maxTop
    BY <1>2 DEF Represents, Holds, HoldsItems, Nested
  <2>. QED
    BY <2>1, <1>2, PutRepresents DEF Stack_push, Represents, Holds
<1>. QED
  BY <1>1, <1>2

(* Taking the last value off, as long as it is not below the scope.        *)
LEMMA PopRepresents ==
  ASSUME NEW s, NEW vals, NEW marks, Represents(s, vals, marks),
         Len(vals) > marks[Len(marks)]
  PROVE  /\ Represents(Stack_pop(s), SubSeq(vals, 1, Len(vals) - 1), marks)
         /\ Stack_peek(s) = vals[Len(vals)]
         /\ Stack_pop(s).items = s.items
<1>. DEFINE t == Stack_pop(s)
            n == Len(vals)
            w == SubSeq(vals, 1, n - 1)
<1>. USE DEF Represents, Holds
<1>1. /\ n \in Nat \ {0} /\ TopIndex(s) = n - 1 /\ vals \in Seq(Values)
      /\ s.items \in Nat /\ s.top = s.items + (n - 1)
  BY MarksAreHeights DEF HoldsItems, Nested, TopIndex
<1>0. t = [s EXCEPT !.top = s.top - 1]
  <2>1. ~(s.top < s.items) /\ s.fault = NoFault
    BY <1>1
  <2>. QED
    BY <2>1 DEF Stack_pop, Stack_isEmpty
<1>2. /\ DOMAIN t = Fields /\ t.fault = NoFault
      /\ t.items = s.items /\ t.top = s.top - 1 /\ t.maxTop = s.maxTop
      /\ t.cells = s.cells
      /\ t.currentScope = s.currentScope /\ t.scopes = s.scopes
      /\ t.scopeCount = s.scopeCount /\ t.scopeRoom = s.scopeRoom
      /\ t.scopeCapacity = s.scopeCapacity
  BY <1>0 DEF Fields
<1>3. /\ w \in Seq(Values) /\ Len(w) = n - 1
      /\ \A k \in 1 .. n - 1 : w[k] = vals[k]
  <2>1. n - 1 \in 0 .. Len(vals)
    BY <1>1
  <2>. QED
    BY <1>1, <2>1, Prefix
<1>4. Nested(w, marks)
  BY <1>3, NestedWithoutLast
<1>5. HoldsItems(t, w)
  BY <1>1, <1>2, <1>3 DEF HoldsItems
<1>6. HoldsScopes(t, marks)
  BY <1>2 DEF HoldsScopes
<1>7. Stack_peek(s) = vals[n]
  <2>1. n - 1 = TopIndex(s) /\ n \in 1 .. n
    BY <1>1
  <2>2. s.cells[n - 1] = vals[n]
    BY <2>1 DEF HoldsItems
  <2>. QED
    BY <2>1, <2>2 DEF Stack_peek
<1>. QED
  BY <1>2, <1>4, <1>5, <1>6, <1>7

(* Stack_pushIndex appends a copy of a value already there.                *)
LEMMA PushIndexRepresents ==
  ASSUME NEW s, NEW vals, NEW marks, Represents(s, vals, marks),
         NEW i \in 1 .. Len(vals), NEW base \in Nat
  PROVE  /\ Represents(Stack_pushIndex(s, i - 1, base), Append(vals, vals[i]), marks)
         /\ Stack_pushIndex(s, i - 1, base).items \in {s.items, base}
<1>1. Len(vals) \in Nat /\ vals[i] \in Values
  BY MarksAreHeights DEF Represents, Holds
<1>2. s.cells[i - 1] = vals[i] /\ s.items \in Nat /\ s.top = s.items + (Len(vals) - 1)
  BY DEF Represents, Holds, HoldsItems
<1>3. ~(s.items + (i - 1) > s.top) /\ s.fault = NoFault
  BY <1>1, <1>2 DEF Represents, Holds
<1>4. Stack_pushIndex(s, i - 1, base) = Stack_push(s, vals[i], base)
  BY <1>2, <1>3 DEF Stack_pushIndex
<1>. QED
  BY <1>1, <1>4, PushRepresents

(* Stack_popToIndex overwrites a value with the last one and drops that.   *)
LEMMA PopToIndexRepresents ==
  ASSUME NEW s, NEW vals, NEW marks, Represents(s, vals, marks),
         Len(vals) > marks[Len(marks)], NEW i \in 1 .. Len(vals)
  PROVE  /\ Represents(Stack_popToIndex(s, i - 1),
                       SubSeq([vals EXCEPT ![i] = vals[Len(vals)]], 1, Len(vals) - 1), marks)
         /\ Stack_popToIndex(s, i - 1).items = s.items
<1>. DEFINE t == Stack_popToIndex(s, i - 1)
            n == Len(vals)
            u == [vals EXCEPT ![i] = vals[n]]
            w == SubSeq(u, 1, n - 1)
<1>. USE DEF Represents, Holds
<1>1. /\ n \in Nat \ {0} /\ TopIndex(s) = n - 1
      /\ s.items \in Nat /\ s.maxTop \in Int /\ s.top = s.items + (n - 1) /\ s.top <= s.maxTop
      /\ s.cells \in [0 .. s.maxTop - s.items -> Values \cup {Garbage}]
  BY MarksAreHeights DEF HoldsItems, TopIndex
<1>2. \A k \in 1 .. n : vals[k] \in Values /\ s.cells[k - 1] = vals[k]
  BY MarksAreHeights DEF HoldsItems
<1>3. Stack_peek(s) = vals[n]
  BY <1>1, <1>2 DEF Stack_peek
<1>4. t = [s EXCEPT !.top = s.top - 1, !.cells = [s.cells EXCEPT ![i - 1] = vals[n]]]
  <2>1. ~(s.items + (i - 1) > s.top) /\ s.fault = NoFault
    BY <1>1
  <2>. QED
    BY <2>1, <1>3 DEF Stack_popToIndex
<1>5. /\ DOMAIN t = Fields /\ t.fault = NoFault
      /\ t.items = s.items /\ t.top = s.top - 1 /\ t.maxTop = s.maxTop
      /\ t.cells = [s.cells EXCEPT ![i - 1] = vals[n]]
      /\ t.currentScope = s.currentScope /\ t.scopes = s.scopes
      /\ t.scopeCount = s.scopeCount /\ t.scopeRoom = s.scopeRoom
      /\ t.scopeCapacity = s.scopeCapacity
  BY <1>4 DEF Fields
<1>6. /\ u \in Seq(Values) /\ Len(u) = n
      /\ \A k \in 1 .. n : u[k] = IF k = i THEN vals[n] ELSE vals[k]
  <2>1. vals \in Seq(Values) /\ vals[n] \in Values
    BY <1>1, <1>2 DEF Nested
  <2>. QED
    BY <2>1, <1>1
<1>7. /\ w \in Seq(Values) /\ Len(w) = n - 1
      /\ \A k \in 1 .. n - 1 : w[k] = u[k]
  <2>1. n - 1 \in 0 .. Len(u)
    BY <1>1, <1>6
  <2>. QED
    BY <1>6, <2>1, Prefix
<1>8. Nested(w, marks)
  BY <1>7, NestedWithoutLast
<1>9. HoldsItems(t, w)
  <2>1. n - 1 \in 0 .. s.maxTop - s.items /\ i - 1 \in 0 .. s.maxTop - s.items
    BY <1>1
  <2>2. t.cells \in [0 .. t.maxTop - t.items -> Values \cup {Garbage}]
    <3>1. vals[n] \in Values
      BY <1>1, <1>2
    <3>2. [s.cells EXCEPT ![i - 1] = vals[n]] \in [0 .. s.maxTop - s.items -> Values \cup {Garbage}]
      BY <3>1, <1>1
    <3>. QED
      BY <3>2, <1>5
  <2>3. ASSUME NEW k \in 1 .. n - 1 PROVE t.cells[k - 1] = w[k]
    <3>1. k \in 1 .. n /\ k - 1 \in 0 .. s.maxTop - s.items /\ (k - 1 = i - 1 <=> k = i)
      BY <2>1, <1>1, SMTT(30)
    <3>2. t.cells[k - 1] = IF k = i THEN vals[n] ELSE s.cells[k - 1]
      BY <3>1, <1>1, <1>5
    <3>. QED
      BY <3>1, <3>2, <1>2, <1>6, <1>7
  <2>4. /\ t.items \in Nat /\ t.maxTop \in Int /\ t.items <= t.maxTop
        /\ t.top = t.items + (Len(w) - 1) /\ t.top <= t.maxTop
    <3>1. t.items = s.items /\ t.top = s.top - 1 /\ t.maxTop = s.maxTop /\ Len(w) = n - 1
      BY <1>5, <1>7
    <3>2. s.items <= s.maxTop
      BY DEF HoldsItems
    <3>. QED
      BY <3>1, <3>2, <1>1
  <2>. QED
    BY <2>2, <2>3, <2>4, <1>7 DEF HoldsItems
<1>10. HoldsScopes(t, marks)
  BY <1>5 DEF HoldsScopes
<1>. QED
  BY <1>5, <1>8, <1>9, <1>10

(* Stack_openScope marks the height, unless the scopes block is missing or *)
(* too small; on no platform does it do anything else.                     *)
LEMMA OpenScopeRepresents ==
  ASSUME NEW s, NEW vals, NEW marks, Represents(s, vals, marks),
         Len(marks) < UINT8_MAX
  PROVE  /\ \/ Represents(Stack_openScope(s), vals, Append(marks, Len(vals)))
            \/ /\ Holds(Stack_openScope(s), vals, marks)
               /\ Stack_openScope(s).fault \in {"scopes is NULL", "scopes overrun"}
         /\ (ReallocZero = "block" /\ Len(marks) <= ZeroRoom) =>
               Represents(Stack_openScope(s), vals, Append(marks, Len(vals)))
         /\ Stack_openScope(s).items = s.items
<1>. DEFINE g == IF s.scopeCount = s.scopeCapacity THEN GrowScopes(s) ELSE s
            m == Len(marks)
            w == Append(marks, Len(vals))
            t == Stack_openScope(s)
<1>. USE DEF Represents, Holds
<1>1. /\ m \in Nat \ {0} /\ m < 255 /\ Len(vals) \in Nat /\ s.items \in Nat
      /\ \A k \in 1 .. m : marks[k] \in Nat
      /\ s.scopeCount = m - 1 /\ s.scopeCapacity = 0 /\ s.scopeRoom \in {0, ZeroRoom}
      /\ s.scopeCount > 0 => s.scopeRoom = ZeroRoom
      /\ s.fault = NoFault
  BY MarksAreHeights DEF HoldsScopes, HoldsItems, UINT8_MAX
<1>2. NewScopeCapacity(0) = 0
  BY DEF NewScopeCapacity
<1>3. \/ /\ g.fault = "scopes is NULL" /\ g.items = s.items /\ ReallocZero = "null"
         /\ Holds(g, vals, marks)
      \/ g = [s EXCEPT !.scopeCapacity = 0, !.scopeRoom = ZeroRoom]
      \/ g = s /\ s.scopeCount > 0
  <2>. DEFINE a == [s EXCEPT !.scopeCapacity = 0, !.scopeRoom = ZeroRoom]
  <2>1. CASE s.scopeCount # 0
    <3>. HIDE DEF m
    <3>1. s.scopeCount > 0 /\ s.scopeCount # s.scopeCapacity
      BY <2>1, <1>1
    <3>. QED
      BY <3>1, Zenon
  <2>2. CASE s.scopeCount = 0
    <3>1. g = GrowScopes(s)
      BY <2>2, <1>1
    <3>2. GrowScopes(s) = IF ReallocZero = "null" /\ s.scopeRoom # 0
                          THEN Fail(a, "scopes is NULL") ELSE a
      <4>1. NewScopeCapacity(s.scopeCapacity) = 0 /\ ~(s.scopeCapacity >= UINT8_MAX)
        BY <1>1, <1>2 DEF UINT8_MAX
      <4>. QED
        BY <4>1 DEF GrowScopes
    <3>3. /\ Fail(a, "scopes is NULL").fault = "scopes is NULL"
          /\ Fail(a, "scopes is NULL").items = s.items
      BY DEF Fail, Fields
    <3>4. Holds(Fail(a, "scopes is NULL"), vals, marks)
      <4>. DEFINE f == Fail(a, "scopes is NULL")
      <4>1. /\ DOMAIN f = Fields /\ f.items = s.items /\ f.top = s.top
            /\ f.maxTop = s.maxTop /\ f.cells = s.cells /\ f.scopes = s.scopes
            /\ f.currentScope = s.currentScope
            /\ f.scopeCount = s.scopeCount /\ f.scopeRoom = ZeroRoom /\ f.scopeCapacity = 0
        BY DEF Fail, Fields
      <4>. HIDE DEF f
      <4>2. HoldsItems(f, vals) /\ HoldsScopes(f, marks)
        BY <4>1 DEF HoldsItems, HoldsScopes
      <4>. QED
        BY <4>1, <4>2 DEF f
    <3>. QED
      BY <3>1, <3>2, <3>3, <3>4
  <2>. QED
    BY <2>1, <2>2
<1>4. t = IF g.fault # NoFault THEN g ELSE SaveScope(g)
  BY <1>1 DEF Stack_openScope
<1>. HIDE DEF g
<1>5. CASE /\ g.fault = "scopes is NULL" /\ g.items = s.items /\ ReallocZero = "null"
           /\ Holds(g, vals, marks)
  BY <1>4, <1>5 DEF NoFault
<1>6. CASE \/ g = [s EXCEPT !.scopeCapacity = 0, !.scopeRoom = ZeroRoom]
           \/ g = s /\ s.scopeCount > 0
  <2>1. /\ DOMAIN g = Fields /\ g.fault = NoFault /\ g.items = s.items /\ g.top = s.top
        /\ g.maxTop = s.maxTop /\ g.cells = s.cells /\ g.scopes = s.scopes
        /\ g.currentScope = s.currentScope
        /\ g.scopeCount = m - 1 /\ g.scopeRoom = ZeroRoom /\ g.scopeCapacity = 0
    <3>. HIDE DEF m
    <3>1. CASE g = [s EXCEPT !.scopeCapacity = 0, !.scopeRoom = ZeroRoom]
      BY <3>1, <1>1 DEF Fields
    <3>2. CASE g = s /\ s.scopeCount > 0
      BY <3>2, <1>1 DEF Fields
    <3>. QED
      BY <3>1, <3>2, <1>6
  <2>2. t = SaveScope(g)
    BY <1>4, <2>1
  <2>3. CASE g.scopeCount >= g.scopeRoom
    <3>1. t.fault = "scopes overrun" /\ t.items = s.items
      BY <2>1, <2>2, <2>3 DEF SaveScope, Fail, Fields
    <3>2. ~(m <= ZeroRoom)
      BY <2>1, <2>3, <1>1, ZeroRoomAssumption
    <3>3. Holds(t, vals, marks)
      <4>1. t = Fail(g, "scopes overrun")
        BY <2>2, <2>3 DEF SaveScope
      <4>2. /\ DOMAIN t = Fields /\ t.items = s.items /\ t.top = s.top
            /\ t.maxTop = s.maxTop /\ t.cells = s.cells /\ t.scopes = s.scopes
            /\ t.currentScope = s.currentScope
            /\ t.scopeCount = s.scopeCount /\ t.scopeRoom = ZeroRoom /\ t.scopeCapacity = 0
        BY <4>1, <2>1, <1>1 DEF Fail, Fields
      <4>. HIDE DEF t
      <4>3. HoldsItems(t, vals) /\ HoldsScopes(t, marks)
        BY <4>2 DEF HoldsItems, HoldsScopes
      <4>. QED
        BY <4>2, <4>3
    <3>. QED
      BY <3>1, <3>2, <3>3
  <2>4. CASE ~(g.scopeCount >= g.scopeRoom)
    <3>1. /\ DOMAIN t = Fields /\ t.fault = NoFault /\ t.items = s.items /\ t.top = s.top
          /\ t.maxTop = s.maxTop /\ t.cells = s.cells
          /\ t.currentScope = s.top + 1 /\ t.scopeCount = m
          /\ t.scopeRoom = ZeroRoom /\ t.scopeCapacity = 0
      <4>1. ((m - 1) + 1) % 256 = m
        BY <1>1
      <4>. QED
        BY <4>1, <2>1, <2>2, <2>4 DEF SaveScope, Fields, UINT8_MAX
    <3>2. t.scopes = [i \in 0 .. m - 1 |-> IF i = m - 1 THEN s.currentScope ELSE s.scopes[i]]
      BY <2>1, <2>2, <2>4 DEF SaveScope, Fields
    <3>3. /\ w \in Seq(Nat) /\ Len(w) = m + 1 /\ w[m + 1] = Len(vals)
          /\ \A k \in 1 .. m : w[k] = marks[k]
      <4>1. marks \in Seq(Nat)
        BY DEF Nested
      <4>. QED
        BY <4>1, <1>1, AppendProperties
    <3>4. Nested(vals, w)
      <4>1. /\ vals \in Seq(Values)
            /\ \A k \in 1 .. m : marks[k] <= Len(vals)
            /\ \A j, k \in 1 .. m : j <= k => marks[j] <= marks[k]
        BY DEF Nested
      <4>2. Len(w) \in 1 .. UINT8_MAX
        <5>. HIDE DEF m, w
        <5>1. m + 1 \in 1 .. UINT8_MAX
          BY <1>1 DEF UINT8_MAX
        <5>. QED
          BY <5>1, <3>3, Zenon
      <4>3. \A k \in 1 .. m + 1 : w[k] <= Len(vals)
        BY <4>1, <1>1, <3>3
      <4>4. \A j, k \in 1 .. m + 1 : j <= k => w[j] <= w[k]
        BY <4>1, <4>3, <1>1, <3>3
      <4>. QED
        BY <4>1, <4>2, <4>3, <4>4, <3>3 DEF Nested
    <3>5. HoldsItems(t, vals)
      BY <3>1 DEF HoldsItems
    <3>6. HoldsScopes(t, w)
      <4>1. t.currentScope = t.items + w[Len(w)]
        <5>1. s.top = s.items + (Len(vals) - 1)
          BY DEF HoldsItems
        <5>. QED
          BY <5>1, <1>1, <3>1, <3>3
      <4>2. /\ s.currentScope = s.items + marks[m]
            /\ \A k \in 1 .. m - 1 : s.scopes[k - 1] = s.items + marks[k]
        BY DEF HoldsScopes
      <4>3. \A k \in 1 .. m :
              k - 1 \in DOMAIN t.scopes /\ t.scopes[k - 1] = s.items + marks[k]
        BY <4>2, <3>2, <1>1
      <4>4. t.scopes \in [DOMAIN t.scopes -> Int]
        <5>1. DOMAIN t.scopes = 0 .. m - 1 /\ t.scopes = [i \in DOMAIN t.scopes |-> t.scopes[i]]
          BY <3>2
        <5>2. \A i \in 0 .. m - 1 : t.scopes[i] \in Int
          <6>. TAKE i \in 0 .. m - 1
          <6>1. i + 1 \in 1 .. m /\ (i + 1) - 1 = i
            BY <1>1
          <6>. QED
            BY <6>1, <4>3, <1>1
        <5>. QED
          BY <5>1, <5>2
      <4>. QED
        BY <4>1, <4>3, <4>4, <3>1, <3>3, <1>1 DEF HoldsScopes
    <3>. QED
      BY <3>1, <3>4, <3>5, <3>6
  <2>. QED
    BY <2>3, <2>4
<1>. QED
  BY <1>3, <1>5, <1>6

(* Stack_closeScope drops the values of the scope but the last.            *)
LEMMA CloseScopeRepresents ==
  ASSUME NEW s, NEW vals, NEW marks, Represents(s, vals, marks),
         Len(marks) > 1, Len(vals) > marks[Len(marks)]
  PROVE  /\ Represents(Stack_closeScope(s),
                       Append(SubSeq(vals, 1, marks[Len(marks)]), vals[Len(vals)]),
                       SubSeq(marks, 1, Len(marks) - 1))
         /\ Stack_closeScope(s).items = s.items
<1>. DEFINE t == Stack_closeScope(s)
            n == Len(vals)
            m == Len(marks)
            below == marks[m]
            p == SubSeq(vals, 1, below)
            w == Append(p, vals[n])
            outer == SubSeq(marks, 1, m - 1)
<1>. USE DEF Represents, Holds
<1>1. /\ n \in Nat \ {0} /\ m \in Nat \ {0, 1} /\ below \in Nat /\ below < n
      /\ \A k \in 1 .. m : marks[k] \in Nat
      /\ \A k \in 1 .. n : vals[k] \in Values
      /\ vals \in Seq(Values) /\ marks \in Seq(Nat)
  <2>1. /\ n \in Nat /\ m \in Nat \ {0} /\ \A k \in 1 .. m : marks[k] \in Nat
        /\ \A k \in 1 .. n : vals[k] \in Values
    BY MarksAreHeights
  <2>2. m # 1 /\ n # 0 /\ below \in Nat
    BY <2>1
  <2>. QED
    BY <2>1, <2>2 DEF Nested
<1>2. /\ s.items \in Nat /\ s.maxTop \in Int /\ s.items <= s.maxTop
      /\ s.top = s.items + (n - 1) /\ s.top <= s.maxTop
      /\ s.cells \in [0 .. s.maxTop - s.items -> Values \cup {Garbage}]
      /\ \A k \in 1 .. n : s.cells[k - 1] = vals[k]
  BY DEF HoldsItems
<1>3. /\ s.currentScope = s.items + below /\ s.scopeCount = m - 1
      /\ s.scopes \in [DOMAIN s.scopes -> Int]
      /\ \A k \in 1 .. m - 1 :
           k - 1 \in DOMAIN s.scopes /\ s.scopes[k - 1] = s.items + marks[k]
      /\ s.scopeCapacity = 0 /\ s.scopeRoom = ZeroRoom
  BY <1>1 DEF HoldsScopes
<1>4. t = [s EXCEPT !.cells = [s.cells EXCEPT ![below] = vals[n]],
                    !.top = s.items + below,
                    !.scopeCount = m - 2,
                    !.currentScope = s.items + marks[m - 1]]
  <2>1. ~(s.currentScope > s.top) /\ s.scopeCount # 0 /\ s.fault = NoFault
    BY <1>1, <1>2, <1>3
  <2>2. Stack_peek(s) = vals[n]
    BY <1>1, <1>2, SMTT(30) DEF Stack_peek, TopIndex
  <2>3. s.currentScope - s.items = below /\ s.scopeCount - 1 = m - 2
    BY <1>1, <1>2, <1>3
  <2>4. s.scopes[m - 2] = s.items + marks[m - 1]
    <3>1. m - 1 \in 1 .. m - 1 /\ (m - 1) - 1 = m - 2
      BY <1>1
    <3>. QED
      BY <3>1, <1>3
  <2>. QED
    BY <2>1, <2>2, <2>3, <2>4, <1>3 DEF Stack_closeScope, ReturnFromScope
<1>5. /\ DOMAIN t = Fields /\ t.fault = NoFault
      /\ t.items = s.items /\ t.top = s.items + below /\ t.maxTop = s.maxTop
      /\ t.cells = [s.cells EXCEPT ![below] = vals[n]]
      /\ t.currentScope = s.items + marks[m - 1] /\ t.scopes = s.scopes
      /\ t.scopeCount = m - 2 /\ t.scopeRoom = s.scopeRoom
      /\ t.scopeCapacity = s.scopeCapacity
  BY <1>4 DEF Fields
<1>6. /\ p \in Seq(Values) /\ Len(p) = below /\ \A k \in 1 .. below : p[k] = vals[k]
  <2>1. below \in 0 .. Len(vals)
    BY <1>1
  <2>. QED
    BY <2>1, <1>1, Prefix
<1>7. /\ w \in Seq(Values) /\ Len(w) = below + 1 /\ w[below + 1] = vals[n]
      /\ \A k \in 1 .. below : w[k] = vals[k]
  <2>1. vals[n] \in Values
    BY <1>1
  <2>. QED
    BY <2>1, <1>1, <1>6, AppendProperties
<1>8. /\ outer \in Seq(Nat) /\ Len(outer) = m - 1 /\ \A k \in 1 .. m - 1 : outer[k] = marks[k]
  <2>1. m - 1 \in 0 .. Len(marks)
    BY <1>1
  <2>. QED
    BY <2>1, <1>1, Prefix
<1>9. Nested(w, outer)
  <2>1. m \in 1 .. UINT8_MAX /\ \A j, k \in 1 .. m : j <= k => marks[j] <= marks[k]
    BY DEF Nested
  <2>2. m - 1 \in 1 .. UINT8_MAX
    <3>. HIDE DEF m
    <3>1. m \in Nat \ {0, 1}
      BY ONLY <1>1
    <3>2. m \in 1 .. UINT8_MAX
      BY ONLY <2>1
    <3>. QED
      BY ONLY <3>1, <3>2 DEF UINT8_MAX
  <2>3. \A k \in 1 .. m - 1 : outer[k] <= Len(w)
    <3>. TAKE k \in 1 .. m - 1
    <3>1. marks[k] <= below /\ marks[k] \in Nat
      BY <2>1, <1>1
    <3>. QED
      <4>1. outer[k] = marks[k] /\ Len(w) = below + 1 /\ below \in Nat
        BY <1>1, <1>7, <1>8
      <4>. QED
        BY <3>1, <4>1
  <2>4. \A j, k \in 1 .. m - 1 : j <= k => outer[j] <= outer[k]
    <3>. HIDE DEF m, outer
    <3>. TAKE j, k \in 1 .. m - 1
    <3>1. j \in 1 .. m /\ k \in 1 .. m
      BY <1>1
    <3>. QED
      BY <3>1, <2>1, <1>8
  <2>. QED
    BY <2>2, <2>3, <2>4, <1>7, <1>8 DEF Nested
<1>10. HoldsItems(t, w)
  <2>1. t.cells \in [0 .. t.maxTop - t.items -> Values \cup {Garbage}]
    <3>1. vals[n] \in Values
      BY <1>1
    <3>2. [s.cells EXCEPT ![below] = vals[n]] \in [0 .. s.maxTop - s.items -> Values \cup {Garbage}]
      BY <3>1, <1>2
    <3>. QED
      BY <3>2, <1>5
  <2>2. \A k \in 1 .. below + 1 : t.cells[k - 1] = w[k]
    <3>. TAKE k \in 1 .. below + 1
    <3>1. k - 1 \in 0 .. s.maxTop - s.items /\ k \in 1 .. n
      BY <1>1, <1>2, SMTT(30)
    <3>2. t.cells[k - 1] = IF k - 1 = below THEN vals[n] ELSE vals[k]
      BY <3>1, <1>1, <1>2, <1>5
    <3>. QED
      BY <3>2, <1>1, <1>7
  <2>3. /\ t.items \in Nat /\ t.maxTop \in Int /\ t.items <= t.maxTop
        /\ t.top = t.items + (Len(w) - 1) /\ t.top <= t.maxTop
    <3>1. t.items = s.items /\ t.top = s.items + below /\ t.maxTop = s.maxTop /\ Len(w) = below + 1
      BY <1>5, <1>7
    <3>. QED
      BY <3>1, <1>1, <1>2, SMTT(30)
  <2>. QED
    BY <2>1, <2>2, <2>3, <1>7 DEF HoldsItems
<1>11. HoldsScopes(t, outer)
  <2>1. m - 1 \in 1 .. m - 1
    BY <1>1
  <2>2. t.currentScope = t.items + outer[Len(outer)]
    BY <2>1, <1>5, <1>8
  <2>3. ASSUME NEW k \in 1 .. (m - 1) - 1
        PROVE  k - 1 \in DOMAIN t.scopes /\ t.scopes[k - 1] = t.items + outer[k]
    <3>1. k \in 1 .. m - 1
      BY <1>1
    <3>. QED
      BY <3>1, <1>3, <1>5, <1>8
  <2>4. t.scopeCount = Len(outer) - 1
    <3>1. (m - 1) - 1 = m - 2
      BY <1>1
    <3>. QED
      BY <3>1, <1>5, <1>8
  <2>. QED
    BY <2>2, <2>3, <2>4, <1>3, <1>5, <1>8 DEF HoldsScopes
<1>. QED
  BY <1>5, <1>9, <1>10, <1>11

(* What a stack holds is what its pointers say.                            *)
LEMMA HoldsDetermines ==
  ASSUME NEW s, NEW vals, NEW marks, Holds(s, vals, marks)
  PROVE  vals = ValuesOf(s) /\ marks = MarksOf(s)
<1>1. /\ Len(vals) \in Nat /\ vals \in Seq(Values)
      /\ Len(marks) \in Nat \ {0} /\ marks \in Seq(Nat)
      /\ \A k \in 1 .. Len(marks) : marks[k] \in Nat
  BY MarksAreHeights DEF Holds, Nested
<1>2. s.items \in Nat /\ s.top = s.items + (Len(vals) - 1)
  BY DEF Holds, HoldsItems
<1>3. vals = ValuesOf(s)
  <2>1. TopIndex(s) + 1 = Len(vals)
    BY <1>1, <1>2 DEF TopIndex
  <2>2. \A k \in 1 .. Len(vals) : vals[k] = s.cells[k - 1]
    BY DEF Holds, HoldsItems
  <2>3. vals = [k \in 1 .. Len(vals) |-> s.cells[k - 1]]
    BY <1>1, <2>2, LenProperties
  <2>. QED
    BY <2>1, <2>3 DEF ValuesOf
<1>4. marks = MarksOf(s)
  <2>. DEFINE m == Len(marks)
              at == [k \in 1 .. m |->
                       (IF k = m THEN s.currentScope ELSE s.scopes[k - 1]) - s.items]
  <2>1. s.scopeCount + 1 = m
    BY <1>1 DEF Holds, HoldsScopes
  <2>2. ASSUME NEW k \in 1 .. m PROVE at[k] = marks[k]
    <3>1. CASE k = m
      BY <3>1, <1>1, <1>2 DEF Holds, HoldsScopes
    <3>2. CASE k # m
      <4>1. k \in 1 .. m - 1
        BY <3>2, <1>1
      <4>2. s.scopes[k - 1] = s.items + marks[k]
        BY <4>1 DEF Holds, HoldsScopes
      <4>. QED
        BY <4>2, <3>2, <1>1, <1>2
    <3>. QED
      BY <3>1, <3>2
  <2>3. marks = at
    <3>1. DOMAIN marks = 1 .. m /\ marks = [k \in DOMAIN marks |-> marks[k]]
      BY <1>1, LenProperties
    <3>. QED
      BY <2>2, <3>1
  <2>. QED
    BY <2>1, <2>3 DEF MarksOf
<1>. QED
  BY <1>3, <1>4
-------------------------------------------------------------------------------
(* The state machine.                                                      *)

FaultsOfScopes == stack.fault \in {NoFault, "scopes is NULL", "scopes overrun"}

IInv ==
  /\ Holds(stack, ValuesOf(stack), MarksOf(stack))
  /\ stack.items \in Bases
  /\ FaultsOfScopes
  /\ height \in Nat /\ starts \in Seq(Nat)
  /\ Running => height = Len(ValuesOf(stack)) /\ starts = MarksOf(stack)

(* Where realloc(p, 0) gives a block with room for every scope.            *)
RoomForScopes == ReallocZero = "block" /\ MaxScopes <= ZeroRoom

(* A new stack, wherever its block was put, satisfies the invariant.       *)
LEMMA InitHolds == Init => IInv
<1>. SUFFICES ASSUME Init PROVE IInv
  OBVIOUS
<1>1. PICK base \in Bases : stack = Stack_init(base)
  BY DEF Init
<1>2. Represents(stack, <<>>, <<0>>)
  BY <1>1, InitRepresents, BasesAssumption
<1>3. ValuesOf(stack) = <<>> /\ MarksOf(stack) = <<0>>
  BY <1>2, HoldsDetermines DEF Represents
<1>4. stack.items = base
  BY <1>1 DEF Stack_init
<1>. QED
  BY <1>2, <1>3, <1>4 DEF Init, IInv, Represents, FaultsOfScopes

(* A step after which the stack represents values and marks that the       *)
(* caller's record agrees with keeps the invariant.                        *)
LEMMA StepHolds ==
  ASSUME NEW vals, NEW marks, Represents(stack', vals, marks), stack.items' \in Bases,
         height' = Len(vals), starts' = marks
  PROVE  /\ IInv'
         /\ ValuesOf(stack') = vals /\ MarksOf(stack') = marks /\ stack.fault' = NoFault
<1>1. ValuesOf(stack') = vals /\ MarksOf(stack') = marks
  BY HoldsDetermines DEF Represents
<1>2. Len(vals) \in Nat /\ marks \in Seq(Nat)
  BY MarksAreHeights DEF Represents, Holds, Nested
<1>. QED
  BY <1>1, <1>2 DEF IInv, Represents, FaultsOfScopes, Running

(* What the invariant says of a running machine.                           *)
LEMMA RunningStack ==
  ASSUME IInv, Running
  PROVE  /\ Represents(stack, ValuesOf(stack), MarksOf(stack))
         /\ height = Len(ValuesOf(stack)) /\ height \in Nat
         /\ starts = MarksOf(stack) /\ starts \in Seq(Nat) /\ Len(starts) \in Nat
BY DEF IInv, Running, Represents

(* Taking the last value off leaves one fewer.                             *)
LEMMA ShorterByOne ==
  ASSUME NEW s, NEW vals, NEW marks, Represents(s, vals, marks),
         Len(vals) > marks[Len(marks)]
  PROVE  Len(SubSeq(vals, 1, Len(vals) - 1)) = Len(vals) - 1
<1>1. /\ vals \in Seq(Values) /\ Len(vals) \in Nat /\ Len(marks) \in Nat \ {0}
      /\ \A k \in 1 .. Len(marks) : marks[k] \in Nat
  BY MarksAreHeights DEF Represents, Holds, Nested
<1>2. Len(vals) - 1 \in 0 .. Len(vals)
  BY <1>1
<1>. QED
  BY <1>1, <1>2, Prefix

(* Stack_push keeps the invariant and is the promised Push.                *)
LEMMA PushStep ==
  ASSUME IInv, Push
  PROVE  IInv' /\ stack.fault' = NoFault /\ \E v \in Values : Abstract!Push(v)
<1>. DEFINE vals == ValuesOf(stack)
            marks == MarksOf(stack)
<1>1. PICK v \in Values, base \in Bases : stack' = Stack_push(stack, v, base)
  BY DEF Push
<1>2. Running /\ height' = height + 1 /\ starts' = starts
  BY DEF Push
<1>3. base \in Nat /\ stack.items \in Bases
  BY BasesAssumption DEF IInv
<1>4. Represents(stack, vals, marks) /\ height = Len(vals) /\ starts = marks /\ vals \in Seq(Values)
  BY <1>2, RunningStack DEF Represents, Holds, Nested
<1>5. Represents(stack', Append(vals, v), marks) /\ stack.items' \in {stack.items, base}
  BY <1>1, <1>3, <1>4, PushRepresents
<1>6. height' = Len(Append(vals, v)) /\ stack.items' \in Bases /\ starts' = marks
  BY <1>2, <1>3, <1>4, <1>5
<1>7. IInv' /\ stack.fault' = NoFault /\ ValuesOf(stack') = Append(vals, v) /\ MarksOf(stack') = marks
  <2>1. PICK w : w = Append(vals, v)
    OBVIOUS
  <2>2. Represents(stack', w, marks) /\ height' = Len(w)
    BY <2>1, <1>5, <1>6
  <2>3. stack.items' \in Bases /\ starts' = marks
    BY <1>5, <1>6
  <2>4. IInv' /\ stack.fault' = NoFault /\ ValuesOf(stack') = w /\ MarksOf(stack') = marks
    BY <2>2, <2>3, StepHolds
  <2>. QED
    BY <2>1, <2>4
<1>. QED
  BY <1>7 DEF Abstract!Push

(* Stack_pushIndex keeps the invariant and is the promised PushIndex.      *)
LEMMA PushIndexStep ==
  ASSUME IInv, PushIndex
  PROVE  IInv' /\ stack.fault' = NoFault /\ \E i \in 1 .. Len(ValuesOf(stack)) : Abstract!PushIndex(i)
<1>. DEFINE vals == ValuesOf(stack)
            marks == MarksOf(stack)
<1>1. PICK j \in 0 .. height - 1, base \in Bases : stack' = Stack_pushIndex(stack, j, base)
  BY DEF PushIndex
<1>2. Running /\ height' = height + 1 /\ starts' = starts
  BY DEF PushIndex
<1>3. base \in Nat /\ stack.items \in Bases
  BY BasesAssumption DEF IInv
<1>4. Represents(stack, vals, marks) /\ height = Len(vals) /\ starts = marks /\ vals \in Seq(Values)
  BY <1>2, RunningStack DEF Represents, Holds, Nested
<1>5. PICK i \in 1 .. Len(vals) : j = i - 1
  <2>1. j + 1 \in 1 .. Len(vals) /\ j = (j + 1) - 1
    BY <1>4
  <2>. QED
    BY <2>1, Zenon
<1>6. Represents(stack', Append(vals, vals[i]), marks) /\ stack.items' \in {stack.items, base}
  BY <1>1, <1>3, <1>4, <1>5, PushIndexRepresents
<1>7. height' = Len(Append(vals, vals[i])) /\ stack.items' \in Bases /\ starts' = marks
  BY <1>2, <1>3, <1>4, <1>6
<1>8. IInv' /\ stack.fault' = NoFault /\ ValuesOf(stack') = Append(vals, vals[i]) /\ MarksOf(stack') = marks
  <2>1. PICK w : w = Append(vals, vals[i])
    OBVIOUS
  <2>2. Represents(stack', w, marks) /\ height' = Len(w)
    BY <2>1, <1>6, <1>7
  <2>3. stack.items' \in Bases /\ starts' = marks
    BY <1>6, <1>7
  <2>4. IInv' /\ stack.fault' = NoFault /\ ValuesOf(stack') = w /\ MarksOf(stack') = marks
    BY <2>2, <2>3, StepHolds
  <2>. QED
    BY <2>1, <2>4
<1>. QED
  BY <1>8 DEF Abstract!PushIndex

(* Stack_pop keeps the invariant and is the promised Pop.                  *)
LEMMA PopStep ==
  ASSUME IInv, Pop
  PROVE  IInv' /\ stack.fault' = NoFault /\ Abstract!Pop
<1>. DEFINE vals == ValuesOf(stack)
            marks == MarksOf(stack)
            rest == SubSeq(vals, 1, Len(vals) - 1)
<1>1. Running /\ InScope /\ stack' = Stack_pop(stack) /\ height' = height - 1 /\ starts' = starts
  BY DEF Pop
<1>2. /\ Represents(stack, vals, marks) /\ height = Len(vals) /\ starts = marks
      /\ Len(vals) > marks[Len(marks)]
  BY <1>1, RunningStack DEF InScope
<1>3. Represents(stack', rest, marks) /\ stack.items' \in Bases
  BY <1>1, <1>2, PopRepresents DEF IInv
<1>4. height' = Len(rest)
  BY <1>1, <1>2, <1>3, ShorterByOne
<1>5. IInv' /\ stack.fault' = NoFault /\ ValuesOf(stack') = rest /\ MarksOf(stack') = marks
  BY <1>1, <1>2, <1>3, <1>4, StepHolds
<1>. QED
  BY <1>2, <1>5 DEF Abstract!Pop, Abstract!InScope

(* Stack_popToIndex keeps the invariant and is the promised PopToIndex.    *)
LEMMA PopToIndexStep ==
  ASSUME IInv, PopToIndex
  PROVE  IInv' /\ stack.fault' = NoFault /\ \E i \in 1 .. Len(ValuesOf(stack)) : Abstract!PopToIndex(i)
<1>. DEFINE vals == ValuesOf(stack)
            marks == MarksOf(stack)
<1>1. PICK j \in 0 .. height - 1 : stack' = Stack_popToIndex(stack, j)
  BY DEF PopToIndex
<1>2. Running /\ InScope /\ height' = height - 1 /\ starts' = starts
  BY DEF PopToIndex
<1>3. /\ Represents(stack, vals, marks) /\ height = Len(vals) /\ starts = marks
      /\ Len(vals) > marks[Len(marks)] /\ Len(vals) \in Nat
  BY <1>2, RunningStack DEF InScope
<1>4. PICK i \in 1 .. Len(vals) : j = i - 1
  <2>1. j + 1 \in 1 .. Len(vals) /\ j = (j + 1) - 1
    BY <1>3
  <2>. QED
    BY <2>1, Zenon
<1>. DEFINE u == [vals EXCEPT ![i] = vals[Len(vals)]]
            rest == SubSeq(u, 1, Len(vals) - 1)
<1>5. Represents(stack', rest, marks) /\ stack.items' \in Bases
  BY <1>1, <1>3, <1>4, PopToIndexRepresents DEF IInv
<1>6. height' = Len(rest)
  <2>1. vals \in Seq(Values) /\ vals[Len(vals)] \in Values
    BY <1>3, <1>4, MarksAreHeights DEF Represents, Holds, Nested
  <2>2. u \in Seq(Values) /\ Len(u) = Len(vals)
    BY <2>1, <1>4
  <2>3. Len(vals) - 1 \in 0 .. Len(u)
    BY <2>2, <1>3, <1>4
  <2>. QED
    BY <2>2, <2>3, <1>2, <1>3, Prefix
<1>7. IInv' /\ stack.fault' = NoFault /\ ValuesOf(stack') = rest /\ MarksOf(stack') = marks
  <2>1. PICK w : w = rest
    OBVIOUS
  <2>2. Represents(stack', w, marks) /\ height' = Len(w)
    BY <2>1, <1>2, <1>3, <1>5, <1>6
  <2>3. stack.items' \in Bases /\ starts' = marks
    BY <1>2, <1>3, <1>5, <1>6
  <2>4. IInv' /\ stack.fault' = NoFault /\ ValuesOf(stack') = w /\ MarksOf(stack') = marks
    BY <2>2, <2>3, StepHolds
  <2>. QED
    BY <2>1, <2>4
<1>. QED
  BY <1>3, <1>7 DEF Abstract!PopToIndex, Abstract!InScope

(* Stack_openScope keeps the invariant and opens the promised scope, or    *)
(* fails and changes no value; with room for the scopes it does not fail.  *)
LEMMA OpenScopeStep ==
  ASSUME IInv, OpenScope
  PROVE  /\ IInv'
         /\ RoomForScopes => stack.fault' = NoFault
         /\ Abstract!OpenScope \/ UNCHANGED <<ValuesOf(stack), MarksOf(stack)>>
<1>. DEFINE vals == ValuesOf(stack)
            marks == MarksOf(stack)
<1>1. /\ Running /\ Len(starts) <= MaxScopes
      /\ stack' = Stack_openScope(stack) /\ starts' = Append(starts, height) /\ height' = height
  BY DEF OpenScope
<1>2. /\ Represents(stack, vals, marks) /\ height = Len(vals) /\ starts = marks
      /\ height \in Nat /\ starts \in Seq(Nat)
  BY <1>1, RunningStack
<1>3. Len(marks) < UINT8_MAX /\ (RoomForScopes => ReallocZero = "block" /\ Len(marks) <= ZeroRoom)
  <2>1. Len(marks) \in Nat
    BY <1>2
  <2>. QED
    BY <2>1, <1>1, <1>2, BoundsAssumption, ZeroRoomAssumption DEF RoomForScopes, UINT8_MAX
<1>4. stack.items' \in Bases
  BY <1>1, <1>2, <1>3, OpenScopeRepresents DEF IInv
<1>5. CASE Represents(stack', vals, Append(marks, Len(vals)))
  <2>1. PICK m : m = Append(marks, Len(vals))
    OBVIOUS
  <2>2. Represents(stack', vals, m) /\ starts' = m /\ height' = Len(vals)
    BY <2>1, <1>1, <1>2, <1>5
  <2>3. IInv' /\ ValuesOf(stack') = vals /\ MarksOf(stack') = m /\ stack.fault' = NoFault
    BY <2>2, <1>4, StepHolds
  <2>. QED
    BY <2>1, <2>3 DEF Abstract!OpenScope
<1>6. CASE ~Represents(stack', vals, Append(marks, Len(vals)))
  <2>1. /\ Holds(stack', vals, marks)
        /\ stack.fault' \in {"scopes is NULL", "scopes overrun"}
        /\ ~RoomForScopes
    BY <1>1, <1>2, <1>3, <1>6, OpenScopeRepresents
  <2>2. ValuesOf(stack') = vals /\ MarksOf(stack') = marks
    BY <2>1, HoldsDetermines
  <2>3. height' \in Nat /\ starts' \in Seq(Nat)
    BY <1>1, <1>2
  <2>4. IInv'
    BY <2>1, <2>2, <2>3, <1>4 DEF IInv, FaultsOfScopes, Running, NoFault
  <2>. QED
    BY <2>1, <2>2, <2>4
<1>. QED
  BY <1>5, <1>6

(* Stack_closeScope keeps the invariant and is the promised CloseScope.    *)
LEMMA CloseScopeStep ==
  ASSUME IInv, CloseScope
  PROVE  IInv' /\ stack.fault' = NoFault /\ Abstract!CloseScope
<1>. DEFINE vals == ValuesOf(stack)
            marks == MarksOf(stack)
            below == marks[Len(marks)]
            kept == Append(SubSeq(vals, 1, below), vals[Len(vals)])
            outer == SubSeq(marks, 1, Len(marks) - 1)
<1>1. /\ Running /\ InScope /\ Len(starts) > 1 /\ stack' = Stack_closeScope(stack)
      /\ height' = starts[Len(starts)] + 1
      /\ starts' = SubSeq(starts, 1, Len(starts) - 1)
  BY DEF CloseScope
<1>2. /\ Represents(stack, vals, marks) /\ height = Len(vals) /\ starts = marks
      /\ Len(vals) > below /\ Len(marks) > 1
  BY <1>1, RunningStack DEF InScope
<1>3. Represents(stack', kept, outer) /\ stack.items' \in Bases
  BY <1>1, <1>2, CloseScopeRepresents DEF IInv
<1>4. height' = Len(kept)
  <2>1. vals \in Seq(Values) /\ Len(vals) \in Nat /\ below \in Nat /\ vals[Len(vals)] \in Values
    <3>1. /\ vals \in Seq(Values) /\ Len(vals) \in Nat /\ below \in Nat
          /\ \A k \in 1 .. Len(vals) : vals[k] \in Values
      BY <1>2, MarksAreHeights DEF Represents, Holds, Nested
    <3>2. Len(vals) \in 1 .. Len(vals)
      BY <3>1, <1>2
    <3>. QED
      BY <3>1, <3>2
  <2>2. below \in 0 .. Len(vals)
    BY <2>1, <1>2
  <2>3. SubSeq(vals, 1, below) \in Seq(Values) /\ Len(SubSeq(vals, 1, below)) = below
    BY <2>1, <2>2, Prefix
  <2>4. Len(kept) = below + 1
    BY <2>1, <2>3, AppendProperties
  <2>. QED
    BY <2>4, <1>1, <1>2
<1>5. starts' = outer
  BY <1>1, <1>2
<1>6. IInv' /\ stack.fault' = NoFault /\ ValuesOf(stack') = kept /\ MarksOf(stack') = outer
  <2>1. PICK w, m : w = kept /\ m = outer
    OBVIOUS
  <2>2. Represents(stack', w, m) /\ height' = Len(w) /\ starts' = m
    BY <2>1, <1>3, <1>4, <1>5
  <2>3. IInv' /\ stack.fault' = NoFault /\ ValuesOf(stack') = w /\ MarksOf(stack') = m
    BY <2>2, <1>3, StepHolds
  <2>. QED
    BY <2>1, <2>3
<1>. QED
  BY <1>2, <1>6 DEF Abstract!CloseScope, Abstract!InScope

(* Every step keeps the invariant, is a step of the abstract stack or one  *)
(* it does not see, and fails only where the scopes block is too small.    *)
LEMMA NextHolds ==
  ASSUME IInv, [Next]_vars
  PROVE  /\ IInv'
         /\ (RoomForScopes /\ stack.fault = NoFault) => stack.fault' = NoFault
         /\ [Abstract!Next]_(Abstract!vars)
<1>. DEFINE vals == ValuesOf(stack)
<1>1. CASE Push
  BY <1>1, PushStep DEF Abstract!Next
<1>2. CASE Pop
  BY <1>2, PopStep DEF Abstract!Next
<1>3. CASE PushIndex
  BY <1>3, PushIndexStep DEF Abstract!Next
<1>4. CASE PopToIndex
  BY <1>4, PopToIndexStep DEF Abstract!Next
<1>5. CASE OpenScope
  BY <1>5, OpenScopeStep DEF Abstract!Next, Abstract!vars
<1>6. CASE CloseScope
  BY <1>6, CloseScopeStep DEF Abstract!Next
<1>7. CASE UNCHANGED vars
  BY <1>7 DEF vars, IInv, FaultsOfScopes, Running, Abstract!vars, ValuesOf, MarksOf, TopIndex
<1>. QED
  BY <1>1, <1>2, <1>3, <1>4, <1>5, <1>6, <1>7 DEF Next

(* The invariant holds in every behaviour.                                 *)
LEMMA Inductive == Spec => []IInv
<1>1. Init => IInv
  BY InitHolds
<1>2. IInv /\ [Next]_vars => IInv'
  BY NextHolds
<1>. QED
  BY <1>1, <1>2, PTL DEF Spec

-------------------------------------------------------------------------------
(* The shape of the struct and its blocks survives every operation.        *)
THEOREM TypeCorrect == Spec => []TypeOK
<1>1. IInv => TypeOK
  <2>. SUFFICES ASSUME IInv PROVE TypeOK
    OBVIOUS
  <2>1. /\ DOMAIN stack = Fields /\ stack.items \in Nat /\ stack.maxTop \in Int
        /\ Len(ValuesOf(stack)) \in Nat
        /\ stack.top = stack.items + (Len(ValuesOf(stack)) - 1)
        /\ stack.cells \in [0 .. stack.maxTop - stack.items -> Values \cup {Garbage}]
    BY MarksAreHeights DEF IInv, Holds, HoldsItems
  <2>2. Capacity(stack) - 1 = stack.maxTop - stack.items
    BY <2>1 DEF Capacity
  <2>3. /\ Len(MarksOf(stack)) \in Nat \ {0} /\ Len(MarksOf(stack)) <= UINT8_MAX
        /\ MarksOf(stack)[Len(MarksOf(stack))] \in Nat
    BY MarksAreHeights DEF IInv, Holds, Nested
  <2>4. /\ stack.currentScope \in Int /\ stack.scopeCount \in 0 .. UINT8_MAX
        /\ stack.scopes \in [DOMAIN stack.scopes -> Int]
        /\ stack.scopeCapacity \in 0 .. UINT8_MAX /\ stack.scopeRoom \in Nat
    <3>. DEFINE m == Len(MarksOf(stack))
                below == MarksOf(stack)[m]
    <3>1. /\ stack.currentScope = stack.items + below /\ stack.scopeCount = m - 1
          /\ stack.scopes \in [DOMAIN stack.scopes -> Int]
          /\ stack.scopeCapacity = 0 /\ stack.scopeRoom \in {0, ZeroRoom}
      BY DEF IInv, Holds, HoldsScopes
    <3>2. m \in Nat \ {0} /\ m <= UINT8_MAX /\ below \in Nat
      BY <2>3
    <3>. HIDE DEF m, below
    <3>. QED
      BY <3>1, <3>2, <2>1, ZeroRoomAssumption DEF UINT8_MAX
  <2>5. stack.fault \in Faults
    BY DEF IInv, FaultsOfScopes, Faults
  <2>. QED
    BY <2>1, <2>2, <2>4, <2>5 DEF IInv, TypeOK, Fields
<1>. QED
  BY <1>1, Inductive, PTL

(* Whatever realloc moves, no pointer is left in a freed block: each names *)
(* the position the calls so far gave it.                                  *)
THEOREM PointersFollow == Spec => []PointersFollowTheBlock
<1>1. IInv => PointersFollowTheBlock
  <2>. SUFFICES ASSUME IInv, Running PROVE PointersFollowTheBlock
    BY DEF PointersFollowTheBlock
  <2>1. /\ Represents(stack, ValuesOf(stack), starts)
        /\ height = Len(ValuesOf(stack)) /\ height \in Nat
    BY RunningStack
  <2>2. stack.top + 1 = stack.items + height /\ stack.top <= stack.maxTop
    <3>1. /\ stack.top = stack.items + (height - 1) /\ stack.top <= stack.maxTop
          /\ stack.items \in Nat
      BY <2>1 DEF Represents, Holds, HoldsItems
    <3>. QED
      BY <3>1, <2>1
  <2>. QED
    BY <2>1, <2>2 DEF PointersFollowTheBlock, PointsAt, Represents, Holds, HoldsScopes
<1>. QED
  BY <1>1, Inductive, PTL

(* No operation ever returns or copies a cell that was never written.      *)
THEOREM LiveCells == Spec => []LiveCellsWritten
<1>1. IInv => LiveCellsWritten
  <2>. SUFFICES ASSUME IInv, Running, NEW k \in 0 .. height - 1
                PROVE  stack.cells[k] \in Values
    BY DEF LiveCellsWritten
  <2>1. /\ Holds(stack, ValuesOf(stack), starts) /\ height = Len(ValuesOf(stack))
        /\ height \in Nat
    BY RunningStack DEF Represents
  <2>2. k + 1 \in 1 .. height /\ (k + 1) - 1 = k
    BY <2>1
  <2>3. \A j \in 1 .. height : stack.cells[j - 1] \in Values
    BY <2>1, MarksAreHeights DEF Holds, HoldsItems
  <2>. QED
    BY <2>2, <2>3
<1>. QED
  BY <1>1, Inductive, PTL

(* With room in the scopes block for every scope that is opened, no        *)
(* assertion of stack.h or stack.c can fail and no block is overrun.       *)
THEOREM NeverFaults == RoomForScopes => (Spec => []NoFaults)
<1>. SUFFICES ASSUME RoomForScopes PROVE Spec => []NoFaults
  OBVIOUS
<1>1. Init => NoFaults
  BY DEF Init, Stack_init, NoFaults
<1>2. IInv /\ NoFaults /\ [Next]_vars => NoFaults'
  BY NextHolds DEF NoFaults
<1>. QED
  BY <1>1, <1>2, Inductive, PTL DEF Spec

(* The struct with its pointers, capacities and reallocations implements   *)
(* the abstract stack of scopes.                                           *)
THEOREM Refinement == Spec => Implements
<1>1. Init => Abstract!Init
  <2>. SUFFICES ASSUME Init PROVE Abstract!Init
    OBVIOUS
  <2>1. PICK base \in Bases : stack = Stack_init(base)
    BY DEF Init
  <2>2. Represents(stack, <<>>, <<0>>)
    BY <2>1, InitRepresents, BasesAssumption
  <2>. QED
    BY <2>2, HoldsDetermines DEF Represents, Abstract!Init
<1>2. IInv /\ [Next]_vars => [Abstract!Next]_(Abstract!vars)
  BY NextHolds
<1>. QED
  BY <1>1, <1>2, Inductive, PTL DEF Spec, Implements, Abstract!Spec
===============================================================================
