----------------------- MODULE ConsumerBootstrap_proofs -----------------------
(***************************************************************************)
(* Proofs about ConsumerBootstrap and the FrontendContext below it, for    *)
(* any set of applications and any number of edits, kills and runs.        *)
(*                                                                         *)
(* A run is the sequence of writes it has still to make, and other steps   *)
(* put more writes in front of it.  The writes of a baseline always come   *)
(* first and in one order (BaselineFirst), so each of them knows what the  *)
(* one before it left on disk (HeadKnowsDisk) and surfaces are written     *)
(* from a scan of this run or a change came after it (ScansAreCurrent).    *)
(* What a run will report as answered is sound already, or has a write to  *)
(* come that makes it so (AnswersInSight).                                 *)
(***************************************************************************)
EXTENDS ConsumerBootstrap, FiniteSetTheorems, SequenceTheorems, TLAPS

Leaf == {"profile", "baseline", "surfaces", "lock", "staleSurfaces", "staleLock"}
OnApps == Leaf \cup {"serve", "generate", "mark"}
OnFiles == {"put", "takeBack"}
OnAll == {"adoption", "marker", "calibration", "registry", "shared", "statuses", "resolve",
          "targets", "decide"}
Ops == [what : OnApps, arg : Apps] \cup [what : OnFiles, arg : Writables] \cup [what : OnAll, arg : {"-"}]

Items(s) == {s[i] : i \in 1 .. Len(s)}

-----------------------------------------------------------------------------
(* Sequences of writes.                                                    *)

\* In words: a sequence holds its head and what its tail holds.
LEMMA ItemsOfTail ==
    ASSUME NEW S, NEW s \in Seq(S), s # <<>>
    PROVE  /\ Head(s) \in S /\ Tail(s) \in Seq(S) /\ Head(s) = s[1]
           /\ Items(s) = {Head(s)} \cup Items(Tail(s))
<1>1. /\ Head(s) \in S /\ Tail(s) \in Seq(S) /\ Len(Tail(s)) = Len(s) - 1
      /\ \A i \in 1 .. Len(Tail(s)) : Tail(s)[i] = s[i + 1]
  BY HeadTailProperties
<1>2. Len(s) \in Nat \ {0}
  BY EmptySeq
<1>3. Head(s) = s[1]
  BY <1>2
<1>4. ASSUME NEW o \in Items(s)
      PROVE  o \in {Head(s)} \cup Items(Tail(s))
  <2>1. PICK i \in 1 .. Len(s) : o = s[i]
    BY DEF Items
  <2>2. CASE i = 1
    BY <2>1, <2>2, <1>3
  <2>3. CASE i # 1
    <3>1. i - 1 \in 1 .. Len(Tail(s)) /\ Tail(s)[i - 1] = s[i]
      BY <2>3, <1>1, <1>2
    <3>2. QED
      BY <2>1, <3>1 DEF Items
  <2>4. QED
    BY <2>2, <2>3
<1>5. ASSUME NEW o \in Items(Tail(s))
      PROVE  o \in Items(s)
  <2>1. PICK i \in 1 .. Len(Tail(s)) : o = Tail(s)[i]
    BY DEF Items
  <2>2. i + 1 \in 1 .. Len(s) /\ s[i + 1] = o
    BY <2>1, <1>1, <1>2
  <2>3. QED
    BY <2>2 DEF Items
<1>6. Head(s) \in Items(s)
  <2>1. 1 \in 1 .. Len(s)
    BY <1>2
  <2>2. QED
    BY <2>1, <1>3 DEF Items
<1>7. QED
  BY <1>1, <1>3, <1>4, <1>5, <1>6

\* In words: a concatenation holds what its parts hold.
LEMMA ItemsOfConcat ==
    ASSUME NEW S, NEW s \in Seq(S), NEW t \in Seq(S)
    PROVE  s \o t \in Seq(S) /\ Items(s \o t) = Items(s) \cup Items(t)
<1>1. /\ s \o t \in Seq(S) /\ Len(s \o t) = Len(s) + Len(t)
      /\ \A i \in 1 .. Len(s) + Len(t) : (s \o t)[i] = IF i <= Len(s) THEN s[i] ELSE t[i - Len(s)]
  BY ConcatProperties
<1>2. Len(s) \in Nat /\ Len(t) \in Nat
  BY LenProperties
<1>3. ASSUME NEW o \in Items(s \o t)
      PROVE  o \in Items(s) \cup Items(t)
  <2>1. PICK i \in 1 .. Len(s \o t) : o = (s \o t)[i]
    BY DEF Items
  <2>2. CASE i <= Len(s)
    <3>1. i \in 1 .. Len(s) /\ o = s[i]
      BY <2>1, <2>2, <1>1, <1>2
    <3>2. QED
      BY <3>1 DEF Items
  <2>3. CASE ~(i <= Len(s))
    <3>1. i - Len(s) \in 1 .. Len(t) /\ o = t[i - Len(s)]
      BY <2>1, <2>3, <1>1, <1>2
    <3>2. QED
      BY <3>1 DEF Items
  <2>4. QED
    BY <2>2, <2>3
<1>4. ASSUME NEW o \in Items(s)
      PROVE  o \in Items(s \o t)
  <2>1. PICK i \in 1 .. Len(s) : o = s[i]
    BY DEF Items
  <2>2. i \in 1 .. Len(s \o t) /\ (s \o t)[i] = o
    BY <2>1, <1>1, <1>2
  <2>3. QED
    BY <2>2 DEF Items
<1>5. ASSUME NEW o \in Items(t)
      PROVE  o \in Items(s \o t)
  <2>1. PICK i \in 1 .. Len(t) : o = t[i]
    BY DEF Items
  <2>2. i + Len(s) \in 1 .. Len(s \o t) /\ (s \o t)[i + Len(s)] = o
    BY <2>1, <1>1, <1>2
  <2>3. QED
    BY <2>2 DEF Items
<1>6. QED
  BY <1>1, <1>3, <1>4, <1>5

\* In words: a sequence is of whatever holds its items.
LEMMA SeqOfItems ==
    ASSUME NEW S, NEW T, NEW s \in Seq(S), Items(s) \subseteq T
    PROVE  s \in Seq(T)
<1>1. s \in [1 .. Len(s) -> S] /\ Len(s) \in Nat
  BY LenProperties
<1>2. \A i \in 1 .. Len(s) : s[i] \in T
  BY DEF Items
<1>3. s \in [1 .. Len(s) -> T]
  BY <1>1, <1>2
<1>4. QED
  BY <1>1, <1>3

\* In words: a function on the first numbers is a sequence.
LEMMA FunctionIsSeq ==
    ASSUME NEW X, NEW n \in Nat, NEW e \in [1 .. n -> X]
    PROVE  e \in Seq(X) /\ Len(e) = n
<1>1. e \in Seq(X)
  OBVIOUS
<1>2. DOMAIN e = 1 .. n /\ DOMAIN e = 1 .. Len(e) /\ Len(e) \in Nat
  BY <1>1, LenProperties
<1>3. QED
  BY <1>2

\* In words: SetToSeq lists every member of a finite set.
LEMMA EachListsAll ==
    ASSUME NEW what, NEW S, IsFiniteSet(S)
    PROVE  /\ Each(what, S) \in Seq([what : {what}, arg : S])
           /\ Items(Each(what, S)) = {Op(what, a) : a \in S}
<1> DEFINE n == Cardinality(S)
           f == SetToSeq(S)
<1>1. n \in Nat /\ ExistsBijection(1 .. n, S)
  BY FS_CardinalityType
<1>2. PICK g : g \in Bijection(1 .. n, S)
  BY <1>1 DEF ExistsBijection
<1>3. g \in [1 .. n -> S] /\ IsInjective(g)
  BY <1>2 DEF Bijection, Injection
<1>4. f \in [1 .. n -> S] /\ IsInjective(f)
  BY <1>3 DEF SetToSeq
<1>5. f \in Injection(1 .. n, S)
  BY <1>4 DEF Injection
<1>6. Cardinality(1 .. n) = n
  BY <1>1, FS_Interval
<1>7. f \in Surjection(1 .. n, S)
  BY <1>5, <1>6, FS_Injection
<1>8. \A a \in S : \E i \in 1 .. n : f[i] = a
  BY <1>7 DEF Surjection
<1> DEFINE e == [i \in 1 .. n |-> Op(what, f[i])]
<1>9. Each(what, S) = e
  BY DEF Each
<1>10. e \in [1 .. n -> [what : {what}, arg : S]]
  BY <1>4 DEF Op
<1>11. e \in Seq([what : {what}, arg : S]) /\ Len(e) = n
  <2> HIDE DEF e, n
  <2>1. QED
    BY <1>1, <1>10, FunctionIsSeq
<1>12. Items(e) = {Op(what, a) : a \in S}
  <2>1. ASSUME NEW i \in 1 .. n
        PROVE  e[i] \in {Op(what, a) : a \in S}
    <3>1. e[i] = Op(what, f[i]) /\ f[i] \in S
      BY <1>4
    <3>2. QED
      BY <3>1
  <2>2. ASSUME NEW a \in S
        PROVE  \E i \in 1 .. n : e[i] = Op(what, a)
    <3>1. PICK i \in 1 .. n : f[i] = a
      BY <1>8
    <3>2. e[i] = Op(what, a)
      BY <3>1
    <3>3. QED
      BY <3>2
  <2> HIDE DEF e
  <2>3. QED
    BY <2>1, <2>2, <1>11 DEF Items
<1>13. QED
  BY <1>9, <1>11, <1>12
\* In words: a plan is carried out item by item, whatever the order.
LEMMA InOrderListsAll ==
    ASSUME NEW what, NEW set, set \subseteq Writables
    PROVE  /\ InOrder(what, set) \in Seq([what : {what}, arg : Writables])
           /\ Items(InOrder(what, set)) = {Op(what, p) : p \in set}
<1> DEFINE Due(p) == IF p \in set THEN <<Op(what, p)>> ELSE <<>>
           S == [what : {what}, arg : Writables]
<1>1. \A p \in Writables : Due(p) \in Seq(S) /\ Items(Due(p)) = IF p \in set THEN {Op(what, p)} ELSE {}
  <2>1. SUFFICES ASSUME NEW p \in Writables
                 PROVE  Due(p) \in Seq(S) /\ Items(Due(p)) = IF p \in set THEN {Op(what, p)} ELSE {}
    OBVIOUS
  <2>2. CASE p \in set
    <3>1. Op(what, p) \in S
      BY DEF Op
    <3>2. <<Op(what, p)>> \in Seq(S) /\ Len(<<Op(what, p)>>) = 1 /\ <<Op(what, p)>>[1] = Op(what, p)
      BY <3>1
    <3>3. Items(<<Op(what, p)>>) = {Op(what, p)}
      BY <3>2 DEF Items
    <3>4. QED
      BY <2>2, <3>2, <3>3
  <2>3. CASE p \notin set
    BY <2>3 DEF Items
  <2>4. QED
    BY <2>2, <2>3
<1>2. {"scaffold", "bridge", "registry", "shared"} = Writables
  BY DEF Writables, Local
<1>3. InOrder(what, set) = Due("scaffold") \o Due("bridge") \o Due("registry") \o Due("shared")
  BY DEF InOrder
<1> HIDE DEF Due, S
<1> DEFINE one == Due("scaffold") \o Due("bridge")
           two == one \o Due("registry")
<1>4. /\ Due("scaffold") \in Seq(S) /\ Due("bridge") \in Seq(S)
      /\ Due("registry") \in Seq(S) /\ Due("shared") \in Seq(S)
  BY <1>1, <1>2
<1>5. one \in Seq(S) /\ Items(one) = Items(Due("scaffold")) \cup Items(Due("bridge"))
  BY <1>4, ItemsOfConcat
<1>6. two \in Seq(S) /\ Items(two) = Items(one) \cup Items(Due("registry"))
  <2> HIDE DEF one
  <2>1. QED
    BY <1>4, <1>5, ItemsOfConcat
<1>7. /\ InOrder(what, set) \in Seq(S)
      /\ Items(InOrder(what, set)) = Items(Due("scaffold")) \cup Items(Due("bridge"))
                                         \cup Items(Due("registry")) \cup Items(Due("shared"))
  <2>1. InOrder(what, set) = two \o Due("shared")
    BY <1>3
  <2> HIDE DEF one, two
  <2>2. two \o Due("shared") \in Seq(S) /\ Items(two \o Due("shared")) = Items(two) \cup Items(Due("shared"))
    BY <1>4, <1>6, ItemsOfConcat
  <2>3. QED
    BY <2>1, <2>2, <1>5, <1>6
<1>8. ASSUME NEW o \in Items(InOrder(what, set))
      PROVE  o \in {Op(what, p) : p \in set}
  <2>1. \E p \in Writables : o \in Items(Due(p))
    BY <1>7, <1>2
  <2>2. QED
    BY <2>1, <1>1
<1>9. ASSUME NEW p \in set
      PROVE  Op(what, p) \in Items(InOrder(what, set))
  <2>1. Op(what, p) \in Items(Due(p))
    BY <1>1
  <2>2. QED
    BY <2>1, <1>2, <1>7
<1>10. QED
  BY <1>7, <1>8, <1>9 DEF S

\* In words: turned round, a sequence holds the same.
LEMMA ItemsOfReverse ==
    ASSUME NEW S, NEW s \in Seq(S)
    PROVE  Reverse(s) \in Seq(S) /\ Items(Reverse(s)) = Items(s)
<1>1. Len(s) \in Nat /\ s \in [1 .. Len(s) -> S]
  BY LenProperties
<1> DEFINE r == [i \in 1 .. Len(s) |-> s[(Len(s) - i) + 1]]
<1>2. \A i \in 1 .. Len(s) : (Len(s) - i) + 1 \in 1 .. Len(s) /\ (Len(s) - ((Len(s) - i) + 1)) + 1 = i
  BY <1>1
<1>3. Reverse(s) = r
  BY DEF Reverse
<1>4. r \in [1 .. Len(s) -> S]
  BY <1>1, <1>2
<1>5. \A i \in 1 .. Len(s) : r[i] = s[(Len(s) - i) + 1] /\ r[(Len(s) - i) + 1] = s[i]
  BY <1>2
<1>6. r \in Seq(S) /\ Len(r) = Len(s)
  <2> HIDE DEF r
  <2>1. QED
    BY <1>1, <1>4, FunctionIsSeq
<1> HIDE DEF r
<1>7. ASSUME NEW o \in Items(r)
      PROVE  o \in Items(s)
  <2>1. PICK i \in 1 .. Len(s) : o = r[i]
    BY <1>6 DEF Items
  <2>2. QED
    BY <2>1, <1>2, <1>5 DEF Items
<1>8. ASSUME NEW o \in Items(s)
      PROVE  o \in Items(r)
  <2>1. PICK i \in 1 .. Len(s) : o = s[i]
    BY DEF Items
  <2>2. QED
    BY <2>1, <1>2, <1>5, <1>6 DEF Items
<1>9. QED
  BY <1>3, <1>6, <1>7, <1>8

-----------------------------------------------------------------------------
(* The writes of a baseline come first.                                    *)

\* In words: the writes of a baseline are the first ones of a run, the lock comes
\* right after the surfaces of the same application, and so does the stale lock.
BaselineFirst(s) ==
    /\ \A i \in 1 .. Len(s) : s[i].what \in Leaf => \A j \in 1 .. i : s[j].what \in Leaf
    /\ \A i \in 2 .. Len(s) :
        /\ s[i].what # "staleSurfaces"
        /\ s[i].what = "lock" => s[i - 1] = Op("surfaces", s[i].arg)
        /\ s[i].what = "staleLock" => s[i - 1] = Op("staleSurfaces", s[i].arg)

Quiet(s) == \A o \in Items(s) : o.what \notin Leaf

\* In words: without writes of a baseline there is nothing to order.
LEMMA QuietIsOrdered ==
    ASSUME NEW s \in Seq(Ops), Quiet(s)
    PROVE  BaselineFirst(s)
<1>1. Len(s) \in Nat
  BY LenProperties
<1>2. \A i \in 1 .. Len(s) : s[i].what \notin Leaf
  BY DEF Quiet, Items
<1>3. \A i \in 2 .. Len(s) : i \in 1 .. Len(s)
  BY <1>1
<1>4. QED
  BY <1>2, <1>3 DEF BaselineFirst, Leaf

\* In words: the first write done, the others are in order.
LEMMA OrderedTail ==
    ASSUME NEW s \in Seq(Ops), s # <<>>, BaselineFirst(s)
    PROVE  /\ BaselineFirst(Tail(s))
           /\ Head(s).what \notin Leaf => Quiet(Tail(s))
           /\ Tail(s) # <<>> =>
                /\ Head(Tail(s)).what # "staleSurfaces"
                /\ Head(Tail(s)).what = "lock" => Head(s) = Op("surfaces", Head(Tail(s)).arg)
                /\ Head(Tail(s)).what = "staleLock" => Head(s) = Op("staleSurfaces", Head(Tail(s)).arg)
<1>1. /\ Tail(s) \in Seq(Ops) /\ Len(Tail(s)) = Len(s) - 1
      /\ \A i \in 1 .. Len(Tail(s)) : Tail(s)[i] = s[i + 1]
  BY HeadTailProperties
<1>2. Len(s) \in Nat \ {0} /\ Head(s) = s[1]
  BY EmptySeq
<1> DEFINE t == Tail(s)
<1>3. \A i \in 1 .. Len(t) : t[i] = s[i + 1] /\ i + 1 \in 2 .. Len(s) /\ i + 1 \in 1 .. Len(s)
  BY <1>1, <1>2
<1>4. \A i \in 2 .. Len(t) : i \in 1 .. Len(t) /\ i - 1 \in 1 .. Len(t) /\ t[i - 1] = s[i] /\ t[i] = s[i + 1]
                             /\ (i + 1) - 1 = i
  BY <1>1, <1>2
<1>5. ASSUME NEW i \in 1 .. Len(t), t[i].what \in Leaf, NEW j \in 1 .. i
      PROVE  t[j].what \in Leaf
  <2>1. j \in 1 .. Len(t) /\ j + 1 \in 1 .. i + 1
    BY <1>1, <1>2
  <2>2. t[i] = s[i + 1] /\ t[j] = s[j + 1] /\ i + 1 \in 1 .. Len(s)
    BY <1>3, <2>1
  <2>3. QED
    BY <1>5, <2>1, <2>2 DEF BaselineFirst
<1>6. ASSUME NEW i \in 2 .. Len(t)
      PROVE  /\ t[i].what # "staleSurfaces"
             /\ t[i].what = "lock" => t[i - 1] = Op("surfaces", t[i].arg)
             /\ t[i].what = "staleLock" => t[i - 1] = Op("staleSurfaces", t[i].arg)
  <2>1. i + 1 \in 2 .. Len(s) /\ t[i] = s[i + 1] /\ t[i - 1] = s[(i + 1) - 1]
    BY <1>3, <1>4
  <2>2. QED
    BY <2>1 DEF BaselineFirst
<1>7. BaselineFirst(t)
  <2> HIDE DEF t
  <2>1. QED
    BY <1>5, <1>6 DEF BaselineFirst
<1>8. ASSUME Head(s).what \notin Leaf
      PROVE  Quiet(t)
  <2>1. ASSUME NEW o \in Items(t), o.what \in Leaf
        PROVE  FALSE
    <3>1. PICK i \in 1 .. Len(t) : o = t[i]
      BY DEF Items
    <3>2. i + 1 \in 1 .. Len(s) /\ s[i + 1].what \in Leaf
      BY <3>1, <2>1, <1>3
    <3>3. 1 \in 1 .. i + 1
      BY <3>1, <1>1, <1>2
    <3>4. s[1].what \in Leaf
      BY <3>2, <3>3 DEF BaselineFirst
    <3>5. QED
      BY <3>4, <1>8, <1>2
  <2>2. QED
    BY <2>1 DEF Quiet
<1>9. ASSUME t # <<>>
      PROVE  /\ Head(t).what # "staleSurfaces"
             /\ Head(t).what = "lock" => Head(s) = Op("surfaces", Head(t).arg)
             /\ Head(t).what = "staleLock" => Head(s) = Op("staleSurfaces", Head(t).arg)
  <2>1. Len(t) \in Nat \ {0} /\ Head(t) = t[1]
    BY <1>1, <1>9, EmptySeq
  <2>2. 2 \in 2 .. Len(s) /\ Head(t) = s[2] /\ Head(s) = s[2 - 1]
    BY <2>1, <1>1, <1>2
  <2>3. QED
    BY <2>2 DEF BaselineFirst
<1>10. QED
  BY <1>7, <1>8, <1>9
\* In words: what a sequence holds is of the kind it is a sequence of.
LEMMA ItemsAreOf ==
    ASSUME NEW S, NEW s \in Seq(S)
    PROVE  Items(s) \subseteq S
BY ElementOfSeq DEF Items

\* In words: a run with nothing left to write holds no write and none of a baseline.
LEMMA ItemsOfNone == Items(<<>>) = {} /\ <<>> \in Seq(Ops) /\ Quiet(<<>>)
BY DEF Items, Quiet

\* In words: a sequence of one write holds that write.
LEMMA ItemsOfOne ==
    ASSUME NEW o
    PROVE  Items(<<o>>) = {o}
BY DEF Items

\* In words: a sequence of two writes holds those two, in that order.
LEMMA TwoItems ==
    ASSUME NEW S, NEW o \in S, NEW p \in S
    PROVE  /\ <<o, p>> \in Seq(S) /\ Len(<<o, p>>) = 2 /\ <<o, p>>[1] = o /\ <<o, p>>[2] = p
           /\ Items(<<o, p>>) = {o, p}
<1>1. Len(<<o, p>>) = 2 /\ 1 .. 2 = {1, 2}
  OBVIOUS
<1>2. QED
  BY <1>1 DEF Items

\* In words: a sequence of five writes holds those five, in that order.
LEMMA FiveItems ==
    ASSUME NEW S, NEW o \in S, NEW p \in S, NEW q \in S, NEW r \in S, NEW s \in S
    PROVE  /\ <<o, p, q, r, s>> \in Seq(S) /\ Len(<<o, p, q, r, s>>) = 5
           /\ <<o, p, q, r, s>>[1] = o /\ <<o, p, q, r, s>>[2] = p /\ <<o, p, q, r, s>>[3] = q
           /\ <<o, p, q, r, s>>[4] = r /\ <<o, p, q, r, s>>[5] = s
           /\ Items(<<o, p, q, r, s>>) = {o, p, q, r, s}
<1>1. Len(<<o, p, q, r, s>>) = 5 /\ 1 .. 5 = {1, 2, 3, 4, 5}
  OBVIOUS
<1>2. QED
  BY <1>1 DEF Items

\* In words: a write names what is written and for which application or file.
LEMMA OpNames ==
    ASSUME NEW w, NEW a
    PROVE  Op(w, a).what = w /\ Op(w, a).arg = a
BY DEF Op

GenerateOps(a) == <<Op("profile", a), Op("baseline", a), Op("surfaces", a), Op("lock", a), Op("statuses", "-")>>

\* In words: the writes of generate_baseline come in their order.
LEMMA GenerateOrdered ==
    ASSUME NEW a \in Apps, NEW t \in Seq(Ops), Quiet(t)
    PROVE  /\ GenerateOps(a) \in Seq(Ops)
           /\ Items(GenerateOps(a)) = {Op("profile", a), Op("baseline", a), Op("surfaces", a),
                                       Op("lock", a), Op("statuses", "-")}
           /\ BaselineFirst(GenerateOps(a) \o t)
           /\ GenerateOps(a) \o t # <<>> /\ Head(GenerateOps(a) \o t) = Op("profile", a)
<1> DEFINE g == GenerateOps(a)
           s == g \o t
<1>1. /\ Op("profile", a) \in Ops /\ Op("baseline", a) \in Ops /\ Op("surfaces", a) \in Ops
      /\ Op("lock", a) \in Ops /\ Op("statuses", "-") \in Ops
  BY DEF Ops, OnApps, OnAll, Leaf, Op
<1>2. g \in Seq(Ops) /\ Len(g) = 5
  BY <1>1, FiveItems DEF GenerateOps
<1>3. /\ g[1] = Op("profile", a) /\ g[2] = Op("baseline", a) /\ g[3] = Op("surfaces", a)
      /\ g[4] = Op("lock", a) /\ g[5] = Op("statuses", "-")
  BY <1>1, FiveItems DEF GenerateOps
<1>4. Items(g) = {Op("profile", a), Op("baseline", a), Op("surfaces", a), Op("lock", a), Op("statuses", "-")}
  BY <1>1, FiveItems DEF GenerateOps
<1> HIDE DEF g
<1>5. /\ s \in Seq(Ops) /\ Len(s) = 5 + Len(t) /\ Len(t) \in Nat
      /\ \A i \in 1 .. 5 + Len(t) : s[i] = IF i <= 5 THEN g[i] ELSE t[i - 5]
  <2>1. /\ g \o t \in Seq(Ops) /\ Len(g \o t) = Len(g) + Len(t)
        /\ \A i \in 1 .. Len(g) + Len(t) : (g \o t)[i] = IF i <= Len(g) THEN g[i] ELSE t[i - Len(g)]
    BY <1>2, ConcatProperties
  <2>2. Len(t) \in Nat
    BY LenProperties
  <2>3. QED
    BY <2>1, <2>2, <1>2
<1> HIDE DEF s
<1>6. /\ s[1] = Op("profile", a) /\ s[2] = Op("baseline", a) /\ s[3] = Op("surfaces", a)
      /\ s[4] = Op("lock", a) /\ s[5] = Op("statuses", "-")
  BY <1>3, <1>5
<1>7. \A i \in 1 .. Len(s) : i \in 1 .. 5 \/ (i > 5 /\ s[i].what \notin Leaf)
  <2>1. SUFFICES ASSUME NEW i \in 1 .. Len(s), ~(i \in 1 .. 5)
                 PROVE  i > 5 /\ s[i].what \notin Leaf
    OBVIOUS
  <2>2. i > 5 /\ i - 5 \in 1 .. Len(t) /\ s[i] = t[i - 5]
    BY <2>1, <1>5
  <2>3. QED
    BY <2>2 DEF Quiet, Items
<1>8. \A i \in 1 .. Len(s) : s[i].what \in Leaf => i \in 1 .. 4
  <2>1. s[5].what \notin Leaf
    BY <1>6 DEF Op, Leaf
  <2>2. \A i \in 1 .. 5 : i = 5 \/ i \in 1 .. 4
    OBVIOUS
  <2>3. QED
    BY <1>7, <2>1, <2>2
<1>9. \A j \in 1 .. 4 : s[j].what \in Leaf
  <2>1. \A j \in 1 .. 4 : j = 1 \/ j = 2 \/ j = 3 \/ j = 4
    OBVIOUS
  <2>2. /\ s[1].what = "profile" /\ s[2].what = "baseline"
        /\ s[3].what = "surfaces" /\ s[4].what = "lock"
    BY <1>6, OpNames
  <2>3. QED
    BY <2>1, <2>2 DEF Leaf
<1>10. \A i \in 1 .. Len(s) : s[i].what \in Leaf => \A j \in 1 .. i : s[j].what \in Leaf
  <2>1. \A i \in 1 .. 4 : \A j \in 1 .. i : j \in 1 .. 4
    OBVIOUS
  <2>2. QED
    BY <2>1, <1>8, <1>9
<1>11. ASSUME NEW i \in 2 .. Len(s)
       PROVE  /\ s[i].what # "staleSurfaces"
              /\ s[i].what = "lock" => s[i - 1] = Op("surfaces", s[i].arg)
              /\ s[i].what = "staleLock" => s[i - 1] = Op("staleSurfaces", s[i].arg)
  <2>1. CASE s[i].what \notin Leaf
    BY <2>1 DEF Leaf
  <2>2. CASE s[i].what \in Leaf
    <3>1. i = 2 \/ i = 3 \/ i = 4
      BY <2>2, <1>5, <1>8
    <3>2. CASE i = 2
      BY <3>2, <1>6 DEF Op
    <3>3. CASE i = 3
      BY <3>3, <1>6 DEF Op
    <3>4. CASE i = 4
      <4>1. i - 1 = 3
        BY <3>4
      <4>2. QED
        BY <3>4, <4>1, <1>6 DEF Op
    <3>5. QED
      BY <3>1, <3>2, <3>3, <3>4
  <2>3. QED
    BY <2>1, <2>2
<1>12. BaselineFirst(s)
  BY <1>10, <1>11 DEF BaselineFirst
<1>13. s # <<>> /\ Head(s) = Op("profile", a)
  <2>1. s # <<>>
    BY <1>5, EmptySeq
  <2>2. QED
    BY <2>1, <1>5, <1>6, ItemsOfTail
<1>14. QED
  BY <1>2, <1>4, <1>12, <1>13 DEF s, g

StaleOps(a) == <<Op("staleSurfaces", a), Op("staleLock", a)>>

\* In words: and so do those of _mark_surfaces_stale.
LEMMA StaleOrdered ==
    ASSUME NEW a \in Apps, NEW t \in Seq(Ops), Quiet(t)
    PROVE  /\ StaleOps(a) \in Seq(Ops)
           /\ Items(StaleOps(a)) = {Op("staleSurfaces", a), Op("staleLock", a)}
           /\ BaselineFirst(StaleOps(a) \o t)
           /\ StaleOps(a) \o t # <<>> /\ Head(StaleOps(a) \o t) = Op("staleSurfaces", a)
<1> DEFINE g == StaleOps(a)
           s == g \o t
<1>1. Op("staleSurfaces", a) \in Ops /\ Op("staleLock", a) \in Ops
  BY DEF Ops, OnApps, Leaf, Op
<1>2. g \in Seq(Ops) /\ Len(g) = 2 /\ g[1] = Op("staleSurfaces", a) /\ g[2] = Op("staleLock", a)
  BY <1>1, TwoItems DEF StaleOps
<1>3. Items(g) = {Op("staleSurfaces", a), Op("staleLock", a)}
  <2> DEFINE o == Op("staleSurfaces", a)
             p == Op("staleLock", a)
  <2>1. g = <<o, p>> /\ o \in Ops /\ p \in Ops
    BY <1>1 DEF StaleOps
  <2> HIDE DEF o, p, g
  <2>2. Items(g) = {o, p}
    BY <2>1, TwoItems
  <2>3. QED
    BY <2>2 DEF o, p
<1> HIDE DEF g
<1>4. /\ s \in Seq(Ops) /\ Len(s) = 2 + Len(t) /\ Len(t) \in Nat
      /\ \A i \in 1 .. 2 + Len(t) : s[i] = IF i <= 2 THEN g[i] ELSE t[i - 2]
  <2>1. /\ g \o t \in Seq(Ops) /\ Len(g \o t) = Len(g) + Len(t)
        /\ \A i \in 1 .. Len(g) + Len(t) : (g \o t)[i] = IF i <= Len(g) THEN g[i] ELSE t[i - Len(g)]
    BY <1>2, ConcatProperties
  <2>2. Len(t) \in Nat
    BY LenProperties
  <2>3. QED
    BY <2>1, <2>2, <1>2
<1> HIDE DEF s
<1>5. s[1] = Op("staleSurfaces", a) /\ s[2] = Op("staleLock", a)
  BY <1>2, <1>4
<1>6. \A i \in 1 .. Len(s) : s[i].what \in Leaf => i \in {1, 2}
  <2>1. SUFFICES ASSUME NEW i \in 1 .. Len(s), i \notin {1, 2}
                 PROVE  s[i].what \notin Leaf
    OBVIOUS
  <2>2. i - 2 \in 1 .. Len(t) /\ s[i] = t[i - 2]
    BY <2>1, <1>4
  <2>3. QED
    BY <2>2 DEF Quiet, Items
<1>7. \A j \in {1, 2} : s[j].what \in Leaf
  <2>1. s[1].what = "staleSurfaces" /\ s[2].what = "staleLock"
    BY <1>5, OpNames
  <2>2. QED
    BY <2>1 DEF Leaf
<1>8. \A i \in 1 .. Len(s) : s[i].what \in Leaf => \A j \in 1 .. i : s[j].what \in Leaf
  <2>1. \A i \in {1, 2} : \A j \in 1 .. i : j \in {1, 2}
    OBVIOUS
  <2>2. QED
    BY <2>1, <1>6, <1>7
<1>9. ASSUME NEW i \in 2 .. Len(s)
      PROVE  /\ s[i].what # "staleSurfaces"
             /\ s[i].what = "lock" => s[i - 1] = Op("surfaces", s[i].arg)
             /\ s[i].what = "staleLock" => s[i - 1] = Op("staleSurfaces", s[i].arg)
  <2>1. CASE s[i].what \notin Leaf
    BY <2>1 DEF Leaf
  <2>2. CASE s[i].what \in Leaf
    <3>1. i = 2 /\ i - 1 = 1
      BY <2>2, <1>4, <1>6
    <3>2. s[i] = Op("staleLock", a) /\ s[i - 1] = Op("staleSurfaces", a)
      BY <3>1, <1>5
    <3>3. QED
      BY <3>2, OpNames
  <2>3. QED
    BY <2>1, <2>2
<1>10. BaselineFirst(s)
  BY <1>8, <1>9 DEF BaselineFirst
<1>11. s # <<>> /\ Head(s) = Op("staleSurfaces", a)
  <2>1. s # <<>>
    BY <1>4, EmptySeq
  <2>2. QED
    BY <2>1, <1>4, <1>5, ItemsOfTail
<1>12. QED
  BY <1>2, <1>3, <1>10, <1>11 DEF s, g
-----------------------------------------------------------------------------
(* The invariant.                                                          *)

Kinds == {"none", "apply", "refresh", "scope", "boot", "restore"}
Runs == [kind : Kinds, todo : Seq(Ops), scope : SUBSET (Apps \cup {"ui"}), mode : Modes \cup {"-"},
         scan : SUBSET Apps, answers : SUBSET Apps, late : SUBSET Apps,
         made : SUBSET Writables, before : SUBSET Writables]
Files == {"-", "ok", "torn"}
Registries == [file : Files, status : [Apps -> Statuses \cup {"-"}]]
Staleness == {"-", "FRESH", "DEPENDENCY_STALE", "torn"}
Baselines == [profile : Files, ui : Files, surfaces : Staleness, lock : Staleness]

Layers == [managed : BOOLEAN, runtime : BOOLEAN, required : BOOLEAN,
           profile : {"-", "kept", "edited", "torn"}, lock : {"-", "bare", "full"}]

\* In words: files, runs and history are of their kinds.
FrontendTypes ==
    /\ present \in SUBSET Apps
    /\ adoption \in Modes \cup {"-", "torn"} /\ marker \in BOOLEAN
    /\ calibration \in {"-", "PENDING", "ACCEPTED", "torn"}
    /\ registry \in Registries /\ sharedUi \in Files
    /\ base \in [Apps -> Baselines]
    /\ run \in Runs
    /\ seen \in SUBSET Apps /\ owed \in SUBSET Apps
    /\ edits \in Nat /\ kills \in Nat /\ runs \in Nat
BootTypes ==
    /\ local \in [Local -> {"-", "own", "other", "template", "torn"}]
    /\ product \in Layers /\ plan \in SUBSET Writables
TypesOK == FrontendTypes /\ BootTypes

\* In words: a run of a kind holds the writes of that kind, in their order.
RunInOrder(r) ==
    /\ BaselineFirst(r.todo)
    /\ \A o \in Items(r.todo) :
        /\ o.what \in {"adoption", "marker"} => r.mode \in Modes
        /\ r.kind = "boot" => o.what = "put"
        /\ r.kind = "restore" => o.what = "takeBack" /\ o.arg \in r.made
        /\ r.kind \notin {"boot", "restore"} => o.what \notin OnFiles
    /\ r.kind = "none" => r = Idle

\* In words: what application a offers as fresh was scanned from its sources as they are.
Sound(b, sn, a) ==
    \/ b[a].surfaces = "FRESH"
    \/ b[a].surfaces = "DEPENDENCY_STALE" /\ b[a].lock \notin {"-", "torn", "DEPENDENCY_STALE"}
    => a \in sn

\* In words: surfaces are written from a scan of this run, or a change came after it.
ScansAreCurrent(r, ow) ==
    /\ r.late \subseteq ow
    /\ \A o \in Items(r.todo) : o.what = "surfaces" => o.arg \in r.scan \cup r.late

\* In words: the write that is due finds what the one before it wrote.
HeadKnowsDisk(s, b) ==
    s # <<>> =>
        /\ Head(s).what = "lock" => b[Head(s).arg].surfaces = "FRESH"
        /\ Head(s).what = "staleSurfaces" => b[Head(s).arg].surfaces \in {"FRESH", "DEPENDENCY_STALE"}
        /\ Head(s).what = "staleLock" => b[Head(s).arg].surfaces = "DEPENDENCY_STALE"

Settling == {"generate", "mark", "surfaces", "staleLock"}
Coming(s, a) == \E o \in Items(s) : o.what \in Settling /\ o.arg = a

\* In words: what a run will report as answered is sound or has a write to come.
AnswersInSight(r, b, sn) ==
    \A a \in r.answers \ r.late : Sound(b, sn, a) \/ Coming(r.todo, a)

\* In words: all of this, and every application that owes nothing is sound.
BaselinesOK(r, b, sn, ow) ==
    /\ ScansAreCurrent(r, ow) /\ HeadKnowsDisk(r.todo, b) /\ AnswersInSight(r, b, sn)
    /\ \A a \in Apps \ ow : Sound(b, sn, a)

\* In words: a run of the bootstrap and its restore know the files they found and
\* made; none of those it made is the consumer's own.
FilesOK ==
    run.kind \in {"boot", "restore"} =>
        /\ run.before \subseteq There /\ There \subseteq run.before \cup run.made
        /\ run.made \cap run.before = {}
        /\ \A p \in run.made \cap Local : local[p] \notin Own
        /\ run.kind = "restore" =>
            \A p \in run.made \cap There : \E o \in Items(run.todo) : o.arg = p

FrontendInv == FrontendTypes /\ RunInOrder(run) /\ BaselinesOK(run, base, seen, owed)
IInv == FrontendInv /\ BootTypes /\ FilesOK
-----------------------------------------------------------------------------
(* Runs that go on.                                                        *)

After(r, m) == [r EXCEPT !.todo = m \o Tail(@)]

\* In words: GoesOn puts more in front of what is left and changes nothing else.
LEMMA AfterAdds ==
    ASSUME NEW r \in Runs, r.todo # <<>>, NEW m \in Seq(Ops)
    PROVE  /\ After(r, m) \in Runs /\ After(r, m).todo = m \o Tail(r.todo)
           /\ After(r, m).kind = r.kind /\ After(r, m).mode = r.mode /\ After(r, m).scan = r.scan
           /\ After(r, m).answers = r.answers /\ After(r, m).late = r.late
           /\ After(r, m).made = r.made /\ After(r, m).before = r.before
           /\ Items(After(r, m).todo) = Items(m) \cup Items(Tail(r.todo))
           /\ Items(r.todo) = {Head(r.todo)} \cup Items(Tail(r.todo))
           /\ Head(r.todo) \in Ops /\ Head(r.todo) \in Items(r.todo)
           /\ Tail(r.todo) \in Seq(Ops)
<1>1. r.todo \in Seq(Ops)
  BY DEF Runs
<1>2. /\ Head(r.todo) \in Ops /\ Tail(r.todo) \in Seq(Ops)
      /\ Items(r.todo) = {Head(r.todo)} \cup Items(Tail(r.todo))
  BY <1>1, ItemsOfTail
<1>3. m \o Tail(r.todo) \in Seq(Ops) /\ Items(m \o Tail(r.todo)) = Items(m) \cup Items(Tail(r.todo))
  BY <1>2, ItemsOfConcat
<1>4. /\ After(r, m).todo = m \o Tail(r.todo)
      /\ After(r, m).kind = r.kind /\ After(r, m).mode = r.mode /\ After(r, m).scan = r.scan
      /\ After(r, m).answers = r.answers /\ After(r, m).late = r.late
      /\ After(r, m).made = r.made /\ After(r, m).before = r.before
  BY DEF Runs, After
<1>5. After(r, m) \in Runs
  BY <1>3 DEF Runs, After
<1>6. QED
  BY <1>2, <1>3, <1>4, <1>5

\* In words: a run that puts writes in front of what it has still to do keeps everything else it
\* knows, and holds the new writes and its old ones but the one it just made.
LEMMA GoesOnAdds ==
    ASSUME NEW r \in Runs, r.todo # <<>>, NEW m \in Seq(Ops),
           NEW q, q = After(r, m)
    PROVE  /\ q \in Runs /\ q.todo = m \o Tail(r.todo)
           /\ q.kind = r.kind /\ q.mode = r.mode /\ q.scan = r.scan /\ q.answers = r.answers
           /\ q.late = r.late /\ q.made = r.made /\ q.before = r.before
           /\ Items(q.todo) = Items(m) \cup Items(Tail(r.todo))
           /\ Items(r.todo) = {Head(r.todo)} \cup Items(Tail(r.todo))
           /\ Head(r.todo) \in Ops /\ Head(r.todo) \in Items(r.todo)
           /\ Tail(r.todo) \in Seq(Ops)
BY AfterAdds

\* In words: a step that writes no baseline leaves the run in order and the
\* baselines as they were, if it still has to come to the application it was about.
LEMMA GoesOnKeeps ==
    ASSUME NEW r \in Runs, RunInOrder(r), r.todo # <<>>, Head(r.todo).what \notin Leaf,
           NEW m \in Seq(Ops), Quiet(m),
           \A o \in Items(m) : o.what \notin OnFiles \cup {"adoption", "marker"},
           r.kind \in {"boot", "restore"} => m = <<>>,
           NEW q, q = After(r, m),
           NEW b, NEW sn, NEW ow, BaselinesOK(r, b, sn, ow),
           Head(r.todo).what \in Settling =>
                \A a \in r.answers \ r.late : a = Head(r.todo).arg => Sound(b, sn, a) \/ Coming(m, a)
    PROVE  q \in Runs /\ RunInOrder(q) /\ BaselinesOK(q, b, sn, ow)
<1> DEFINE t == Tail(r.todo)
<1>1. /\ q \in Runs /\ q.todo = m \o t
      /\ q.kind = r.kind /\ q.mode = r.mode /\ q.scan = r.scan /\ q.answers = r.answers
      /\ q.late = r.late /\ q.made = r.made
      /\ Items(q.todo) = Items(m) \cup Items(t) /\ Items(r.todo) = {Head(r.todo)} \cup Items(t)
      /\ t \in Seq(Ops)
  BY GoesOnAdds
<1>2. r.todo \in Seq(Ops) /\ q.todo \in Seq(Ops)
  BY <1>1 DEF Runs
<1>3. Quiet(t)
  BY <1>2, OrderedTail DEF RunInOrder
<1> HIDE DEF t
<1>4. Quiet(q.todo)
  BY <1>1, <1>3 DEF Quiet
<1>5. BaselineFirst(q.todo)
  BY <1>2, <1>4, QuietIsOrdered
<1>6. r.kind # "none"
  BY DEF RunInOrder, Idle
<1>7. \A o \in Items(q.todo) :
        /\ o.what \in {"adoption", "marker"} => q.mode \in Modes
        /\ q.kind = "boot" => o.what = "put"
        /\ q.kind = "restore" => o.what = "takeBack" /\ o.arg \in q.made
        /\ q.kind \notin {"boot", "restore"} => o.what \notin OnFiles
  <2>1. SUFFICES ASSUME NEW o \in Items(q.todo)
                 PROVE  /\ o.what \in {"adoption", "marker"} => q.mode \in Modes
                        /\ q.kind = "boot" => o.what = "put"
                        /\ q.kind = "restore" => o.what = "takeBack" /\ o.arg \in q.made
                        /\ q.kind \notin {"boot", "restore"} => o.what \notin OnFiles
    OBVIOUS
  <2>2. CASE o \in Items(t)
    BY <2>2, <1>1 DEF RunInOrder
  <2>3. CASE o \in Items(m)
    <3>1. r.kind \notin {"boot", "restore"}
      BY <2>3, ItemsOfNone
    <3>2. QED
      BY <2>3, <3>1, <1>1
  <2>4. QED
    BY <2>1, <2>2, <2>3, <1>1
<1>8. RunInOrder(q)
  BY <1>1, <1>5, <1>6, <1>7 DEF RunInOrder
<1>9. ScansAreCurrent(q, ow)
  <2>1. \A o \in Items(q.todo) : o.what # "surfaces"
    BY <1>4 DEF Quiet, Leaf
  <2>2. QED
    BY <2>1, <1>1 DEF ScansAreCurrent, BaselinesOK
<1>10. HeadKnowsDisk(q.todo, b)
  <2>1. q.todo # <<>> => Head(q.todo) \in Items(q.todo)
    BY <1>2, ItemsOfTail
  <2>2. q.todo # <<>> => Head(q.todo).what \notin Leaf
    BY <2>1, <1>4 DEF Quiet
  <2>3. QED
    BY <2>2 DEF HeadKnowsDisk, Leaf
<1>11. AnswersInSight(q, b, sn)
  <2>1. SUFFICES ASSUME NEW a \in r.answers \ r.late, ~Sound(b, sn, a)
                 PROVE  Coming(q.todo, a)
    BY <1>1 DEF AnswersInSight
  <2>2. PICK o \in Items(r.todo) : o.what \in Settling /\ o.arg = a
    BY <2>1 DEF BaselinesOK, AnswersInSight, Coming
  <2>3. CASE o \in Items(t)
    BY <2>2, <2>3, <1>1 DEF Coming
  <2>4. CASE o = Head(r.todo)
    BY <2>1, <2>2, <2>4, <1>1 DEF Coming
  <2>5. QED
    BY <2>3, <2>4, <1>1
<1>12. QED
  BY <1>1, <1>8, <1>9, <1>10, <1>11 DEF BaselinesOK

\* In words: done with one write, a run is still in order and only what was about
\* the application of that write has come.
LEMMA PopKeeps ==
    ASSUME NEW r \in Runs, RunInOrder(r), r.todo # <<>>,
           NEW q, q = After(r, <<>>)
    PROVE  /\ q \in Runs /\ RunInOrder(q) /\ q.todo = Tail(r.todo)
           /\ q.scan = r.scan /\ q.answers = r.answers /\ q.late = r.late
           /\ q.kind = r.kind /\ q.made = r.made /\ q.before = r.before
           /\ Items(r.todo) = {Head(r.todo)} \cup Items(q.todo) /\ Head(r.todo) \in Ops
           /\ q.todo # <<>> =>
                /\ Head(q.todo).what # "staleSurfaces"
                /\ Head(q.todo).what = "lock" => Head(r.todo) = Op("surfaces", Head(q.todo).arg)
                /\ Head(q.todo).what = "staleLock" => Head(r.todo) = Op("staleSurfaces", Head(q.todo).arg)
<1>1. /\ q \in Runs /\ q.todo = <<>> \o Tail(r.todo)
      /\ q.kind = r.kind /\ q.mode = r.mode /\ q.scan = r.scan /\ q.answers = r.answers
      /\ q.late = r.late /\ q.made = r.made /\ q.before = r.before
      /\ Items(r.todo) = {Head(r.todo)} \cup Items(Tail(r.todo))
      /\ Head(r.todo) \in Ops /\ Tail(r.todo) \in Seq(Ops)
  BY GoesOnAdds, ItemsOfNone
<1>2. q.todo = Tail(r.todo)
  BY <1>1, ConcatEmptySeq
<1>3. r.todo \in Seq(Ops)
  BY DEF Runs
<1>4. /\ BaselineFirst(q.todo)
      /\ q.todo # <<>> =>
            /\ Head(q.todo).what # "staleSurfaces"
            /\ Head(q.todo).what = "lock" => Head(r.todo) = Op("surfaces", Head(q.todo).arg)
            /\ Head(q.todo).what = "staleLock" => Head(r.todo) = Op("staleSurfaces", Head(q.todo).arg)
  BY <1>2, <1>3, OrderedTail DEF RunInOrder
<1>5. r.kind # "none"
  BY DEF RunInOrder, Idle
<1>6. \A o \in Items(q.todo) : o \in Items(r.todo)
  BY <1>1, <1>2
<1>7. RunInOrder(q)
  BY <1>1, <1>4, <1>5, <1>6 DEF RunInOrder
<1>8. QED
  BY <1>1, <1>2, <1>4, <1>7

\* In words: an idle process owes nothing it has not to owe.
LEMMA IdleKeeps ==
    ASSUME NEW r \in Runs, NEW b, NEW sn, NEW ow, BaselinesOK(r, b, sn, ow)
    PROVE  Idle \in Runs /\ RunInOrder(Idle) /\ BaselinesOK(Idle, b, sn, ow)
<1>1. Idle \in Runs
  BY ItemsOfNone DEF Idle, Runs, Kinds
<1>2. Idle.todo = <<>> /\ Idle.late = {} /\ Idle.answers = {}
  BY DEF Idle
<1>3. BaselineFirst(<<>>)
  BY ItemsOfNone, QuietIsOrdered
<1>4. RunInOrder(Idle)
  BY <1>2, <1>3, ItemsOfNone DEF RunInOrder
<1>5. BaselinesOK(Idle, b, sn, ow)
  BY <1>2, ItemsOfNone DEF BaselinesOK, ScansAreCurrent, HeadKnowsDisk, AnswersInSight
<1>6. QED
  BY <1>1, <1>4, <1>5
-----------------------------------------------------------------------------
(* Steps of a run of the frontend context.                                 *)

\* In words: the write a process does is one it had to do.
LEMMA DoesOneOfIts ==
    ASSUME FrontendInv, NEW w, Does(w)
    PROVE  /\ run \in Runs /\ RunInOrder(run) /\ BaselinesOK(run, base, seen, owed)
           /\ run.todo # <<>> /\ Next1 = Head(run.todo) /\ Head(run.todo).what = w
           /\ Head(run.todo) \in Ops /\ Head(run.todo) \in Items(run.todo)
           /\ w \in OnApps => Head(run.todo).arg \in Apps
           /\ w \in OnFiles => Head(run.todo).arg \in Writables
           /\ w \notin OnFiles => run.kind \notin {"boot", "restore"}
<1>1. /\ run \in Runs /\ RunInOrder(run) /\ BaselinesOK(run, base, seen, owed)
      /\ run.todo # <<>> /\ Next1 = Head(run.todo) /\ Head(run.todo).what = w
  BY DEF FrontendInv, FrontendTypes, Does, Working, Next1
<1>2. run.todo \in Seq(Ops)
  BY <1>1 DEF Runs
<1>3. Head(run.todo) \in Ops /\ Head(run.todo) \in Items(run.todo)
  BY <1>1, <1>2, ItemsOfTail
<1>4. w \in OnApps => Head(run.todo).arg \in Apps
  BY <1>1, <1>3 DEF Ops, OnApps, OnFiles, OnAll, Leaf
<1>5. w \in OnFiles => Head(run.todo).arg \in Writables
  BY <1>1, <1>3 DEF Ops, OnApps, OnFiles, OnAll, Leaf
<1>6. w \notin OnFiles => run.kind \notin {"boot", "restore"}
  BY <1>1, <1>3 DEF RunInOrder, OnFiles
<1>7. QED
  BY <1>1, <1>3, <1>4, <1>5, <1>6

\* In words: a write of any other file leaves run and baselines in order.
LEMMA PlainWriteKeeps ==
    ASSUME FrontendInv, NEW w, Does(w), w \notin Leaf \cup Settling, GoesOn(<<>>),
           UNCHANGED <<base, seen, owed>>
    PROVE  run' \in Runs /\ RunInOrder(run') /\ BaselinesOK(run', base', seen', owed')
<1>1. /\ run \in Runs /\ RunInOrder(run) /\ BaselinesOK(run, base, seen, owed)
      /\ run.todo # <<>> /\ Head(run.todo).what = w
  BY DoesOneOfIts
<1>2. run' = After(run, <<>>)
  BY DEF GoesOn, After
<1>3. <<>> \in Seq(Ops) /\ Quiet(<<>>) /\ Items(<<>>) = {}
  BY ItemsOfNone
<1>4. run' \in Runs /\ RunInOrder(run') /\ BaselinesOK(run', base, seen, owed)
  <2>1. Head(run.todo).what \notin Leaf /\ Head(run.todo).what \notin Settling
    BY <1>1
  <2>2. QED
    BY <1>1, <1>2, <1>3, <2>1, GoesOnKeeps
<1>5. QED
  BY <1>4

\* In words: Detected and Discovered give an entry of the registry.
LEMMA DiscoveredIsRegistry ==
    ASSUME FrontendTypes
    PROVE  /\ Discovered \in Registries
           /\ \A a \in Apps : Detected(a) \in Statuses
           /\ Known \subseteq Apps
<1>1. \A a \in Apps : Detected(a) \in Statuses
  BY DEF Detected, Statuses
<1>2. Discovered \in Registries
  BY <1>1 DEF Discovered, Registries, Files
<1>3. QED
  BY <1>1, <1>2 DEF Known

\* In words: the writes of all but the baselines keep everything in order.
LEMMA PlainStepsKeep ==
    ASSUME FrontendInv,
           WriteAdoption \/ WriteMarker \/ WriteCalibration \/ WriteRegistry \/ WriteShared \/ WriteStatuses
    PROVE  FrontendInv'
<1>1. CASE WriteAdoption
  <2>1. run' \in Runs /\ RunInOrder(run') /\ BaselinesOK(run', base', seen', owed')
    BY <1>1, PlainWriteKeeps DEF WriteAdoption, Leaf, Settling, history
  <2>2. run.mode \in Modes
    BY <1>1, DoesOneOfIts DEF WriteAdoption, RunInOrder
  <2>3. QED
    BY <1>1, <2>1, <2>2 DEF WriteAdoption, FrontendInv, FrontendTypes, history, bounds
<1>2. CASE WriteMarker
  <2>1. run' \in Runs /\ RunInOrder(run') /\ BaselinesOK(run', base', seen', owed')
    BY <1>2, PlainWriteKeeps DEF WriteMarker, Leaf, Settling, history
  <2>2. QED
    BY <1>2, <2>1 DEF WriteMarker, FrontendInv, FrontendTypes, history, bounds
<1>3. CASE WriteCalibration
  <2>1. run' \in Runs /\ RunInOrder(run') /\ BaselinesOK(run', base', seen', owed')
    BY <1>3, PlainWriteKeeps DEF WriteCalibration, Leaf, Settling, history
  <2>2. QED
    BY <1>3, <2>1 DEF WriteCalibration, Calibration, FrontendInv, FrontendTypes, history, bounds
<1>4. CASE WriteRegistry
  <2>1. run' \in Runs /\ RunInOrder(run') /\ BaselinesOK(run', base', seen', owed')
    BY <1>4, PlainWriteKeeps DEF WriteRegistry, Leaf, Settling, history
  <2>2. Discovered \in Registries
    BY DiscoveredIsRegistry DEF FrontendInv
  <2>3. QED
    BY <1>4, <2>1, <2>2 DEF WriteRegistry, FrontendInv, FrontendTypes, history, bounds
<1>5. CASE WriteShared
  <2>1. run' \in Runs /\ RunInOrder(run') /\ BaselinesOK(run', base', seen', owed')
    BY <1>5, PlainWriteKeeps DEF WriteShared, Leaf, Settling, history
  <2>2. QED
    BY <1>5, <2>1 DEF WriteShared, FrontendInv, FrontendTypes, Files, history, bounds
<1>6. CASE WriteStatuses
  <2>1. run' \in Runs /\ RunInOrder(run') /\ BaselinesOK(run', base', seen', owed')
    BY <1>6, PlainWriteKeeps DEF WriteStatuses, Leaf, Settling, history
  <2>2. registry' \in Registries
    <3>1. \A a \in Apps : Detected(a) \in Statuses
      BY DiscoveredIsRegistry DEF FrontendInv
    <3>2. QED
      BY <1>6, <3>1 DEF WriteStatuses, FrontendInv, FrontendTypes, Registries
  <2>3. QED
    BY <1>6, <2>1, <2>2 DEF WriteStatuses, FrontendInv, FrontendTypes, history, bounds
<1>7. QED
  BY <1>1, <1>2, <1>3, <1>4, <1>5, <1>6

\* In words: Discover writes the two registries.
LEMMA DiscoverIsQuiet ==
    /\ Discover \in Seq(Ops) /\ Quiet(Discover)
    /\ Items(Discover) = {Op("registry", "-"), Op("shared", "-")}
<1>1. Op("registry", "-") \in Ops /\ Op("shared", "-") \in Ops
  BY DEF Ops, OnAll, Op
<1>2. Discover \in Seq(Ops) /\ Items(Discover) = {Op("registry", "-"), Op("shared", "-")}
  BY <1>1, TwoItems DEF Discover
<1>3. QED
  BY <1>2, OpNames DEF Quiet, Leaf

\* In words: so does a list of what is to be done with each application.
LEMMA EachIsQuiet ==
    ASSUME NEW what \in {"generate", "mark"}, NEW S, S \subseteq Apps
    PROVE  /\ Each(what, S) \in Seq(Ops) /\ Quiet(Each(what, S))
           /\ Items(Each(what, S)) = {Op(what, a) : a \in S}
<1>1. IsFiniteSet(S)
  BY FrontendAssumption, FS_Subset
<1>2. Each(what, S) \in Seq([what : {what}, arg : S]) /\ Items(Each(what, S)) = {Op(what, a) : a \in S}
  BY <1>1, EachListsAll
<1>3. \A a \in S : Op(what, a) \in Ops /\ Op(what, a).what = what
  BY DEF Ops, OnApps, Leaf, Op
<1>4. Each(what, S) \in Seq(Ops)
  <2>1. Items(Each(what, S)) \subseteq Ops
    BY <1>2, <1>3
  <2>2. QED
    BY <1>2, <2>1, SeqOfItems
<1>5. Quiet(Each(what, S))
  BY <1>2, <1>3 DEF Quiet, Leaf
<1>6. QED
  BY <1>2, <1>4, <1>5
\* In words: steps that plan more writes keep everything in order.
LEMMA PlanningKeeps ==
    ASSUME FrontendInv, ResolveShared \/ Targets \/ Serve
    PROVE  FrontendInv'
<1>1. ASSUME NEW w, Does(w), w \notin Leaf \cup Settling \cup OnFiles,
             NEW m \in Seq(Ops), Quiet(m), \A o \in Items(m) : o.what \notin OnFiles \cup {"adoption", "marker"},
             GoesOn(m), UNCHANGED <<present, frontend, history, bounds>>
      PROVE  FrontendInv'
  <2>1. /\ run \in Runs /\ RunInOrder(run) /\ BaselinesOK(run, base, seen, owed)
        /\ run.todo # <<>> /\ Head(run.todo).what = w /\ run.kind \notin {"boot", "restore"}
    BY <1>1, DoesOneOfIts
  <2>2. run' = After(run, m)
    BY <1>1 DEF GoesOn, After
  <2>3. Head(run.todo).what \notin Leaf /\ Head(run.todo).what \notin Settling
    BY <1>1, <2>1
  <2>4. run' \in Runs /\ RunInOrder(run') /\ BaselinesOK(run', base, seen, owed)
    BY <1>1, <2>1, <2>2, <2>3, GoesOnKeeps
  <2>5. QED
    BY <1>1, <2>4 DEF FrontendInv, FrontendTypes, frontend, history, bounds
<1>2. /\ <<>> \in Seq(Ops) /\ Quiet(<<>>) /\ Items(<<>>) = {}
      /\ Discover \in Seq(Ops) /\ Quiet(Discover)
      /\ \A o \in Items(Discover) : o.what \notin OnFiles \cup {"adoption", "marker"}
  BY ItemsOfNone, DiscoverIsQuiet, OpNames DEF OnFiles
<1>3. CASE ResolveShared
  <2>1. CASE GoesOn(<<>>)
    BY <1>1, <1>2, <1>3, <2>1 DEF ResolveShared, Leaf, Settling, OnFiles
  <2>2. CASE GoesOn(Discover)
    BY <1>1, <1>2, <1>3, <2>2 DEF ResolveShared, Leaf, Settling, OnFiles
  <2>3. QED
    BY <1>3, <2>1, <2>2 DEF ResolveShared
<1>4. CASE Targets
  <2> DEFINE S == IF run.scope = {} THEN Known ELSE Known \cap run.scope
  <2>1. S \subseteq Apps
    BY DiscoveredIsRegistry DEF FrontendInv
  <2>2. PICK T \in SUBSET Apps : T = S
    BY <2>1
  <2>3. /\ Each("generate", T) \in Seq(Ops) /\ Quiet(Each("generate", T))
        /\ Items(Each("generate", T)) = {Op("generate", a) : a \in T}
    BY EachIsQuiet
  <2>4. \A o \in Items(Each("generate", T)) : o.what \notin OnFiles \cup {"adoption", "marker"}
    BY <2>3, OpNames DEF OnFiles
  <2>5. GoesOn(Each("generate", T)) /\ Does("targets") /\ UNCHANGED <<present, frontend, history, bounds>>
    BY <1>4, <2>2 DEF Targets
  <2>6. QED
    BY <1>1, <2>3, <2>4, <2>5 DEF Leaf, Settling, OnFiles
<1>5. CASE Serve
  <2>1. CASE GoesOn(<<>>)
    BY <1>1, <1>2, <1>5, <2>1 DEF Serve, Leaf, Settling, OnFiles
  <2>2. CASE GoesOn(<<Op("generate", Next1.arg)>>)
    <3>1. Next1.arg \in Apps
      BY <1>5, DoesOneOfIts DEF Serve, OnApps
    <3>2. PICK a \in Apps : a = Next1.arg
      BY <3>1
    <3>3. Op("generate", a) \in Ops
      BY DEF Ops, OnApps, Op
    <3>4. /\ <<Op("generate", a)>> \in Seq(Ops) /\ Items(<<Op("generate", a)>>) = {Op("generate", a)}
      BY <3>3, ItemsOfOne
    <3>5. /\ Quiet(<<Op("generate", a)>>)
          /\ \A o \in Items(<<Op("generate", a)>>) : o.what \notin OnFiles \cup {"adoption", "marker"}
      BY <3>4, OpNames DEF Quiet, Leaf, OnFiles
    <3>6. GoesOn(<<Op("generate", a)>>) /\ Does("serve") /\ UNCHANGED <<present, frontend, history, bounds>>
      BY <1>5, <2>2, <3>2 DEF Serve
    <3>7. QED
      BY <1>1, <3>4, <3>5, <3>6 DEF Leaf, Settling, OnFiles
  <2>3. QED
    BY <1>5, <2>1, <2>2 DEF Serve
<1>6. QED
  BY <1>3, <1>4, <1>5

\* In words: what Decide reports as answered is generated or marked afterwards.
LEMMA DecideKeeps ==
    ASSUME FrontendInv, Decide
    PROVE  FrontendInv'
<1> DEFINE affected == run.scope \cap Known
           others == IF "ui" \in run.scope THEN Known \ affected ELSE {}
           shared == IF "ui" \in run.scope THEN <<Op("resolve", "-")>> \o Discover ELSE <<>>
           more == Each("generate", affected) \o shared \o Each("mark", others)
           r == [run EXCEPT !.answers = affected \cup others]
<1>1. /\ run \in Runs /\ RunInOrder(run) /\ BaselinesOK(run, base, seen, owed)
      /\ run.todo # <<>> /\ Head(run.todo).what = "decide" /\ run.kind \notin {"boot", "restore"}
  BY DoesOneOfIts DEF Decide, OnFiles
<1>2. affected \subseteq Apps /\ others \subseteq Apps
  BY DiscoveredIsRegistry DEF FrontendInv
<1>3. /\ Each("generate", affected) \in Seq(Ops) /\ Quiet(Each("generate", affected))
      /\ Items(Each("generate", affected)) = {Op("generate", a) : a \in affected}
  BY <1>2, EachIsQuiet
<1>4. /\ Each("mark", others) \in Seq(Ops) /\ Quiet(Each("mark", others))
      /\ Items(Each("mark", others)) = {Op("mark", a) : a \in others}
  BY <1>2, EachIsQuiet
<1>5. shared \in Seq(Ops) /\ Items(shared) \subseteq {Op("resolve", "-"), Op("registry", "-"), Op("shared", "-")}
  <2>1. Op("resolve", "-") \in Ops
    BY DEF Ops, OnAll, Op
  <2>2. <<Op("resolve", "-")>> \in Seq(Ops) /\ Items(<<Op("resolve", "-")>>) = {Op("resolve", "-")}
    BY <2>1, ItemsOfOne
  <2>3. /\ <<Op("resolve", "-")>> \o Discover \in Seq(Ops)
        /\ Items(<<Op("resolve", "-")>> \o Discover) = Items(<<Op("resolve", "-")>>) \cup Items(Discover)
    BY <2>2, DiscoverIsQuiet, ItemsOfConcat
  <2>4. QED
    BY <2>2, <2>3, DiscoverIsQuiet, ItemsOfNone
<1>6. run' = [run EXCEPT !.answers = affected \cup others,
                         !.todo = Each("generate", affected) \o shared \o Each("mark", others) \o Tail(@)]
  BY DEF Decide
<1>7. UNCHANGED <<present, frontend, history, bounds>>
  BY DEF Decide
<1> HIDE DEF affected, others, shared
<1>8. /\ more \in Seq(Ops)
      /\ Items(more) = {Op("generate", a) : a \in affected} \cup Items(shared) \cup {Op("mark", a) : a \in others}
  <2> DEFINE one == Each("generate", affected) \o shared
  <2>1. one \in Seq(Ops) /\ Items(one) = {Op("generate", a) : a \in affected} \cup Items(shared)
    BY <1>3, <1>5, ItemsOfConcat
  <2>2. one \o Each("mark", others) \in Seq(Ops)
        /\ Items(one \o Each("mark", others)) = Items(one) \cup Items(Each("mark", others))
    <3> HIDE DEF one
    <3>1. QED
      BY <1>4, <2>1, ItemsOfConcat
  <2>3. QED
    BY <1>4, <2>1, <2>2
<1>9. Quiet(more) /\ \A o \in Items(more) : o.what \notin OnFiles \cup {"adoption", "marker"}
  BY <1>5, <1>8, OpNames DEF Quiet, Leaf, OnFiles
<1>10. r \in Runs /\ r.todo = run.todo /\ r.kind = run.kind /\ r.scan = run.scan /\ r.late = run.late
       /\ r.mode = run.mode /\ r.made = run.made /\ r.answers = affected \cup others
  BY <1>1, <1>2 DEF Runs
<1> DEFINE s == [r EXCEPT !.answers = {}]
<1>11. s \in Runs /\ s.todo = run.todo /\ s.kind = run.kind /\ s.scan = run.scan /\ s.late = run.late
       /\ s.mode = run.mode /\ s.made = run.made /\ s.answers = {}
  BY <1>1, <1>2 DEF Runs
<1>12. run' = After(r, more)
  <2>1. run' = [r EXCEPT !.todo = more \o Tail(@)]
    BY <1>1, <1>6 DEF Runs
  <2>2. QED
    BY <2>1 DEF After
<1>13. run.kind # "none"
  BY <1>1 DEF RunInOrder, Idle
<1> HIDE DEF more
<1>14. After(s, more) \in Runs /\ RunInOrder(After(s, more)) /\ BaselinesOK(After(s, more), base, seen, owed)
  <2>1. RunInOrder(s)
    BY <1>1, <1>11, <1>13 DEF RunInOrder
  <2>2. BaselinesOK(s, base, seen, owed)
    BY <1>1, <1>11 DEF BaselinesOK, ScansAreCurrent, AnswersInSight
  <2>3. Head(s.todo).what \notin Leaf /\ Head(s.todo).what \notin Settling /\ s.todo # <<>>
        /\ s.kind \notin {"boot", "restore"}
    BY <1>1, <1>11 DEF Leaf, Settling
  <2> HIDE DEF s
  <2>4. QED
    BY <1>8, <1>9, <1>11, <2>1, <2>2, <2>3, GoesOnKeeps
<1>15. /\ run' \in Runs /\ run'.todo = After(s, more).todo /\ run'.kind = After(s, more).kind
       /\ run'.scan = After(s, more).scan /\ run'.late = After(s, more).late
       /\ run'.mode = After(s, more).mode /\ run'.made = After(s, more).made
       /\ run'.answers = affected \cup others /\ run'.kind # "none"
  <2>1. /\ After(r, more) \in Runs /\ After(r, more).todo = more \o Tail(run.todo) /\ After(r, more).kind = run.kind
        /\ After(r, more).scan = run.scan /\ After(r, more).late = run.late /\ After(r, more).mode = run.mode
        /\ After(r, more).made = run.made /\ After(r, more).answers = affected \cup others
    <3>1. r.todo # <<>>
      BY <1>1, <1>10
    <3> HIDE DEF r
    <3>2. QED
      BY <1>8, <1>10, <3>1, AfterAdds
  <2>2. /\ After(s, more).todo = more \o Tail(run.todo) /\ After(s, more).kind = run.kind
        /\ After(s, more).scan = run.scan /\ After(s, more).late = run.late /\ After(s, more).mode = run.mode
        /\ After(s, more).made = run.made
    <3>1. s.todo # <<>>
      BY <1>1, <1>11
    <3> HIDE DEF s
    <3>2. QED
      BY <1>8, <1>11, <3>1, AfterAdds
  <2>3. QED
    BY <1>12, <1>13, <2>1, <2>2
<1>16. RunInOrder(run')
  BY <1>14, <1>15 DEF RunInOrder
<1>17. AnswersInSight(run', base, seen)
  <2>1. SUFFICES ASSUME NEW a \in affected \cup others
                 PROVE  Coming(run'.todo, a)
    BY <1>15 DEF AnswersInSight
  <2>2. Items(more) \subseteq Items(run'.todo)
    <3>1. r.todo # <<>>
      BY <1>1, <1>10
    <3> HIDE DEF r
    <3>2. Items(run'.todo) = Items(more) \cup Items(Tail(r.todo))
      BY <1>8, <1>10, <1>12, <3>1, GoesOnAdds
    <3>3. QED
      BY <3>2
  <2>3. CASE a \in affected
    <3>1. Op("generate", a) \in Items(run'.todo)
      BY <2>2, <2>3, <1>8
    <3>2. QED
      BY <3>1, OpNames DEF Coming, Settling
  <2>4. CASE a \in others
    <3>1. Op("mark", a) \in Items(run'.todo)
      BY <2>2, <2>4, <1>8
    <3>2. QED
      BY <3>1, OpNames DEF Coming, Settling
  <2>5. QED
    BY <2>3, <2>4
<1>18. BaselinesOK(run', base, seen, owed)
  <2>1. ScansAreCurrent(run', owed) /\ HeadKnowsDisk(run'.todo, base)
    BY <1>14, <1>15 DEF BaselinesOK, ScansAreCurrent
  <2>2. \A a \in Apps \ owed : Sound(base, seen, a)
    BY <1>1 DEF BaselinesOK
  <2>3. QED
    BY <2>1, <2>2, <1>17 DEF BaselinesOK
<1>19. QED
  BY <1>7, <1>15, <1>16, <1>18 DEF FrontendInv, FrontendTypes, frontend, history, bounds
\* In words: the writes of one baseline, put in front, keep everything in order.
LEMMA FrontKeeps ==
    ASSUME NEW r \in Runs, RunInOrder(r), r.todo # <<>>, r.kind \notin {"boot", "restore"},
           Head(r.todo).what \notin Leaf,
           NEW m \in Seq(Ops), \A o \in Items(m) : o.what \notin OnFiles \cup {"adoption", "marker"},
           NEW q \in Runs, q.todo = m \o Tail(r.todo), BaselineFirst(q.todo),
           q.kind = r.kind, q.mode = r.mode, q.answers = r.answers, q.late = r.late,
           NEW b, NEW sn, NEW ow, BaselinesOK(r, b, sn, ow), HeadKnowsDisk(q.todo, b),
           \A o \in Items(m) : o.what = "surfaces" => o.arg \in q.scan,
           Head(r.todo).what \in Settling => Coming(m, Head(r.todo).arg)
    PROVE  RunInOrder(q) /\ BaselinesOK(q, b, sn, ow)
<1> DEFINE t == Tail(r.todo)
<1>1. /\ Items(q.todo) = Items(m) \cup Items(t) /\ Items(r.todo) = {Head(r.todo)} \cup Items(t)
  <2>1. r.todo \in Seq(Ops)
    BY DEF Runs
  <2>2. t \in Seq(Ops) /\ Items(r.todo) = {Head(r.todo)} \cup Items(t)
    BY <2>1, ItemsOfTail
  <2> HIDE DEF t
  <2>3. Items(m \o t) = Items(m) \cup Items(t)
    BY <2>2, ItemsOfConcat
  <2>4. QED
    BY <2>2, <2>3 DEF t
<1>2. Quiet(t)
  BY OrderedTail DEF RunInOrder, Runs
<1>3. r.kind # "none"
  BY DEF RunInOrder, Idle
<1> HIDE DEF t
<1>4. RunInOrder(q)
  <2>1. \A o \in Items(q.todo) : o.what \notin OnFiles /\ (o.what \in {"adoption", "marker"} => q.mode \in Modes)
    BY <1>1 DEF RunInOrder
  <2>2. QED
    BY <1>3, <2>1 DEF RunInOrder
<1>5. ScansAreCurrent(q, ow)
  BY <1>1, <1>2 DEF BaselinesOK, ScansAreCurrent, Quiet, Leaf
<1>6. AnswersInSight(q, b, sn)
  <2>1. SUFFICES ASSUME NEW a \in r.answers \ r.late, ~Sound(b, sn, a)
                 PROVE  Coming(q.todo, a)
    BY DEF AnswersInSight
  <2>2. PICK o \in Items(r.todo) : o.what \in Settling /\ o.arg = a
    BY <2>1 DEF BaselinesOK, AnswersInSight, Coming
  <2>3. CASE o \in Items(t)
    BY <2>2, <2>3, <1>1 DEF Coming
  <2>4. CASE o = Head(r.todo)
    BY <2>2, <2>4, <1>1 DEF Coming
  <2>5. QED
    BY <2>3, <2>4, <1>1
<1>7. QED
  BY <1>4, <1>5, <1>6 DEF BaselinesOK

\* In words: generate_baseline scans and has the files to write.
LEMMA GenerateKeeps ==
    ASSUME FrontendInv, Generate
    PROVE  FrontendInv'
<1> DEFINE a == Next1.arg
<1>1. /\ run \in Runs /\ RunInOrder(run) /\ BaselinesOK(run, base, seen, owed)
      /\ run.todo # <<>> /\ Head(run.todo).what = "generate" /\ run.kind \notin {"boot", "restore"}
      /\ Head(run.todo).arg = a /\ a \in Apps
  BY DoesOneOfIts DEF Generate, OnFiles, OnApps
<1>2. run' = [run EXCEPT !.scan = {a}, !.todo = GenerateOps(a) \o Tail(@)]
  BY DEF Generate, GenerateOps
<1>3. UNCHANGED <<present, frontend, history, bounds>>
  BY DEF Generate
<1> HIDE DEF a
<1>4. Tail(run.todo) \in Seq(Ops) /\ Quiet(Tail(run.todo))
  <2>1. run.todo \in Seq(Ops) /\ Head(run.todo).what \notin Leaf
    BY <1>1 DEF Runs, Leaf
  <2>2. QED
    BY <1>1, <2>1, ItemsOfTail, OrderedTail DEF RunInOrder
<1>5. /\ GenerateOps(a) \in Seq(Ops)
      /\ Items(GenerateOps(a)) = {Op("profile", a), Op("baseline", a), Op("surfaces", a),
                                  Op("lock", a), Op("statuses", "-")}
      /\ BaselineFirst(GenerateOps(a) \o Tail(run.todo))
      /\ GenerateOps(a) \o Tail(run.todo) # <<>>
      /\ Head(GenerateOps(a) \o Tail(run.todo)) = Op("profile", a)
  BY <1>1, <1>4, GenerateOrdered
<1>6. GenerateOps(a) \o Tail(run.todo) \in Seq(Ops)
  BY <1>4, <1>5, ConcatProperties
<1>7. /\ run'.todo = GenerateOps(a) \o Tail(run.todo) /\ run'.scan = {a}
      /\ run'.kind = run.kind /\ run'.mode = run.mode /\ run'.answers = run.answers /\ run'.late = run.late
  BY <1>1, <1>2 DEF Runs
<1>8. run' \in Runs
  BY <1>1, <1>2, <1>6 DEF Runs
<1>9. \A o \in Items(GenerateOps(a)) :
        /\ o.what \notin OnFiles \cup {"adoption", "marker"}
        /\ o.what = "surfaces" => o.arg \in run'.scan
  BY <1>5, <1>7, OpNames DEF OnFiles
<1>10. HeadKnowsDisk(run'.todo, base)
  BY <1>5, <1>7, OpNames DEF HeadKnowsDisk
<1>11. Coming(GenerateOps(a), Head(run.todo).arg)
  <2>1. Op("surfaces", a) \in Items(GenerateOps(a))
    BY <1>5
  <2>2. QED
    BY <1>1, <2>1, OpNames DEF Coming, Settling
<1>12. RunInOrder(run') /\ BaselinesOK(run', base, seen, owed)
  <2>1. Head(run.todo).what \notin Leaf
    BY <1>1 DEF Leaf
  <2>2. BaselineFirst(run'.todo)
    BY <1>5, <1>7
  <2>3. QED
    BY <1>1, <1>5, <1>7, <1>8, <1>9, <1>10, <1>11, <2>1, <2>2, FrontKeeps
<1>13. QED
  BY <1>3, <1>8, <1>12 DEF FrontendInv, FrontendTypes, frontend, history, bounds

\* In words: _mark_surfaces_stale makes what is missing, leaves what cannot be
\* read, and has the others to mark.
LEMMA MarkKeeps ==
    ASSUME FrontendInv, Mark
    PROVE  FrontendInv'
<1> DEFINE a == Next1.arg
<1>1. /\ run \in Runs /\ RunInOrder(run) /\ BaselinesOK(run, base, seen, owed)
      /\ run.todo # <<>> /\ Head(run.todo).what = "mark" /\ run.kind \notin {"boot", "restore"}
      /\ Head(run.todo).arg = a /\ a \in Apps
  BY DoesOneOfIts DEF Mark, OnFiles, OnApps
<1>2. base[a].surfaces \in Staleness
  BY <1>1 DEF FrontendInv, FrontendTypes, Baselines
<1>3. \/ base[a].surfaces = "-" /\ GoesOn(<<Op("generate", a), Op("mark", a)>>)
      \/ base[a].surfaces = "torn" /\ GoesOn(<<>>)
      \/ base[a].surfaces \in {"FRESH", "DEPENDENCY_STALE"} /\ GoesOn(StaleOps(a))
  BY <1>2 DEF Mark, Staleness, StaleOps
<1>4. UNCHANGED <<present, frontend, history, bounds>>
  BY DEF Mark
<1> HIDE DEF a
<1>5. Head(run.todo).what \notin Leaf
  BY <1>1 DEF Leaf
<1>6. SUFFICES run' \in Runs /\ RunInOrder(run') /\ BaselinesOK(run', base, seen, owed)
  BY <1>4 DEF FrontendInv, FrontendTypes, frontend, history, bounds
<1>7. CASE base[a].surfaces = "-" /\ GoesOn(<<Op("generate", a), Op("mark", a)>>)
  <2> DEFINE m == <<Op("generate", a), Op("mark", a)>>
  <2>1. Op("generate", a) \in Ops /\ Op("mark", a) \in Ops
    BY <1>1 DEF Ops, OnApps, Op
  <2>2. m \in Seq(Ops) /\ Items(m) = {Op("generate", a), Op("mark", a)}
    BY <2>1, TwoItems
  <2>3. run' = After(run, m)
    BY <1>7 DEF GoesOn, After
  <2> HIDE DEF m
  <2>4. Quiet(m) /\ (\A o \in Items(m) : o.what \notin OnFiles \cup {"adoption", "marker"}) /\ Coming(m, a)
    BY <2>2, OpNames DEF Quiet, Leaf, OnFiles, Coming, Settling
  <2>5. QED
    BY <1>1, <1>5, <2>2, <2>3, <2>4, GoesOnKeeps
<1>8. CASE base[a].surfaces = "torn" /\ GoesOn(<<>>)
  <2>1. run' = After(run, <<>>)
    BY <1>8 DEF GoesOn, After
  <2>2. Sound(base, seen, a)
    BY <1>8 DEF Sound
  <2>3. <<>> \in Seq(Ops) /\ Quiet(<<>>) /\ Items(<<>>) = {}
    BY ItemsOfNone
  <2>4. QED
    BY <1>1, <1>5, <2>1, <2>2, <2>3, GoesOnKeeps
<1>9. CASE base[a].surfaces \in {"FRESH", "DEPENDENCY_STALE"} /\ GoesOn(StaleOps(a))
  <2>1. Tail(run.todo) \in Seq(Ops) /\ Quiet(Tail(run.todo))
    <3>1. run.todo \in Seq(Ops)
      BY <1>1 DEF Runs
    <3>2. QED
      BY <1>1, <1>5, <3>1, ItemsOfTail, OrderedTail DEF RunInOrder
  <2>2. /\ StaleOps(a) \in Seq(Ops)
        /\ Items(StaleOps(a)) = {Op("staleSurfaces", a), Op("staleLock", a)}
        /\ BaselineFirst(StaleOps(a) \o Tail(run.todo))
        /\ Head(StaleOps(a) \o Tail(run.todo)) = Op("staleSurfaces", a)
    BY <1>1, <2>1, StaleOrdered
  <2>3. run' = After(run, StaleOps(a))
    BY <1>9 DEF GoesOn, After
  <2>4. /\ run' \in Runs /\ run'.todo = StaleOps(a) \o Tail(run.todo)
        /\ run'.kind = run.kind /\ run'.mode = run.mode /\ run'.answers = run.answers /\ run'.late = run.late
    BY <1>1, <2>2, <2>3, GoesOnAdds
  <2>5. \A o \in Items(StaleOps(a)) :
            /\ o.what \notin OnFiles \cup {"adoption", "marker"}
            /\ o.what = "surfaces" => o.arg \in run'.scan
    BY <2>2, OpNames DEF OnFiles
  <2>6. HeadKnowsDisk(run'.todo, base)
    BY <1>9, <2>2, <2>4, OpNames DEF HeadKnowsDisk
  <2>7. Coming(StaleOps(a), Head(run.todo).arg)
    <3>1. Op("staleLock", a) \in Items(StaleOps(a))
      BY <2>2
    <3>2. QED
      BY <1>1, <3>1, OpNames DEF Coming, Settling
  <2>8. BaselineFirst(run'.todo)
    BY <2>2, <2>4
  <2>9. QED
    BY <1>1, <1>5, <2>2, <2>4, <2>5, <2>6, <2>7, <2>8, FrontKeeps
<1>10. QED
  BY <1>3, <1>7, <1>8, <1>9
\* In words: the write of a baseline that keeps what was sound, and makes sound
\* what it settles, keeps everything in order.
LEMMA BaselineWriteKeeps ==
    ASSUME NEW r \in Runs, RunInOrder(r), r.todo # <<>>, NEW q, q = After(r, <<>>),
           NEW b, NEW c, NEW sn, NEW sm, NEW ow, BaselinesOK(r, b, sn, ow), HeadKnowsDisk(q.todo, c),
           \A x \in Apps : Sound(b, sn, x) => Sound(c, sm, x) \/ x \in r.late,
           Head(r.todo).what \in Settling =>
                Head(r.todo).arg \in r.late \/ Sound(c, sm, Head(r.todo).arg)
    PROVE  BaselinesOK(q, c, sm, ow)
<1>1. /\ q.scan = r.scan /\ q.answers = r.answers /\ q.late = r.late
      /\ Items(r.todo) = {Head(r.todo)} \cup Items(q.todo)
  BY PopKeeps
<1>2. ScansAreCurrent(q, ow)
  BY <1>1 DEF BaselinesOK, ScansAreCurrent
<1>3. AnswersInSight(q, c, sm)
  <2>1. SUFFICES ASSUME NEW a \in r.answers \ r.late, ~Sound(c, sm, a)
                 PROVE  Coming(q.todo, a)
    BY <1>1 DEF AnswersInSight
  <2>2. a \in Apps /\ ~Sound(b, sn, a)
    BY <2>1 DEF Runs
  <2>3. PICK o \in Items(r.todo) : o.what \in Settling /\ o.arg = a
    BY <2>1, <2>2 DEF BaselinesOK, AnswersInSight, Coming
  <2>4. o # Head(r.todo)
    BY <2>1, <2>3
  <2>5. QED
    BY <2>3, <2>4, <1>1 DEF Coming
<1>4. \A a \in Apps \ ow : Sound(c, sm, a)
  BY DEF BaselinesOK, ScansAreCurrent
<1>5. QED
  BY <1>2, <1>3, <1>4 DEF BaselinesOK

\* In words: the files of the baseline, in the order of generate_baseline and
\* _mark_surfaces_stale.
LEMMA BaselineStepsKeep ==
    ASSUME FrontendInv,
           WriteProfile \/ WriteUi \/ WriteSurfaces \/ WriteLock \/ WriteStaleSurfaces \/ WriteStaleLock
    PROVE  FrontendInv'
<1> DEFINE a == Next1.arg
           w == Next1.what
<1>1. Does(w) /\ w \in Leaf /\ run' = After(run, <<>>)
  BY DEF WriteProfile, WriteUi, WriteSurfaces, WriteLock, WriteStaleSurfaces, WriteStaleLock,
         WriteBase, Does, Leaf, GoesOn, After
<1>2. UNCHANGED <<present, adoption, marker, calibration, registry, sharedUi, owed, edits, kills, runs>>
  BY DEF WriteProfile, WriteUi, WriteSurfaces, WriteLock, WriteStaleSurfaces, WriteStaleLock,
         WriteBase, bounds
<1>3. \/ w = "profile" /\ base' = [base EXCEPT ![a].profile = "ok"] /\ seen' = seen
      \/ w = "baseline" /\ base' = [base EXCEPT ![a].ui = "ok"] /\ seen' = seen
      \/ /\ w = "surfaces" /\ base' = [base EXCEPT ![a].surfaces = "FRESH"]
         /\ seen' = IF a \in run.scan THEN seen \cup {a} ELSE seen \ {a}
      \/ w = "lock" /\ base' = [base EXCEPT ![a].lock = "FRESH"] /\ seen' = seen
      \/ w = "staleSurfaces" /\ base' = [base EXCEPT ![a].surfaces = "DEPENDENCY_STALE"] /\ seen' = seen
      \/ w = "staleLock" /\ base' = [base EXCEPT ![a].lock = "DEPENDENCY_STALE"] /\ seen' = seen
  BY DEF WriteProfile, WriteUi, WriteSurfaces, WriteLock, WriteStaleSurfaces, WriteStaleLock,
         WriteBase, Does
<1>4. /\ run \in Runs /\ RunInOrder(run) /\ BaselinesOK(run, base, seen, owed)
      /\ run.todo # <<>> /\ Next1 = Head(run.todo) /\ Head(run.todo) \in Items(run.todo)
      /\ Head(run.todo).arg = a /\ Head(run.todo).what = w /\ a \in Apps
  <2>1. PICK v : v = w
    OBVIOUS
  <2>2. Does(v) /\ v \in OnApps
    BY <1>1, <2>1 DEF OnApps
  <2>3. QED
    BY <2>1, <2>2, DoesOneOfIts
<1>5. base \in [Apps -> Baselines] /\ seen \subseteq Apps
  BY DEF FrontendInv, FrontendTypes
<1> HIDE DEF a, w
<1>6. /\ run' \in Runs /\ RunInOrder(run') /\ run'.todo = Tail(run.todo)
      /\ run'.todo # <<>> =>
            /\ Head(run'.todo).what # "staleSurfaces"
            /\ Head(run'.todo).what = "lock" => Head(run.todo) = Op("surfaces", Head(run'.todo).arg)
            /\ Head(run'.todo).what = "staleLock" => Head(run.todo) = Op("staleSurfaces", Head(run'.todo).arg)
  BY <1>1, <1>4, PopKeeps
<1>8. base' \in [Apps -> Baselines] /\ seen' \subseteq Apps
  BY <1>3, <1>4, <1>5 DEF Baselines, Files, Staleness
<1>9. \A x \in Apps \ {a} : base'[x] = base[x] /\ (x \in seen' <=> x \in seen)
  BY <1>3, <1>5
<1>10. \/ w \in {"profile", "baseline"} /\ base'[a].surfaces = base[a].surfaces
               /\ base'[a].lock = base[a].lock /\ seen' = seen
       \/ w = "surfaces" /\ base'[a].surfaces = "FRESH" /\ (a \in run.scan => a \in seen')
       \/ w = "lock" /\ base'[a].surfaces = base[a].surfaces /\ base'[a].lock = "FRESH" /\ seen' = seen
       \/ w = "staleSurfaces" /\ base'[a].surfaces = "DEPENDENCY_STALE"
               /\ base'[a].lock = base[a].lock /\ seen' = seen
       \/ w = "staleLock" /\ base'[a].surfaces = base[a].surfaces
               /\ base'[a].lock = "DEPENDENCY_STALE" /\ seen' = seen
  BY <1>3, <1>4, <1>5 DEF Baselines
<1>11. /\ w = "lock" => base[a].surfaces = "FRESH"
       /\ w = "staleSurfaces" => base[a].surfaces \in {"FRESH", "DEPENDENCY_STALE"}
       /\ w = "staleLock" => base[a].surfaces = "DEPENDENCY_STALE"
       /\ w = "surfaces" => a \in run.scan \cup run.late
  BY <1>4 DEF BaselinesOK, HeadKnowsDisk, ScansAreCurrent
<1>12. HeadKnowsDisk(run'.todo, base')
  <2>1. SUFFICES ASSUME run'.todo # <<>>
                 PROVE  /\ Head(run'.todo).what = "lock" => base'[Head(run'.todo).arg].surfaces = "FRESH"
                        /\ Head(run'.todo).what # "staleSurfaces"
                        /\ Head(run'.todo).what = "staleLock" =>
                              base'[Head(run'.todo).arg].surfaces = "DEPENDENCY_STALE"
    BY DEF HeadKnowsDisk
  <2>2. ASSUME Head(run'.todo).what = "lock"
        PROVE  w = "surfaces" /\ Head(run'.todo).arg = a
    BY <1>4, <1>6, <2>1, <2>2, OpNames
  <2>3. ASSUME Head(run'.todo).what = "staleLock"
        PROVE  w = "staleSurfaces" /\ Head(run'.todo).arg = a
    BY <1>4, <1>6, <2>1, <2>3, OpNames
  <2>4. QED
    BY <1>6, <1>10, <2>1, <2>2, <2>3
<1>13. ASSUME NEW x \in Apps, Sound(base, seen, x)
       PROVE  Sound(base', seen', x) \/ x \in run.late
  <2>1. CASE x # a
    BY <1>9, <1>13, <2>1 DEF Sound
  <2>2. CASE x = a
    BY <1>10, <1>11, <1>13, <2>2 DEF Sound
  <2>3. QED
    BY <2>1, <2>2
<1>14. w \in Settling => a \in run.late \/ Sound(base', seen', a)
  <2>1. CASE w = "surfaces"
    BY <1>10, <1>11, <2>1 DEF Sound
  <2>2. CASE w = "staleLock"
    BY <1>10, <1>11, <2>2 DEF Sound
  <2>3. QED
    BY <1>1, <2>1, <2>2 DEF Settling, Leaf
<1>15. BaselinesOK(run', base', seen', owed)
  BY <1>1, <1>4, <1>12, <1>13, <1>14, BaselineWriteKeeps
<1>16. QED
  BY <1>2, <1>6, <1>8, <1>15 DEF FrontendInv, FrontendTypes

\* In words: a run that returns answers for what it made sound.
LEMMA FinishKeeps ==
    ASSUME FrontendInv, Finish
    PROVE  FrontendInv'
<1>1. /\ run \in Runs /\ BaselinesOK(run, base, seen, owed) /\ run.todo = <<>>
      /\ run' = Idle /\ owed' = owed \ (run.answers \ run.late)
  BY DEF FrontendInv, FrontendTypes, Finish
<1>2. Idle \in Runs /\ RunInOrder(Idle) /\ BaselinesOK(Idle, base, seen, owed)
  BY <1>1, IdleKeeps
<1>3. \A a \in run.answers \ run.late : Sound(base, seen, a)
  BY <1>1, ItemsOfNone DEF BaselinesOK, AnswersInSight, Coming
<1>4. BaselinesOK(Idle, base, seen, owed')
  <2>1. Idle.late = {}
    BY DEF Idle
  <2>2. QED
    BY <1>1, <1>2, <1>3, <2>1 DEF BaselinesOK, ScansAreCurrent
<1>5. UNCHANGED <<present, frontend, seen, bounds>>
  BY DEF Finish
<1>6. owed' \in SUBSET Apps
  BY <1>1 DEF FrontendInv, FrontendTypes
<1>7. QED
  BY <1>1, <1>2, <1>4, <1>5, <1>6 DEF FrontendInv, FrontendTypes, frontend, bounds

\* In words: every step of a run keeps everything in order.
LEMMA StepKeeps ==
    ASSUME FrontendInv, Step
    PROVE  FrontendInv'
BY PlainStepsKeep, PlanningKeeps, DecideKeeps, GenerateKeeps, MarkKeeps, BaselineStepsKeep, FinishKeeps
   DEF Step
-----------------------------------------------------------------------------
(* Kills, people and new runs.                                             *)

\* In words: a kill leaves the surfaces as they were, or torn.
LEMMA DeathKeeps ==
    ASSUME FrontendInv, Killed \/ Torn
    PROVE  FrontendInv'
<1>1. /\ run \in Runs /\ BaselinesOK(run, base, seen, owed) /\ base \in [Apps -> Baselines]
      /\ run' = Idle /\ seen' = seen /\ owed' = owed /\ present' = present
      /\ kills' = kills + 1 /\ edits' = edits /\ runs' = runs
  BY DEF FrontendInv, FrontendTypes, Killed, Torn, Dies, history
<1>2. CASE base' = base
  <2>1. Idle \in Runs /\ RunInOrder(Idle) /\ BaselinesOK(Idle, base, seen, owed)
    BY <1>1, IdleKeeps
  <2>2. /\ adoption' \in Modes \cup {"-", "torn"} /\ marker' \in BOOLEAN
        /\ calibration' \in {"-", "PENDING", "ACCEPTED", "torn"}
        /\ registry' \in Registries /\ sharedUi' \in Files
    <3>1. [NoRegistry EXCEPT !.file = "torn"] \in Registries
      BY DEF NoRegistry, Unknown, Registries, Files
    <3>2. CASE Killed
      BY <3>2 DEF Killed, frontend, FrontendInv, FrontendTypes
    <3>3. CASE Torn
      BY <3>1, <3>3 DEF Torn, FrontendInv, FrontendTypes, Files
    <3>4. QED
      BY <3>2, <3>3
  <2>3. QED
    BY <1>1, <1>2, <2>1, <2>2 DEF FrontendInv, FrontendTypes
<1>3. CASE base' # base
  <2> DEFINE a == Next1.arg
  <2>1. /\ Torn /\ Working
        /\ UNCHANGED <<adoption, marker, calibration, registry, sharedUi>>
        /\ \/ Next1.what = "profile" /\ base' = [base EXCEPT ![a].profile = "torn"]
           \/ Next1.what = "baseline" /\ base' = [base EXCEPT ![a].ui = "torn"]
           \/ Next1.what \in {"surfaces", "staleSurfaces"} /\ base' = [base EXCEPT ![a].surfaces = "torn"]
           \/ Next1.what \in {"lock", "staleLock"} /\ base' = [base EXCEPT ![a].lock = "torn"]
    BY <1>3 DEF Killed, Torn, frontend
  <2>2. a \in Apps
    <3>1. PICK v : v = Next1.what
      OBVIOUS
    <3>2. Does(v) /\ v \in OnApps
      BY <2>1, <3>1 DEF Does, OnApps, Leaf
    <3>3. QED
      BY <3>1, <3>2, DoesOneOfIts
  <2> HIDE DEF a
  <2>3. base' \in [Apps -> Baselines]
    BY <1>1, <2>1, <2>2 DEF Baselines, Files, Staleness
  <2>4. ASSUME NEW x \in Apps, Sound(base, seen, x)
        PROVE  Sound(base', seen, x)
    <3>1. CASE x # a
      <4>1. base'[x] = base[x]
        BY <1>1, <2>1, <3>1
      <4>2. QED
        BY <2>4, <4>1 DEF Sound
    <3>2. CASE x = a
      <4>1. \/ base'[a].surfaces = base[a].surfaces /\ base'[a].lock \in {base[a].lock, "torn"}
            \/ base'[a].surfaces = "torn"
        BY <1>1, <2>1, <2>2 DEF Baselines
      <4>2. QED
        BY <2>4, <3>2, <4>1 DEF Sound
    <3>3. QED
      BY <3>1, <3>2
  <2>5. BaselinesOK(Idle, base', seen, owed) /\ Idle \in Runs /\ RunInOrder(Idle)
    <3>1. BaselinesOK(Idle, base, seen, owed) /\ Idle \in Runs /\ RunInOrder(Idle)
      BY <1>1, IdleKeeps
    <3>2. Idle.todo = <<>> /\ Idle.answers = {}
      BY DEF Idle
    <3>3. QED
      BY <2>4, <3>1, <3>2 DEF BaselinesOK, HeadKnowsDisk, AnswersInSight
  <2>6. QED
    BY <1>1, <2>1, <2>3, <2>5 DEF FrontendInv, FrontendTypes
<1>4. QED
  BY <1>2, <1>3

\* In words: an edit is owed an answer, and a scan before it is of no use.
LEMMA EditsKeep ==
    ASSUME FrontendInv, NEW apps, apps \subseteq Apps, Edits(apps)
    PROVE  FrontendInv'
<1>1. /\ run \in Runs /\ RunInOrder(run) /\ BaselinesOK(run, base, seen, owed)
      /\ edits' = edits + 1 /\ seen' = seen \ apps /\ owed' = owed \cup apps
      /\ run' = IF run = Idle THEN run ELSE [run EXCEPT !.scan = @ \ apps, !.late = @ \cup apps]
      /\ UNCHANGED <<present, frontend, kills, runs>>
  BY DEF FrontendInv, FrontendTypes, Edits
<1>2. \A a \in Apps \ owed' : Sound(base, seen', a)
  <2>1. SUFFICES ASSUME NEW a \in Apps \ owed'
                 PROVE  Sound(base, seen', a)
    OBVIOUS
  <2>2. a \in Apps \ owed /\ (a \in seen' <=> a \in seen)
    BY <1>1, <2>1
  <2>3. QED
    BY <1>1, <2>2 DEF BaselinesOK, Sound
<1>3. CASE run = Idle
  <2>1. run' = run /\ run.answers = {} /\ run.late = {} /\ run.todo = <<>>
    BY <1>1, <1>3 DEF Idle
  <2>2. BaselinesOK(run', base, seen', owed')
    BY <1>1, <1>2, <2>1, ItemsOfNone DEF BaselinesOK, ScansAreCurrent, HeadKnowsDisk, AnswersInSight
  <2>3. QED
    BY <1>1, <2>1, <2>2 DEF FrontendInv, FrontendTypes, frontend
<1>4. CASE run # Idle
  <2>1. run' \in Runs
    BY <1>1, <1>4 DEF Runs
  <2>2. /\ run'.todo = run.todo /\ run'.kind = run.kind /\ run'.mode = run.mode /\ run'.made = run.made
        /\ run'.answers = run.answers /\ run'.scan = run.scan \ apps /\ run'.late = run.late \cup apps
    BY <1>1, <1>4 DEF Runs
  <2>3. run.kind # "none"
    BY <1>1, <1>4 DEF RunInOrder
  <2>4. RunInOrder(run')
    BY <1>1, <2>2, <2>3 DEF RunInOrder
  <2>5. ScansAreCurrent(run', owed')
    BY <1>1, <2>2 DEF BaselinesOK, ScansAreCurrent
  <2>6. AnswersInSight(run', base, seen')
    <3>1. SUFFICES ASSUME NEW a \in run'.answers \ run'.late
                   PROVE  Sound(base, seen', a) \/ Coming(run'.todo, a)
      BY DEF AnswersInSight
    <3>2. a \in run.answers \ run.late /\ (a \in seen' <=> a \in seen)
      BY <1>1, <2>2, <3>1
    <3>3. Sound(base, seen, a) \/ Coming(run.todo, a)
      BY <1>1, <3>2 DEF BaselinesOK, AnswersInSight
    <3>4. QED
      BY <2>2, <3>2, <3>3 DEF Sound
  <2>7. BaselinesOK(run', base, seen', owed')
    BY <1>1, <1>2, <2>2, <2>5, <2>6 DEF BaselinesOK
  <2>8. QED
    BY <1>1, <2>1, <2>4, <2>7 DEF FrontendInv, FrontendTypes, frontend
<1>5. QED
  BY <1>3, <1>4

\* In words: whatever people do keeps everything in order.
LEMMA PeopleKeep ==
    ASSUME FrontendInv, People
    PROVE  FrontendInv'
<1>1. ASSUME NEW a \in Apps, EditApp(a)
      PROVE  FrontendInv'
  BY <1>1, EditsKeep DEF EditApp
<1>2. ASSUME NEW a \in Apps, AddApp(a)
      PROVE  FrontendInv'
  BY <1>2 DEF AddApp, FrontendInv, FrontendTypes, frontend, history
<1>3. CASE EditShared
  BY <1>3, EditsKeep DEF EditShared
<1>4. CASE Accept
  BY <1>4 DEF Accept, FrontendInv, FrontendTypes, history
<1>5. CASE Clear
  <2>1. /\ run = Idle /\ run' = run /\ base' = [a \in Apps |-> NoBaseline]
        /\ seen' = seen /\ owed' = owed /\ RunInOrder(run) /\ run \in Runs
        /\ BaselinesOK(run, base, seen, owed)
    BY <1>5 DEF Clear, history, FrontendInv, FrontendTypes
  <2>2. \A a \in Apps : base'[a].surfaces = "-"
    BY <2>1 DEF NoBaseline
  <2>3. run.todo = <<>> /\ run.answers = {}
    BY <2>1 DEF Idle
  <2>4. BaselinesOK(run, base', seen, owed)
    BY <2>1, <2>2, <2>3 DEF BaselinesOK, HeadKnowsDisk, AnswersInSight, Sound
  <2>5. base' \in [Apps -> Baselines] /\ registry' \in Registries /\ sharedUi' \in Files
    BY <1>5, <2>1 DEF Clear, NoBaseline, NoRegistry, Unknown, Baselines, Registries, Files, Staleness
  <2>6. run' \in Runs /\ RunInOrder(run') /\ BaselinesOK(run', base', seen', owed')
    BY <2>1, <2>4
  <2>7. /\ edits' = edits + 1 /\ adoption' = "-" /\ marker' = FALSE /\ calibration' = "-"
        /\ UNCHANGED <<present, kills, runs>>
    BY <1>5 DEF Clear
  <2>8. /\ present \in SUBSET Apps /\ seen' \in SUBSET Apps /\ owed' \in SUBSET Apps
        /\ edits \in Nat /\ kills \in Nat /\ runs \in Nat
    BY <2>1 DEF FrontendInv, FrontendTypes
  <2>9. marker' \in BOOLEAN /\ adoption' \in Modes \cup {"-", "torn"}
        /\ calibration' \in {"-", "PENDING", "ACCEPTED", "torn"}
    BY <2>7, Zenon
  <2>10. FrontendTypes'
    BY <2>5, <2>6, <2>7, <2>8, <2>9 DEF FrontendTypes
  <2>11. QED
    BY <2>6, <2>10, Zenon DEF FrontendInv
<1>6. QED
  BY <1>1, <1>2, <1>3, <1>4, <1>5 DEF People

\* In words: a run that begins has no baseline to write yet, and answers for none.
LEMMA StartKeeps ==
    ASSUME FrontendInv, run = Idle,
           NEW kind \in {"apply", "refresh", "scope"}, NEW todo \in Seq(Ops),
           NEW scope \in SUBSET (Apps \cup {"ui"}), NEW mode \in Modes \cup {"-"},
           \A o \in Items(todo) : /\ o.what \notin Leaf \cup OnFiles
                                  /\ o.what \in {"adoption", "marker"} => mode \in Modes,
           run' = [Idle EXCEPT !.kind = kind, !.todo = todo, !.scope = scope, !.mode = mode]
    PROVE  run' \in Runs /\ RunInOrder(run') /\ BaselinesOK(run', base, seen, owed)
<1>1. Idle \in Runs /\ BaselinesOK(Idle, base, seen, owed)
  BY IdleKeeps DEF FrontendInv, FrontendTypes
<1>2. /\ run'.kind = kind /\ run'.todo = todo /\ run'.mode = mode
      /\ run'.answers = {} /\ run'.late = {}
  BY DEF Idle
<1>3. run' \in Runs
  BY <1>1 DEF Runs, Kinds
<1>4. Quiet(todo)
  BY DEF Quiet
<1>5. BaselineFirst(todo)
  BY <1>4, QuietIsOrdered
<1>6. RunInOrder(run')
  BY <1>2, <1>5 DEF RunInOrder
<1>7. ScansAreCurrent(run', owed)
  BY <1>2, <1>4 DEF ScansAreCurrent, Quiet, Leaf
<1>8. HeadKnowsDisk(todo, base)
  <2>1. todo # <<>> => Head(todo) \in Items(todo)
    BY ItemsOfTail
  <2>2. QED
    BY <1>4, <2>1 DEF HeadKnowsDisk, Quiet, Leaf
<1>9. QED
  BY <1>1, <1>2, <1>3, <1>6, <1>7, <1>8 DEF BaselinesOK, AnswersInSight
\* In words: every run that somebody starts keeps everything in order.
LEMMA ApplyRunKeeps ==
    ASSUME FrontendInv, NEW mode \in Modes, NEW scope \in SUBSET Apps, ApplyRun(mode, scope),
           runs' \in Nat
    PROVE  FrontendInv'
<1> DEFINE AllOps == [what : {"adoption", "marker", "calibration", "registry", "shared", "targets",
                              "resolve", "statuses"}, arg : {"-"}]
           first == <<Op("adoption", "-"), Op("marker", "-"), Op("calibration", "-")>>
           second == <<Op("targets", "-"), Op("resolve", "-")>>
           third == <<Op("statuses", "-")>>
           todo == first \o Discover \o second \o Discover \o third
<1>1. \A w \in {"adoption", "marker", "calibration", "registry", "shared", "targets", "resolve", "statuses"} :
        Op(w, "-") \in AllOps
  BY DEF Op
<1>2. /\ run = Idle /\ UNCHANGED <<present, frontend, history, edits, kills>>
      /\ run' = [Idle EXCEPT !.kind = "apply", !.todo = todo, !.scope = scope, !.mode = mode]
  BY DEF ApplyRun, Starts
<1>3. \A o \in AllOps : o \in Ops /\ o.what \notin Leaf \cup OnFiles
  BY DEF Ops, OnAll, Leaf, OnFiles
<1> HIDE DEF AllOps
<1>4. first \in Seq(AllOps) /\ Discover \in Seq(AllOps) /\ second \in Seq(AllOps) /\ third \in Seq(AllOps)
  BY <1>1 DEF Discover
<1> HIDE DEF first, second, third
<1>5. first \o Discover \in Seq(AllOps)
  BY <1>4, ConcatProperties
<1>6. first \o Discover \o second \in Seq(AllOps)
  BY <1>4, <1>5, ConcatProperties
<1>7. first \o Discover \o second \o Discover \in Seq(AllOps)
  BY <1>4, <1>6, ConcatProperties
<1>8. todo \in Seq(AllOps)
  BY <1>4, <1>7, ConcatProperties
<1> HIDE DEF todo
<1>9. Items(todo) \subseteq AllOps
  BY <1>8, ItemsAreOf
<1>10. todo \in Seq(Ops)
  <2>1. Items(todo) \subseteq Ops
    BY <1>3, <1>9
  <2>2. QED
    BY <1>8, <2>1, SeqOfItems
<1>11. run' \in Runs /\ RunInOrder(run') /\ BaselinesOK(run', base, seen, owed)
  <2>1. \A o \in Items(todo) : o.what \notin Leaf \cup OnFiles
                               /\ (o.what \in {"adoption", "marker"} => mode \in Modes)
    BY <1>3, <1>9
  <2>2. QED
    BY <1>2, <1>10, <2>1, StartKeeps
<1>12. QED
  BY <1>2, <1>11 DEF FrontendInv, FrontendTypes, frontend, history

\* In words: a refresh or a feature scope, which start by finding the applications, starts with
\* none of a baseline's writes ahead of it.
LEMMA OtherRunKeeps ==
    ASSUME FrontendInv, NEW kind \in {"refresh", "scope"}, NEW o \in Ops,
           o.what \in {"decide", "serve"}, NEW scope \in SUBSET (Apps \cup {"ui"}),
           Starts(kind, LoadOrDiscover \o <<o>>, scope, "-"), runs' \in Nat
    PROVE  FrontendInv'
<1>1. PICK l : l = LoadOrDiscover
  OBVIOUS
<1>2. l \in Seq(Ops) /\ Items(l) \subseteq {Op("registry", "-"), Op("shared", "-")}
  BY <1>1, DiscoverIsQuiet, ItemsOfNone DEF LoadOrDiscover
<1>3. PICK s : s = <<o>>
  OBVIOUS
<1>4. l \o s \in Seq(Ops) /\ Items(l \o s) = Items(l) \cup {o}
  <2>1. s \in Seq(Ops) /\ Items(s) = {o}
    BY <1>3, ItemsOfOne
  <2>2. QED
    BY <1>2, <2>1, ItemsOfConcat
<1>5. \A x \in Items(l \o s) :
        /\ x.what \notin Leaf \cup OnFiles
        /\ x.what \in {"adoption", "marker"} => "-" \in Modes
  BY <1>2, <1>4, OpNames DEF Leaf, OnFiles
<1>6. PICK todo \in Seq(Ops) : todo = l \o s
  BY <1>4
<1>7. /\ run = Idle /\ UNCHANGED <<present, frontend, history, edits, kills>>
      /\ run' = [Idle EXCEPT !.kind = kind, !.todo = todo, !.scope = scope, !.mode = "-"]
  BY <1>1, <1>3, <1>6 DEF Starts
<1>8. run' \in Runs /\ RunInOrder(run') /\ BaselinesOK(run', base, seen, owed)
  <2>1. \A x \in Items(todo) : /\ x.what \notin Leaf \cup OnFiles
                               /\ x.what \in {"adoption", "marker"} => "-" \in Modes
    BY <1>5, <1>6
  <2>2. PICK mode \in Modes \cup {"-"} : mode = "-"
    OBVIOUS
  <2>3. QED
    BY <1>7, <2>1, <2>2, StartKeeps
<1>9. QED
  BY <1>7, <1>8 DEF FrontendInv, FrontendTypes, frontend, history

\* In words: starting any of the runs a person can ask for keeps the invariant.
LEMMA RunsKeep ==
    ASSUME FrontendInv, OptionalRuns
    PROVE  FrontendInv'
<1>1. runs \in Nat /\ runs' = runs + 1 /\ Mode \in Modes
  BY DEF FrontendInv, FrontendTypes, OptionalRuns, Apply, Refresh, FeatureScope, Mode, Modes
<1>2. ASSUME NEW scope \in SUBSET Apps, NEW mode \in Modes, Apply(mode, scope)
      PROVE  FrontendInv'
  BY <1>1, <1>2, ApplyRunKeeps DEF Apply
<1>3. ASSUME NEW scope \in SUBSET Apps, Apply(Mode, scope)
      PROVE  FrontendInv'
  <2>1. PICK mode \in Modes : mode = Mode
    BY <1>1
  <2>2. QED
    BY <1>2, <1>3, <2>1
<1>4. ASSUME NEW paths \in SUBSET (Apps \cup {"ui"}), Refresh(paths)
      PROVE  FrontendInv'
  <2>1. Op("decide", "-") \in Ops /\ Op("decide", "-").what = "decide"
    BY DEF Ops, OnAll, Op
  <2>2. Starts("refresh", LoadOrDiscover \o <<Op("decide", "-")>>, paths, "-") /\ runs' \in Nat
    BY <1>1, <1>4 DEF Refresh
  <2>3. QED
    BY <2>1, <2>2, OtherRunKeeps
<1>5. ASSUME NEW a \in Apps, FeatureScope(a)
      PROVE  FrontendInv'
  <2>1. Op("serve", a) \in Ops /\ Op("serve", a).what = "serve"
    BY DEF Ops, OnApps, Op
  <2>2. Starts("scope", LoadOrDiscover \o <<Op("serve", a)>>, {}, "-") /\ runs' \in Nat
    BY <1>1, <1>5 DEF FeatureScope
  <2>3. QED
    BY <2>1, <2>2, OtherRunKeeps
<1>6. QED
  BY <1>2, <1>3, <1>4, <1>5 DEF OptionalRuns
-----------------------------------------------------------------------------
(* The bootstrap.                                                          *)

\* In words: what Holds writes is there afterwards, or gone, and nothing else changes.
LEMMA HoldsOne ==
    ASSUME IInv, NEW p \in Writables, NEW content \in {"-", "template", "torn"}, Holds(p, content)
    PROVE  /\ registry' \in Registries /\ sharedUi' \in Files
           /\ local' \in [Local -> {"-", "own", "other", "template", "torn"}]
           /\ There' = IF content = "-" THEN There \ {p} ELSE There \cup {p}
           /\ \A l \in Local : local'[l] = IF l = p THEN content ELSE local[l]
<1>1. /\ registry \in Registries /\ sharedUi \in Files
      /\ local \in [Local -> {"-", "own", "other", "template", "torn"}]
  BY DEF IInv, FrontendInv, FrontendTypes, BootTypes
<1>2. Writables = {"scaffold", "bridge", "registry", "shared"} /\ Local = {"scaffold", "bridge"}
  BY DEF Writables, Local
<1>3. There = {x \in Writables : Exists(x)} /\ There' = {x \in Writables : Exists(x)'}
  BY DEF There
<1>4. /\ Exists("registry") <=> registry.file # "-"
      /\ Exists("shared") <=> sharedUi # "-"
      /\ \A l \in Local : Exists(l) <=> local[l] # "-"
      /\ Exists("registry")' <=> registry'.file # "-"
      /\ Exists("shared")' <=> sharedUi' # "-"
      /\ \A l \in Local : Exists(l)' <=> local'[l] # "-"
  BY <1>2 DEF Exists
<1>5. CASE p = "registry"
  <2>1. /\ registry' = [NoRegistry EXCEPT !.file = IF content = "template" THEN "ok" ELSE content]
        /\ UNCHANGED <<sharedUi, local>>
    BY <1>5 DEF Holds
  <2>2. registry' \in Registries /\ registry'.file = IF content = "template" THEN "ok" ELSE content
    BY <2>1 DEF NoRegistry, Unknown, Registries, Files
  <2>3. There' = IF content = "-" THEN There \ {p} ELSE There \cup {p}
    BY <1>2, <1>3, <1>4, <1>5, <2>1, <2>2
  <2>4. QED
    BY <1>1, <1>2, <1>5, <2>1, <2>2, <2>3
<1>6. CASE p = "shared"
  <2>1. sharedUi' = (IF content = "template" THEN "ok" ELSE content) /\ UNCHANGED <<registry, local>>
    BY <1>6 DEF Holds
  <2>2. There' = IF content = "-" THEN There \ {p} ELSE There \cup {p}
    BY <1>2, <1>3, <1>4, <1>6, <2>1
  <2>3. QED
    BY <1>1, <1>2, <1>6, <2>1, <2>2 DEF Files
<1>7. CASE p \in Local
  <2>1. local' = [local EXCEPT ![p] = content] /\ UNCHANGED <<registry, sharedUi>>
    BY <1>2, <1>7 DEF Holds
  <2>2. /\ local' \in [Local -> {"-", "own", "other", "template", "torn"}]
        /\ \A l \in Local : local'[l] = IF l = p THEN content ELSE local[l]
    BY <1>1, <1>7, <2>1
  <2>3. There' = IF content = "-" THEN There \ {p} ELSE There \cup {p}
    BY <1>2, <1>3, <1>4, <1>7, <2>1, <2>2
  <2>4. QED
    BY <1>1, <2>1, <2>2, <2>3
<1>8. QED
  BY <1>2, <1>5, <1>6, <1>7

\* In words: a run over files has no part in the baselines.
LEMMA FilesRunKeeps ==
    ASSUME NEW r \in Runs, RunInOrder(r), r = Idle \/ r.kind \in {"boot", "restore"},
           NEW b, NEW sn, NEW ow, BaselinesOK(r, b, sn, ow),
           NEW q \in Runs, q.kind \in {"boot", "restore"}, q.answers = r.answers, q.late = r.late,
           \A o \in Items(q.todo) :
                /\ q.kind = "boot" => o.what = "put"
                /\ q.kind = "restore" => o.what = "takeBack" /\ o.arg \in q.made
    PROVE  RunInOrder(q) /\ BaselinesOK(q, b, sn, ow)
<1>1. r.todo \in Seq(Ops) /\ q.todo \in Seq(Ops)
  BY DEF Runs
<1>2. \A o \in Items(r.todo) : o.what \notin Settling
  <2>1. CASE r = Idle
    BY <2>1, ItemsOfNone DEF Idle
  <2>2. CASE r.kind \in {"boot", "restore"}
    BY <2>2 DEF RunInOrder, Settling
  <2>3. QED
    BY <2>1, <2>2
<1>3. Quiet(q.todo)
  BY DEF Quiet, Leaf
<1>4. RunInOrder(q)
  <2>1. BaselineFirst(q.todo)
    BY <1>1, <1>3, QuietIsOrdered
  <2>2. QED
    BY <2>1 DEF RunInOrder
<1>5. ScansAreCurrent(q, ow)
  BY <1>3 DEF BaselinesOK, ScansAreCurrent, Quiet, Leaf
<1>6. HeadKnowsDisk(q.todo, b)
  <2>1. q.todo # <<>> => Head(q.todo) \in Items(q.todo)
    BY <1>1, ItemsOfTail
  <2>2. QED
    BY <1>3, <2>1 DEF HeadKnowsDisk, Quiet, Leaf
<1>7. AnswersInSight(q, b, sn)
  BY <1>2 DEF BaselinesOK, AnswersInSight, Coming
<1>8. QED
  BY <1>4, <1>5, <1>6, <1>7 DEF BaselinesOK

\* In words: a bootstrap that begins has to put what its plan wants.
LEMMA BootStarts ==
    ASSUME IInv, run = Idle, NEW wanted \in SUBSET Writables,
           run' = [Idle EXCEPT !.kind = "boot", !.todo = InOrder("put", wanted), !.before = There],
           UNCHANGED <<present, frontend, history, edits, kills, local, product>>,
           runs' \in Nat, plan' \in SUBSET Writables
    PROVE  IInv'
<1>1. /\ run \in Runs /\ RunInOrder(run) /\ BaselinesOK(run, base, seen, owed)
  BY DEF IInv, FrontendInv, FrontendTypes
<1>2. Items(InOrder("put", wanted)) = {Op("put", p) : p \in wanted}
      /\ InOrder("put", wanted) \in Seq([what : {"put"}, arg : Writables])
  BY InOrderListsAll
<1>3. \A p \in wanted : Op("put", p) \in Ops /\ Op("put", p).what = "put"
  BY DEF Ops, OnFiles, Op
<1>4. InOrder("put", wanted) \in Seq(Ops)
  <2>1. Items(InOrder("put", wanted)) \subseteq Ops
    BY <1>2, <1>3
  <2>2. QED
    BY <1>2, <2>1, SeqOfItems
<1>5. PICK todo \in Seq(Ops) : todo = InOrder("put", wanted)
  BY <1>4
<1>6. /\ run'.kind = "boot" /\ run'.todo = todo /\ run'.before = There /\ run'.made = {}
      /\ run'.answers = run.answers /\ run'.late = run.late
  BY <1>5 DEF Idle
<1>7. run' \in Runs
  <2>1. There \in SUBSET Writables
    BY DEF There
  <2>2. QED
    BY <1>1, <1>5, <2>1 DEF Runs, Kinds
<1>8. RunInOrder(run') /\ BaselinesOK(run', base, seen, owed)
  <2>1. \A o \in Items(run'.todo) : o.what = "put"
    BY <1>2, <1>3, <1>5, <1>6
  <2>2. QED
    BY <1>1, <1>6, <1>7, <2>1, FilesRunKeeps
<1>9. There' = There
  BY DEF There, Exists, frontend
<1>10. FilesOK'
  BY <1>6, <1>9 DEF FilesOK
<1>11. FrontendInv'
  BY <1>7, <1>8 DEF IInv, FrontendInv, FrontendTypes, frontend, history
<1>12. QED
  BY <1>10, <1>11 DEF IInv, BootTypes
\* In words: files are put by a bootstrap and taken back by its restore.
LEMMA FileWrites ==
    ASSUME IInv, NEW w \in OnFiles, Does(w)
    PROVE  /\ run \in Runs /\ RunInOrder(run) /\ BaselinesOK(run, base, seen, owed) /\ run.todo # <<>>
           /\ Next1 = Head(run.todo) /\ Next1.arg \in Writables
           /\ Tail(run.todo) \in Seq(Ops)
           /\ Items(run.todo) = {Next1} \cup Items(Tail(run.todo))
           /\ run.kind = IF w = "put" THEN "boot" ELSE "restore"
           /\ w = "takeBack" => Next1.arg \in run.made
           /\ run.before \subseteq There /\ There \subseteq run.before \cup run.made
           /\ run.made \cap run.before = {}
           /\ \A p \in run.made \cap Local : local[p] \notin Own
<1>1. FrontendInv
  BY DEF IInv
<1>2. /\ run \in Runs /\ RunInOrder(run) /\ BaselinesOK(run, base, seen, owed) /\ run.todo # <<>>
      /\ Next1 = Head(run.todo) /\ Head(run.todo).what = w /\ Head(run.todo) \in Items(run.todo)
      /\ Next1.arg \in Writables
  BY <1>1, DoesOneOfIts
<1>3. run.kind = IF w = "put" THEN "boot" ELSE "restore"
  BY <1>2 DEF RunInOrder, OnFiles
<1>4. w = "takeBack" => Next1.arg \in run.made
  BY <1>2, <1>3 DEF RunInOrder
<1>5. run.todo \in Seq(Ops)
  BY <1>2 DEF Runs
<1>6. Tail(run.todo) \in Seq(Ops) /\ Items(run.todo) = {Next1} \cup Items(Tail(run.todo))
  BY <1>2, <1>5, ItemsOfTail
<1>7. QED
  BY <1>2, <1>3, <1>4, <1>6 DEF IInv, FilesOK, OnFiles

\* In words: what is put was not there.
LEMMA PutKeeps ==
    ASSUME IInv, Put
    PROVE  IInv'
<1> DEFINE p == Next1.arg
<1>1. /\ run \in Runs /\ RunInOrder(run) /\ BaselinesOK(run, base, seen, owed)
      /\ p \in Writables /\ Tail(run.todo) \in Seq(Ops)
      /\ Items(run.todo) = {Next1} \cup Items(Tail(run.todo)) /\ run.kind = "boot"
      /\ run.before \subseteq There /\ There \subseteq run.before \cup run.made
      /\ run.made \cap run.before = {} /\ \A l \in run.made \cap Local : local[l] \notin Own
  <2>1. "put" \in OnFiles /\ Does("put")
    BY DEF Put, OnFiles
  <2>2. QED
    BY <2>1, FileWrites
<1>2. p \notin There
  BY DEF Put, There
<1>3. /\ Holds(p, "template") /\ run' = [run EXCEPT !.todo = Tail(@), !.made = @ \cup {p}]
      /\ UNCHANGED <<present, adoption, marker, calibration, base, history, product, plan, edits, kills, runs>>
  BY DEF Put, AndNoOther, bounds
<1> HIDE DEF p
<1>4. /\ registry' \in Registries /\ sharedUi' \in Files
      /\ local' \in [Local -> {"-", "own", "other", "template", "torn"}] /\ There' = There \cup {p}
      /\ \A l \in Local : local'[l] = IF l = p THEN "template" ELSE local[l]
  BY <1>1, <1>3, HoldsOne
<1>5. run' \in Runs
  BY <1>1, <1>3 DEF Runs
<1>6. /\ run'.kind = "boot" /\ run'.todo = Tail(run.todo) /\ run'.before = run.before
      /\ run'.made = run.made \cup {p} /\ run'.answers = run.answers /\ run'.late = run.late
  BY <1>1, <1>3 DEF Runs
<1>7. RunInOrder(run') /\ BaselinesOK(run', base, seen, owed)
  <2>1. \A o \in Items(run'.todo) : o.what = "put"
    BY <1>1, <1>6 DEF RunInOrder
  <2>2. QED
    BY <1>1, <1>5, <1>6, <2>1, FilesRunKeeps
<1>8. FilesOK'
  BY <1>1, <1>2, <1>4, <1>6 DEF FilesOK, Own
<1>9. FrontendInv'
  BY <1>3, <1>4, <1>5, <1>7 DEF IInv, FrontendInv, FrontendTypes, history
<1>10. QED
  BY <1>3, <1>4, <1>8, <1>9 DEF IInv, BootTypes

\* In words: a bootstrap that finds a file already there leaves it and owes no taking back for it.
LEMMA SkipKeeps ==
    ASSUME IInv, Skip
    PROVE  IInv'
<1>1. /\ run \in Runs /\ RunInOrder(run) /\ BaselinesOK(run, base, seen, owed) /\ run.todo # <<>>
      /\ Tail(run.todo) \in Seq(Ops) /\ Items(run.todo) = {Next1} \cup Items(Tail(run.todo))
      /\ run.kind = "boot"
      /\ run.before \subseteq There /\ There \subseteq run.before \cup run.made
      /\ run.made \cap run.before = {} /\ \A l \in run.made \cap Local : local[l] \notin Own
  <2>1. "put" \in OnFiles /\ Does("put")
    BY DEF Skip, OnFiles
  <2>2. QED
    BY <2>1, FileWrites
<1>2. run' = After(run, <<>>) /\ UNCHANGED <<present, frontend, history, bounds, local, product, plan>>
  BY DEF Skip, GoesOn, After
<1>4. /\ run' \in Runs /\ run'.kind = "boot" /\ run'.before = run.before /\ run'.made = run.made
      /\ run'.answers = run.answers /\ run'.late = run.late /\ Items(run'.todo) = Items(Tail(run.todo))
  <2>1. /\ run' \in Runs /\ run'.kind = run.kind /\ run'.before = run.before /\ run'.made = run.made
        /\ run'.answers = run.answers /\ run'.late = run.late
        /\ run'.todo = Tail(run.todo)
    BY <1>1, <1>2, PopKeeps
  <2>2. QED
    BY <1>1, <2>1
<1>5. RunInOrder(run') /\ BaselinesOK(run', base, seen, owed)
  <2>1. \A o \in Items(run'.todo) : o.what = "put"
    BY <1>1, <1>4 DEF RunInOrder
  <2>2. QED
    BY <1>1, <1>4, <2>1, FilesRunKeeps
<1>6. There' = There
  BY <1>2 DEF There, Exists, frontend
<1>7. FilesOK'
  BY <1>1, <1>2, <1>4, <1>6 DEF FilesOK
<1>8. FrontendInv'
  BY <1>2, <1>4, <1>5 DEF IInv, FrontendInv, FrontendTypes, frontend, history, bounds
<1>9. QED
  BY <1>2, <1>7, <1>8 DEF IInv, BootTypes

\* In words: a write that fails leaves the run with all it made to take back.
LEMMA PutFailsKeeps ==
    ASSUME IInv, NEW content \in {"-", "torn"}, PutFails(content)
    PROVE  IInv'
<1> DEFINE p == Next1.arg
           made == run.made \cup {p}
           todo == Reverse(InOrder("takeBack", made))
<1>1. /\ run \in Runs /\ RunInOrder(run) /\ BaselinesOK(run, base, seen, owed)
      /\ p \in Writables /\ run.kind = "boot"
      /\ run.before \subseteq There /\ There \subseteq run.before \cup run.made
      /\ run.made \cap run.before = {} /\ \A l \in run.made \cap Local : local[l] \notin Own
  <2>1. "put" \in OnFiles /\ Does("put")
    BY DEF PutFails, OnFiles
  <2>2. QED
    BY <2>1, FileWrites
<1>2. p \notin There
  BY <1>1 DEF PutFails, There
<1>3. /\ Holds(p, content) /\ run' = [run EXCEPT !.kind = "restore", !.made = made, !.todo = todo]
      /\ UNCHANGED <<present, adoption, marker, calibration, base, history, product, plan, edits, runs>>
      /\ kills' = kills + 1
  BY DEF PutFails, AndNoOther
<1>4. made \in SUBSET Writables
  BY <1>1 DEF Runs
<1> HIDE DEF p
<1>5. /\ registry' \in Registries /\ sharedUi' \in Files
      /\ local' \in [Local -> {"-", "own", "other", "template", "torn"}]
      /\ There' = IF content = "-" THEN There \ {p} ELSE There \cup {p}
      /\ \A l \in Local : local'[l] = IF l = p THEN content ELSE local[l]
  BY <1>1, <1>3, HoldsOne
<1>6. todo \in Seq(Ops) /\ Items(todo) = {Op("takeBack", x) : x \in made}
  <2>1. /\ InOrder("takeBack", made) \in Seq([what : {"takeBack"}, arg : Writables])
        /\ Items(InOrder("takeBack", made)) = {Op("takeBack", x) : x \in made}
    BY <1>4, InOrderListsAll
  <2>2. PICK s : s = InOrder("takeBack", made)
    OBVIOUS
  <2>3. /\ Reverse(s) \in Seq([what : {"takeBack"}, arg : Writables])
        /\ Items(Reverse(s)) = {Op("takeBack", x) : x \in made}
    BY <2>1, <2>2, ItemsOfReverse
  <2>4. \A x \in made : Op("takeBack", x) \in Ops
    BY <1>4 DEF Ops, OnFiles, Op
  <2>5. Items(Reverse(s)) \subseteq Ops
    BY <2>3, <2>4
  <2>6. Reverse(s) \in Seq(Ops)
    BY <2>3, <2>5, SeqOfItems
  <2>7. QED
    BY <2>2, <2>3, <2>6
<1> HIDE DEF todo
<1>7. run' \in Runs
  BY <1>1, <1>3, <1>4, <1>6 DEF Runs, Kinds
<1>8. /\ run'.kind = "restore" /\ run'.todo = todo /\ run'.before = run.before
      /\ run'.made = made /\ run'.answers = run.answers /\ run'.late = run.late
  BY <1>1, <1>3 DEF Runs
<1>9. RunInOrder(run') /\ BaselinesOK(run', base, seen, owed)
  <2>1. \A o \in Items(run'.todo) : o.what = "takeBack" /\ o.arg \in run'.made
    BY <1>6, <1>8, OpNames
  <2>2. QED
    BY <1>1, <1>7, <1>8, <2>1, FilesRunKeeps
<1>10. FilesOK'
  <2>1. \A x \in made : \E o \in Items(todo) : o.arg = x
    <3>1. \A x \in made : Op("takeBack", x) \in Items(todo) /\ Op("takeBack", x).arg = x
      BY <1>6, OpNames
    <3>2. QED
      BY <3>1
  <2>2. There' \subseteq There \cup {p} /\ There \subseteq There'
    BY <1>2, <1>5
  <2>3. QED
    BY <1>1, <1>2, <1>5, <1>8, <2>1, <2>2 DEF FilesOK, Own
<1>11. FrontendInv'
  BY <1>3, <1>5, <1>7, <1>9 DEF IInv, FrontendInv, FrontendTypes, history
<1>12. QED
  BY <1>3, <1>5, <1>10, <1>11 DEF IInv, BootTypes

\* In words: what is taken back is gone, and the others it made are still to come.
LEMMA TakeBackKeeps ==
    ASSUME IInv, TakeBack
    PROVE  IInv'
<1> DEFINE p == Next1.arg
<1>1. /\ run \in Runs /\ RunInOrder(run) /\ BaselinesOK(run, base, seen, owed) /\ run.todo # <<>>
      /\ p \in Writables /\ Tail(run.todo) \in Seq(Ops)
      /\ Items(run.todo) = {Next1} \cup Items(Tail(run.todo)) /\ run.kind = "restore" /\ p \in run.made
      /\ run.before \subseteq There /\ There \subseteq run.before \cup run.made
      /\ run.made \cap run.before = {} /\ \A l \in run.made \cap Local : local[l] \notin Own
  <2>1. "takeBack" \in OnFiles /\ Does("takeBack")
    BY DEF TakeBack, OnFiles
  <2>2. QED
    BY <2>1, FileWrites
<1>2. /\ Holds(p, "-") /\ run' = After(run, <<>>)
      /\ UNCHANGED <<present, adoption, marker, calibration, base, history, product, plan, edits, kills, runs>>
  BY DEF TakeBack, AndNoOther, bounds, GoesOn, After
<1>3. \A x \in run.made \cap There : \E o \in Items(run.todo) : o.arg = x
  BY <1>1 DEF IInv, FilesOK
<1>4. \A o \in Items(run.todo) : o \in Items(Tail(run.todo)) \/ o.arg = p
  BY <1>1
<1> HIDE DEF p
<1>5. /\ registry' \in Registries /\ sharedUi' \in Files
      /\ local' \in [Local -> {"-", "own", "other", "template", "torn"}] /\ There' = There \ {p}
      /\ \A l \in Local : local'[l] = IF l = p THEN "-" ELSE local[l]
  BY <1>1, <1>2, HoldsOne
<1>7. /\ run' \in Runs /\ run'.kind = "restore" /\ run'.before = run.before /\ run'.made = run.made
      /\ run'.answers = run.answers /\ run'.late = run.late /\ Items(run'.todo) = Items(Tail(run.todo))
  <2>1. /\ run' \in Runs /\ run'.kind = run.kind /\ run'.before = run.before /\ run'.made = run.made
        /\ run'.answers = run.answers /\ run'.late = run.late
        /\ run'.todo = Tail(run.todo)
    BY <1>1, <1>2, PopKeeps
  <2>2. QED
    BY <1>1, <2>1
<1>8. RunInOrder(run') /\ BaselinesOK(run', base, seen, owed)
  <2>1. \A o \in Items(run'.todo) : o.what = "takeBack" /\ o.arg \in run'.made
    BY <1>1, <1>7 DEF RunInOrder
  <2>2. QED
    BY <1>1, <1>7, <2>1, FilesRunKeeps
<1>9. FilesOK'
  <2>1. \A x \in run'.made \cap There' : \E o \in Items(run'.todo) : o.arg = x
    BY <1>3, <1>4, <1>5, <1>7
  <2>2. QED
    BY <1>1, <1>5, <1>7, <2>1 DEF FilesOK, Own
<1>10. FrontendInv'
  BY <1>2, <1>5, <1>7, <1>8 DEF IInv, FrontendInv, FrontendTypes, history
<1>11. QED
  BY <1>2, <1>5, <1>9, <1>10 DEF IInv, BootTypes
\* In words: the end of a run of the bootstrap, and its death.
LEMMA BootEndsKeeps ==
    ASSUME IInv, BootEnds \/ TornCopy
    PROVE  IInv'
<1>1. /\ run \in Runs /\ BaselinesOK(run, base, seen, owed)
      /\ run' = Idle /\ UNCHANGED <<present, adoption, marker, calibration, base, history, product, plan>>
      /\ edits' = edits /\ runs' = runs /\ kills' \in Nat
  BY DEF IInv, FrontendInv, FrontendTypes, BootEnds, TornCopy, Dies, frontend, bounds, history
<1>2. registry' \in Registries /\ sharedUi' \in Files /\ local' \in [Local -> {"-", "own", "other", "template", "torn"}]
  <2>1. CASE BootEnds
    BY <2>1 DEF BootEnds, frontend, IInv, FrontendInv, FrontendTypes, BootTypes
  <2>2. CASE TornCopy
    <3>1. "put" \in OnFiles /\ Does("put")
      BY <2>2 DEF TornCopy, OnFiles
    <3>2. Next1.arg \in Writables /\ Holds(Next1.arg, "torn")
      BY <2>2, <3>1, FileWrites DEF TornCopy
    <3>3. QED
      BY <3>2, HoldsOne
  <2>3. QED
    BY <2>1, <2>2
<1>3. Idle \in Runs /\ RunInOrder(Idle) /\ BaselinesOK(Idle, base, seen, owed)
  BY <1>1, IdleKeeps
<1>4. FilesOK'
  <2>1. Idle.kind = "none"
    BY DEF Idle
  <2>2. QED
    BY <1>1, <2>1 DEF FilesOK
<1>5. FrontendInv'
  BY <1>1, <1>2, <1>3 DEF IInv, FrontendInv, FrontendTypes, history
<1>6. QED
  BY <1>1, <1>2, <1>4, <1>5 DEF IInv, BootTypes

\* In words: what people write or delete counts as found.
LEMMA PersonKeeps ==
    ASSUME IInv, NEW p \in Local, NEW content \in {"-"} \cup Own, PersonWrites(p, content)
    PROVE  IInv'
<1>1. /\ run \in Runs /\ RunInOrder(run) /\ BaselinesOK(run, base, seen, owed)
      /\ local \in [Local -> {"-", "own", "other", "template", "torn"}] /\ p \in Writables
  BY DEF IInv, FrontendInv, FrontendTypes, BootTypes, Writables
<1>2. /\ edits' = edits + 1 /\ p \notin run.made /\ local' = [local EXCEPT ![p] = content]
      /\ run' = IF run = Idle THEN run
                ELSE [run EXCEPT !.before = IF content = "-" THEN @ \ {p} ELSE @ \cup {p}]
      /\ UNCHANGED <<present, frontend, history, kills, runs, product, plan>>
  BY DEF PersonWrites
<1>3. /\ local' \in [Local -> {"-", "own", "other", "template", "torn"}]
      /\ local'[p] = content /\ \A l \in Local \ {p} : local'[l] = local[l]
  BY <1>1, <1>2 DEF Own
<1>4. There' = IF content = "-" THEN There \ {p} ELSE There \cup {p}
  <2>1. p # "registry" /\ p # "shared"
    BY DEF Local
  <2>2. Exists(p)' <=> content # "-"
    BY <1>3, <2>1 DEF Exists
  <2>3. \A x \in Writables \ {p} : Exists(x)' <=> Exists(x)
    BY <1>2, <1>3 DEF Exists, frontend, Writables
  <2>4. There' = {x \in Writables : Exists(x)'} /\ There = {x \in Writables : Exists(x)}
    BY DEF There
  <2>5. QED
    BY <1>1, <2>2, <2>3, <2>4
<1>5. /\ run' \in Runs /\ RunInOrder(run') /\ BaselinesOK(run', base, seen, owed)
      /\ run'.kind = run.kind /\ run'.made = run.made /\ run'.todo = run.todo
      /\ run.kind \in {"boot", "restore"} =>
            run'.before = IF content = "-" THEN run.before \ {p} ELSE run.before \cup {p}
  <2>1. CASE run = Idle
    <3>1. run.kind = "none"
      BY <2>1 DEF Idle
    <3>2. QED
      BY <1>1, <1>2, <2>1, <3>1
  <2>2. CASE run # Idle
    <3>1. run' = [run EXCEPT !.before = IF content = "-" THEN @ \ {p} ELSE @ \cup {p}]
      BY <1>2, <2>2
    <3>2. run' \in Runs
      BY <1>1, <3>1 DEF Runs
    <3>3. /\ run'.kind = run.kind /\ run'.made = run.made /\ run'.todo = run.todo /\ run'.mode = run.mode
          /\ run'.scan = run.scan /\ run'.answers = run.answers /\ run'.late = run.late
          /\ run'.before = IF content = "-" THEN run.before \ {p} ELSE run.before \cup {p}
      BY <1>1, <3>1 DEF Runs
    <3>4. run.kind # "none"
      BY <1>1, <2>2 DEF RunInOrder
    <3>5. RunInOrder(run')
      BY <1>1, <3>3, <3>4 DEF RunInOrder
    <3>6. BaselinesOK(run', base, seen, owed)
      BY <1>1, <3>3 DEF BaselinesOK, ScansAreCurrent, AnswersInSight
    <3>7. QED
      BY <3>2, <3>3, <3>5, <3>6
  <2>3. QED
    BY <2>1, <2>2
<1>6. FilesOK'
  <2>1. SUFFICES ASSUME run.kind \in {"boot", "restore"}
                 PROVE  FilesOK'
    BY <1>5 DEF FilesOK
  <2>2. /\ run.before \subseteq There /\ There \subseteq run.before \cup run.made
        /\ run.made \cap run.before = {} /\ \A l \in run.made \cap Local : local[l] \notin Own
        /\ run.kind = "restore" => \A x \in run.made \cap There : \E o \in Items(run.todo) : o.arg = x
    BY <2>1 DEF IInv, FilesOK
  <2>3. \A x \in run.made \cap There' : x \in run.made \cap There
    BY <1>2, <1>4
  <2>4. \A l \in run.made \cap Local : local'[l] \notin Own
    BY <1>2, <1>3, <2>2
  <2>5. run'.before \subseteq There' /\ There' \subseteq run'.before \cup run'.made
        /\ run'.made \cap run'.before = {}
    BY <1>2, <1>4, <1>5, <2>1, <2>2
  <2>6. QED
    BY <1>5, <2>2, <2>3, <2>4, <2>5 DEF FilesOK
<1>7. FrontendInv'
  BY <1>2, <1>5 DEF IInv, FrontendInv, FrontendTypes, frontend, history
<1>8. QED
  BY <1>2, <1>3, <1>6, <1>7 DEF IInv, BootTypes

\* In words: a run of the frontend context goes on or ends; no bootstrap is one.
LEMMA StepIsOfFrontend ==
    ASSUME FrontendInv, Step
    PROVE  run.kind \notin {"boot", "restore"} /\ run'.kind \notin {"boot", "restore"}
<1>1. CASE Finish
  BY <1>1 DEF Finish, Idle
<1>2. CASE ~Finish
  <2>1. \E w \in OnApps \cup OnAll : Does(w)
    BY <1>2 DEF Step, WriteAdoption, WriteMarker, WriteCalibration, WriteRegistry, WriteShared,
                WriteStatuses, ResolveShared, Targets, Serve, Decide, Generate, WriteProfile, WriteUi,
                WriteSurfaces, WriteLock, Mark, WriteStaleSurfaces, WriteStaleLock, WriteBase,
                OnApps, OnAll, Leaf
  <2>2. PICK w \in OnApps \cup OnAll : Does(w)
    BY <2>1
  <2>3. run.kind \notin {"boot", "restore"} /\ run \in Runs
    BY <2>2, DoesOneOfIts DEF OnApps, OnAll, Leaf, OnFiles
  <2>4. run'.kind = run.kind
    BY <1>2, <2>3 DEF Step, WriteAdoption, WriteMarker, WriteCalibration, WriteRegistry, WriteShared,
                WriteStatuses, ResolveShared, Targets, Serve, Decide, Generate, WriteProfile, WriteUi,
                WriteSurfaces, WriteLock, Mark, WriteStaleSurfaces, WriteStaleLock, WriteBase,
                GoesOn, Runs
  <2>5. QED
    BY <2>3, <2>4
<1>3. QED
  BY <1>1, <1>2
\* In words: the frontend context knows nothing of the bootstrap's files.
LEMMA FrontendNextKeeps ==
    ASSUME IInv, FrontendNext
    PROVE  IInv'
<1>1. FrontendInv /\ UNCHANGED <<local, product, plan>>
  BY DEF IInv, FrontendNext
<1>2. FrontendInv'
  BY <1>1, StepKeeps, DeathKeeps, PeopleKeep, RunsKeep DEF FrontendNext
<1>3. FilesOK'
  <2>1. CASE Step
    BY <1>1, <2>1, StepIsOfFrontend DEF FilesOK
  <2>2. CASE Killed \/ Torn
    BY <2>2 DEF Killed, Torn, Dies, Idle, FilesOK
  <2>3. CASE OptionalRuns
    BY <2>3 DEF OptionalRuns, Apply, ApplyRun, Refresh, FeatureScope, Starts, Idle, FilesOK
  <2>4. CASE People
    <3>1. CASE Clear
      BY <3>1 DEF Clear, Idle, FilesOK
    <3>2. CASE ~Clear
      <4>1. /\ run'.kind = run.kind /\ run'.before = run.before /\ run'.made = run.made
            /\ run'.todo = run.todo /\ registry' = registry /\ sharedUi' = sharedUi
        BY <1>1, <2>4, <3>2 DEF People, EditApp, EditShared, Edits, AddApp, Accept, frontend,
                                FrontendInv, FrontendTypes, Runs
      <4>2. There' = There
        BY <1>1, <4>1 DEF There, Exists
      <4>3. QED
        BY <1>1, <4>1, <4>2 DEF IInv, FilesOK
    <3>3. QED
      BY <3>1, <3>2
  <2>5. QED
    BY <2>1, <2>2, <2>3, <2>4 DEF FrontendNext
<1>4. QED
  BY <1>1, <1>2, <1>3 DEF IInv, BootTypes

\* In words: what is installed is a layer, and so is what a killed installation leaves.
LEMMA InstalledIsLayer ==
    ASSUME product \in Layers
    PROVE  /\ \A selected \in BOOLEAN : Installed(selected) \in Layers
           /\ HalfInstalled \subseteq Layers
<1>1. \A selected \in BOOLEAN : Installed(selected) \in Layers
  BY DEF Installed, Layers
<1>2. ASSUME NEW layer \in HalfInstalled
      PROVE  layer \in Layers
  <2>1. [product EXCEPT !.managed = TRUE, !.runtime = TRUE] \in Layers
    BY DEF Layers
  <2>2. \A c \in Layers, q \in {"-", "torn", "kept", "edited"} : [c EXCEPT !.profile = q] \in Layers
    BY DEF Layers
  <2>3. QED
    BY <1>2, <2>1, <2>2 DEF HalfInstalled
<1>3. QED
  BY <1>1, <1>2

\* In words: who damages or installs the layer changes nothing else.
LEMMA ProductTurnsAlone ==
    ASSUME FrontendTypes, BootTypes, ProductNext
    PROVE  /\ product' \in Layers /\ edits' \in Nat /\ kills' \in Nat
           /\ UNCHANGED <<present, frontend, run, history, runs, local, plan>>
<1>1. product \in Layers /\ edits \in Nat /\ kills \in Nat
  BY DEF FrontendTypes, BootTypes
<1>2. ASSUME NEW layer \in Layers, PersonTurns(layer)
      PROVE  /\ product' \in Layers /\ edits' \in Nat /\ kills' \in Nat
             /\ UNCHANGED <<present, frontend, run, history, runs, local, plan>>
  BY <1>1, <1>2 DEF PersonTurns, ProductTurns
<1>3. CASE ProductBreaks
  <2>1. /\ [product EXCEPT !.managed = FALSE] \in Layers
        /\ [product EXCEPT !.runtime = FALSE] \in Layers
        /\ [product EXCEPT !.lock = "-"] \in Layers
        /\ \A are \in BOOLEAN : [product EXCEPT !.required = are] \in Layers
        /\ \A content \in {"-", "edited"} : [product EXCEPT !.profile = content] \in Layers
    BY <1>1 DEF Layers
  <2>2. QED
    BY <1>2, <1>3, <2>1 DEF ProductBreaks
<1>4. ASSUME NEW selected \in BOOLEAN, PersonInstalls(selected)
      PROVE  /\ product' \in Layers /\ edits' \in Nat /\ kills' \in Nat
             /\ UNCHANGED <<present, frontend, run, history, runs, local, plan>>
  BY <1>1, <1>2, <1>4, InstalledIsLayer DEF PersonInstalls
<1>5. CASE Reinstall
  BY <1>1, <1>5, InstalledIsLayer DEF Reinstall, ProductTurns
<1>6. CASE ReinstallKilled
  <2>1. PICK layer \in HalfInstalled : ProductTurns(layer)
    BY <1>6 DEF ReinstallKilled
  <2>2. layer \in Layers
    BY <1>1, InstalledIsLayer
  <2>3. QED
    BY <1>1, <1>6, <2>1, <2>2 DEF ReinstallKilled, ProductTurns
<1>7. QED
  BY <1>3, <1>4, <1>5, <1>6 DEF ProductNext

\* In words: every step of the consumer keeps the invariant.
LEMMA NextKeeps ==
    ASSUME IInv, [BootNext]_allVars
    PROVE  IInv'
<1>1. CASE UNCHANGED allVars
  BY <1>1 DEF IInv, FrontendInv, FrontendTypes, BootTypes, FilesOK, There, Exists,
              allVars, vars, frontend, history, bounds
<1>2. CASE FrontendNext
  BY <1>2, FrontendNextKeeps
<1>3. Needed \in SUBSET Writables
  BY DEF Needed, Writables, Local
<1>4. CASE WritePlan
  <2>1. /\ runs' = runs + 1 /\ plan' \in SUBSET Writables
        /\ UNCHANGED <<present, frontend, run, history, edits, kills, local, product>>
    BY <1>3, <1>4 DEF WritePlan
  <2>2. FrontendInv'
    BY <2>1 DEF IInv, FrontendInv, FrontendTypes, frontend, history
  <2>3. There' = There
    BY <2>1 DEF There, Exists, frontend
  <2>4. FilesOK'
    BY <2>1, <2>3 DEF IInv, FilesOK
  <2>5. QED
    BY <2>1, <2>2, <2>4 DEF IInv, BootTypes
<1>5. CASE Bootstrap
  <2>1. PICK wanted \in SUBSET Writables : wanted = Needed
    BY <1>3
  <2>2. /\ run = Idle /\ plan' \in SUBSET Writables /\ runs' \in Nat
        /\ run' = [Idle EXCEPT !.kind = "boot", !.todo = InOrder("put", wanted), !.before = There]
        /\ UNCHANGED <<present, frontend, history, edits, kills, local, product>>
    BY <1>5, <2>1 DEF Bootstrap, Boot, bounds, IInv, FrontendInv, FrontendTypes
  <2>3. QED
    BY <2>2, BootStarts
<1>6. CASE BootstrapOldPlan
  <2>1. PICK wanted \in SUBSET Writables : wanted = plan
    BY DEF IInv, BootTypes
  <2>2. /\ run = Idle /\ plan' \in SUBSET Writables /\ runs' \in Nat
        /\ run' = [Idle EXCEPT !.kind = "boot", !.todo = InOrder("put", wanted), !.before = There]
        /\ UNCHANGED <<present, frontend, history, edits, kills, local, product>>
    BY <1>6, <2>1 DEF BootstrapOldPlan, IInv, FrontendInv, FrontendTypes, BootTypes
  <2>3. QED
    BY <2>2, BootStarts
<1>7. CASE BootStep
  BY <1>7, PutKeeps, SkipKeeps, TakeBackKeeps, BootEndsKeeps DEF BootStep
<1>8. CASE TornCopy
  BY <1>8, BootEndsKeeps
<1>9. ASSUME NEW content \in {"-", "torn"}, PutFails(content)
      PROVE  IInv'
  BY <1>9, PutFailsKeeps
<1>10. ASSUME NEW p \in Local, NEW content \in {"-"} \cup Own, PersonWrites(p, content)
       PROVE  IInv'
  BY <1>10, PersonKeeps
<1>11. CASE ProductNext
  <2>1. /\ product' \in Layers /\ edits' \in Nat /\ kills' \in Nat
        /\ UNCHANGED <<present, frontend, run, history, runs, local, plan>>
    BY <1>11, ProductTurnsAlone DEF IInv, FrontendInv
  <2>2. FrontendInv'
    BY <2>1 DEF IInv, FrontendInv, FrontendTypes, frontend, history
  <2>3. There' = There
    BY <2>1 DEF There, Exists, frontend
  <2>4. FilesOK'
    BY <2>1, <2>3 DEF IInv, FilesOK
  <2>5. BootTypes'
    BY <2>1 DEF IInv, BootTypes
  <2>6. QED
    BY <2>2, <2>4, <2>5 DEF IInv
<1>13. CASE FrontendAudit
  <2>1. PICK mode \in Modes : mode = Mode
    BY DEF Mode, Modes, IInv, FrontendInv, FrontendTypes
  <2>2. ApplyRun(mode, {}) /\ runs' = runs /\ UNCHANGED <<local, product, plan>>
    BY <1>13, <2>1 DEF FrontendAudit
  <2>3. FrontendInv'
    BY <2>2, ApplyRunKeeps DEF IInv, FrontendInv, FrontendTypes
  <2>4. FilesOK'
    BY <2>2 DEF ApplyRun, Starts, Idle, FilesOK
  <2>5. QED
    BY <2>2, <2>3, <2>4 DEF IInv, BootTypes
<1>14. QED
  BY <1>1, <1>2, <1>4, <1>5, <1>6, <1>7, <1>8, <1>9, <1>10, <1>11, <1>13 DEF BootNext, FilesNext

\* In words: a consumer as it is found is in order.
LEMMA InitHolds ==
    ASSUME BootInit
    PROVE  IInv
<1>1. Idle \in Runs
  BY ItemsOfNone DEF Idle, Runs, Kinds
<1>2. FrontendTypes
  BY <1>1 DEF BootInit, Init, FrontendTypes, NoRegistry, Unknown, NoBaseline, Registries, Files,
              Baselines, Staleness
<1>3. \A a \in Apps : Sound(base, seen, a)
  BY DEF BootInit, Init, NoBaseline, Sound
<1>4. run = Idle /\ Idle.late = {} /\ Idle.answers = {} /\ Idle.todo = <<>> /\ Idle.kind = "none"
  BY DEF BootInit, Init, Idle
<1>5. RunInOrder(run)
  <2>1. BaselineFirst(<<>>)
    BY ItemsOfNone, QuietIsOrdered
  <2>2. QED
    BY <1>4, <2>1, ItemsOfNone DEF RunInOrder
<1>6. BaselinesOK(run, base, seen, owed)
  BY <1>3, <1>4, ItemsOfNone DEF BaselinesOK, ScansAreCurrent, HeadKnowsDisk, AnswersInSight
<1>7. BootTypes /\ FilesOK
  BY <1>4 DEF BootInit, BootTypes, FilesOK, Installation, Layers
<1>8. QED
  BY <1>2, <1>5, <1>6, <1>7 DEF IInv, FrontendInv

\* In words: the invariant holds in every state.
THEOREM Invariant == Spec => []IInv
<1>1. BootInit => IInv
  BY InitHolds
<1>2. IInv /\ [BootNext]_allVars => IInv'
  BY NextKeeps
<1>3. QED
  BY <1>1, <1>2, PTL DEF Spec

-----------------------------------------------------------------------------
(* The theorems.                                                           *)

\* In words: files, runs and history of a consumer are always of their kinds.
THEOREM ConsumerTypeCorrect == Spec => []TypesOK
<1>1. IInv => TypesOK
  BY DEF IInv, FrontendInv, TypesOK
<1>2. QED
  BY <1>1, Invariant, PTL

\* In words: surfaces offered as fresh were scanned from the sources as they are,
\* unless a change is still unanswered (ux_context_resolver.incremental_refresh,
\* generate_baseline, _mark_surfaces_stale).
THEOREM FreshTheorem == Spec => []FreshMeansCurrent
<1>1. IInv => FreshMeansCurrent
  BY DEF IInv, FrontendInv, BaselinesOK, Sound, FreshMeansCurrent
<1>2. QED
  BY <1>1, Invariant, PTL
\* In words: what a step may do to what people decided.
KeepsDecisions ==
    /\ Mode = "ENFORCED" /\ Mode' # "ENFORCED" =>
        \/ run.mode \in Modes \ {"ENFORCED"} \/ calibration' = "-"
        \/ ~marker /\ kills' # kills
    /\ calibration = "ACCEPTED" /\ calibration' # "ACCEPTED" =>
        calibration' = "-" \/ kills' # kills

\* In words: only a run of another mode, a removal, or a kill in the middle of
\* writing takes a decision back.
LEMMA StepKeepsDecisions ==
    ASSUME IInv, [BootNext]_allVars
    PROVE  KeepsDecisions
<1>1. CASE UNCHANGED <<adoption, marker, calibration>>
  BY <1>1 DEF KeepsDecisions, Mode
<1>2. CASE WriteAdoption
  <2>1. run.mode \in Modes
    BY <1>2, DoesOneOfIts DEF IInv, WriteAdoption, RunInOrder
  <2>2. adoption' = run.mode /\ marker' = marker /\ calibration' = calibration
    BY <1>2 DEF WriteAdoption
  <2>3. QED
    BY <2>1, <2>2 DEF KeepsDecisions, Mode
<1>3. CASE WriteMarker
  <2>1. run.mode \in Modes
    BY <1>3, DoesOneOfIts DEF IInv, WriteMarker, RunInOrder
  <2>2. (marker' <=> run.mode = "ENFORCED") /\ adoption' = adoption /\ calibration' = calibration
    BY <1>3 DEF WriteMarker
  <2>3. QED
    BY <2>1, <2>2 DEF KeepsDecisions, Mode
<1>4. CASE WriteCalibration
  BY <1>4 DEF WriteCalibration, Calibration, KeepsDecisions, Mode
<1>5. CASE Torn
  <2>1. kills' # kills
    BY <1>5 DEF Torn, Dies, IInv, FrontendInv, FrontendTypes
  <2>2. marker' = marker
    BY <1>5 DEF Torn
  <2>3. QED
    BY <2>1, <2>2 DEF KeepsDecisions, Mode
<1>6. CASE Accept
  BY <1>6 DEF Accept, KeepsDecisions, Mode
<1>7. CASE Clear
  BY <1>7 DEF Clear, KeepsDecisions
<1>8. ASSUME Step, ~WriteAdoption, ~WriteMarker, ~WriteCalibration
      PROVE  UNCHANGED <<adoption, marker, calibration>>
  BY <1>8 DEF Step, WriteRegistry, WriteShared, WriteStatuses, ResolveShared, Targets, Serve, Decide,
              Generate, WriteProfile, WriteUi, WriteSurfaces, WriteLock, Mark, WriteStaleSurfaces,
              WriteStaleLock, WriteBase, Finish, frontend
<1>9. ASSUME Killed \/ People \/ OptionalRuns, ~Accept, ~Clear
      PROVE  UNCHANGED <<adoption, marker, calibration>>
  BY <1>9 DEF Killed, People, EditApp, EditShared, Edits, AddApp, OptionalRuns, Apply, ApplyRun, Refresh,
              FeatureScope, Starts, frontend
<1>10. ASSUME BootNext, ~FrontendNext
       PROVE  UNCHANGED <<adoption, marker, calibration>>
  <2>1. CASE FilesNext
    BY <1>10, <2>1 DEF FilesNext, WritePlan, Bootstrap, BootstrapOldPlan, Boot, BootStep, Put, Skip, TakeBack,
               BootEnds, TornCopy, PutFails, PersonWrites, FrontendAudit,
               ApplyRun, Starts, AndNoOther, frontend
  <2>2. CASE ProductNext
    BY <2>2, ProductTurnsAlone DEF IInv, FrontendInv, frontend
  <2>3. QED
    BY <1>10, <2>1, <2>2 DEF BootNext
<1>11. CASE UNCHANGED allVars
  <2>1. UNCHANGED <<adoption, marker, calibration>>
    BY <1>11 DEF allVars, vars, frontend
  <2>2. QED
    BY <1>1, <2>1
<1>12. QED
  BY <1>1, <1>2, <1>3, <1>4, <1>5, <1>6, <1>7, <1>8, <1>9, <1>10, <1>11 DEF FrontendNext

\* In words: what people decided stays, whoever edits, kills or bootstraps
\* (frontend_audit._write_adoption, _ensure_calibration_status).
THEOREM DecisionsTheorem == Spec => DecisionsKept
<1>1. IInv /\ [BootNext]_allVars => [KeepsDecisions]_vars
  BY StepKeepsDecisions
<1>2. DecisionsKept <=> [][KeepsDecisions]_vars
  BY DEF DecisionsKept, KeepsDecisions
<1>3. QED
  BY <1>1, <1>2, Invariant, PTL DEF Spec

\* In words: what a step may do to the consumer's own files.
OnlyAdds ==
    /\ \A p \in Local : local[p] \in Own /\ local'[p] # local[p] => edits' # edits
    /\ run.kind = "restore" /\ run' = Idle /\ kills' = kills => There = run.before

\* In words: only people remove what people wrote, and a restore ends with the
\* files that were there before, or that people added meanwhile.
LEMMA StepOnlyAdds ==
    ASSUME IInv, [BootNext]_allVars
    PROVE  OnlyAdds
<1>1. /\ run \in Runs /\ edits \in Nat /\ kills \in Nat
      /\ local \in [Local -> {"-", "own", "other", "template", "torn"}]
  BY DEF IInv, FrontendInv, FrontendTypes, BootTypes
<1>2. ASSUME NEW p \in Local, local[p] \in Own, local'[p] # local[p]
      PROVE  edits' # edits
  <2>1. ASSUME NEW x \in Writables, NEW content \in {"-", "template", "torn"}, Holds(x, content),
               x \in Local => local[x] \notin Own
        PROVE  FALSE
    <3>1. \A l \in Local : local'[l] = IF l = x THEN content ELSE local[l]
      BY <2>1, HoldsOne
    <3>2. QED
      BY <1>2, <2>1, <3>1
  <2>2. ASSUME Does("put"), ~Exists(Next1.arg),
               NEW content \in {"-", "template", "torn"}, Holds(Next1.arg, content)
        PROVE  FALSE
    <3>1. Next1.arg \in Writables
      BY <2>2, FileWrites DEF OnFiles
    <3>2. Next1.arg \in Local => local[Next1.arg] \notin Own
      BY <2>2 DEF Exists, Local, Own
    <3>3. PICK x \in Writables : x = Next1.arg
      BY <3>1
    <3>4. QED
      BY <2>1, <2>2, <3>2, <3>3
  <2>3. CASE Put
    BY <2>2, <2>3 DEF Put
  <2>4. ASSUME NEW content \in {"-", "torn"}, PutFails(content)
        PROVE  FALSE
    BY <2>2, <2>4 DEF PutFails
  <2>5. CASE TornCopy
    BY <2>2, <2>5 DEF TornCopy
  <2>6. CASE TakeBack
    <3>1. Does("takeBack") /\ Holds(Next1.arg, "-")
      BY <2>6 DEF TakeBack
    <3>2. /\ Next1.arg \in Writables /\ Next1.arg \in run.made
          /\ \A l \in run.made \cap Local : local[l] \notin Own
      BY <3>1, FileWrites DEF OnFiles
    <3>3. PICK x \in Writables : x = Next1.arg
      BY <3>2
    <3>4. QED
      BY <2>1, <3>1, <3>2, <3>3
  <2>7. ASSUME NEW x \in Local, NEW content \in {"-"} \cup Own, PersonWrites(x, content)
        PROVE  edits' # edits
    BY <1>1, <2>7 DEF PersonWrites
  <2>8. local' # local
    BY <1>2
  <2>9. ~FrontendNext /\ ~WritePlan /\ ~Bootstrap /\ ~BootstrapOldPlan /\ ~Skip /\ ~BootEnds
        /\ ~FrontendAudit /\ ~UNCHANGED allVars
    BY <2>8 DEF FrontendNext, WritePlan, Bootstrap, BootstrapOldPlan, Boot, Skip, BootEnds,
                FrontendAudit, allVars
  <2>10. ~ProductNext
    BY <2>8, ProductTurnsAlone DEF IInv, FrontendInv
  <2>11. QED
    BY <2>3, <2>4, <2>5, <2>6, <2>7, <2>9, <2>10 DEF BootNext, FilesNext, BootStep
<1>3. ASSUME run.kind = "restore", run' = Idle, kills' = kills
      PROVE  There = run.before
  <2>1. run.todo = <<>>
    <3>1. Idle.kind = "none" /\ Idle # run
      BY <1>3 DEF Idle
    <3>2. ~Step
      BY <1>3, StepIsOfFrontend DEF IInv
    <3>3. ~Killed /\ ~Torn /\ ~TornCopy
      BY <1>1, <1>3 DEF Killed, Torn, TornCopy, Dies
    <3>4. ~People
      BY <1>1, <1>3, <3>1 DEF People, EditApp, EditShared, Edits, AddApp, Accept, Clear, Runs
    <3>5. ~OptionalRuns /\ ~Bootstrap /\ ~BootstrapOldPlan /\ ~FrontendAudit
          /\ ~WritePlan /\ ~UNCHANGED allVars
      BY <1>3, <3>1 DEF OptionalRuns, Apply, ApplyRun, Refresh, FeatureScope, Starts, Bootstrap, Boot,
                        BootstrapOldPlan, FrontendAudit, WritePlan, allVars, vars
    <3>6. ~Put /\ ~Skip /\ ~TakeBack
      BY <1>1, <1>3, <3>1 DEF Put, Skip, TakeBack, GoesOn, Runs
    <3>7. \A content \in {"-", "torn"} : ~PutFails(content)
      BY <1>1, <1>3 DEF PutFails
    <3>8. \A x \in Local, content \in {"-"} \cup Own : ~PersonWrites(x, content)
      BY <1>1, <1>3, <3>1 DEF PersonWrites, Runs
    <3>9. ~ProductNext
      BY <1>3, <3>1, ProductTurnsAlone DEF IInv, FrontendInv
    <3>10. BootEnds
      BY <3>2, <3>3, <3>4, <3>5, <3>6, <3>7, <3>8, <3>9 DEF BootNext, FilesNext, BootStep, FrontendNext
    <3>11. QED
      BY <3>10 DEF BootEnds
  <2>2. /\ run.before \subseteq There /\ There \subseteq run.before \cup run.made
        /\ \A p \in run.made \cap There : \E o \in Items(run.todo) : o.arg = p
    BY <1>3 DEF IInv, FilesOK
  <2>3. run.made \cap There = {}
    BY <2>1, <2>2, ItemsOfNone
  <2>4. QED
    BY <2>2, <2>3
<1>4. QED
  BY <1>2, <1>3 DEF OnlyAdds

\* In words: a bootstrap only adds to what people wrote, and one that fails puts
\* things back (apply_remediation.apply_plan, common.write_new_file).
THEOREM OnlyAddsTheorem == Spec => BootstrapOnlyAdds
<1>1. IInv /\ [BootNext]_allVars => [OnlyAdds]_allVars
  BY StepOnlyAdds
<1>2. BootstrapOnlyAdds <=> [][OnlyAdds]_allVars
  BY DEF BootstrapOnlyAdds, OnlyAdds
<1>3. QED
  BY <1>1, <1>2, Invariant, PTL DEF Spec
=============================================================================
