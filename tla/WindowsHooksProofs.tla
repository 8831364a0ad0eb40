------------------------- MODULE WindowsHooksProofs -------------------------
(***************************************************************************)
(* The hook families of the Windows agent never run a broken route, never  *)
(* call a trampoline that is gone and, once finalised, leave nothing       *)
(* behind, for any hooked functions, any declared points and any number of *)
(* target threads.  What the backend does is taken from HookBackendProofs. *)
(***************************************************************************)
EXTENDS WindowsHooks, SequenceTheorems, FiniteSetTheorems, TLAPS

P == INSTANCE HookBackendProofs WITH
        Backends <- {Agent}, Targets <- Funcs, Clients <- Funcs

----------------------------------------------------------------------------
(* What is left to do, as a sequence. *)

\* The elements of the sequences the control thread works with.
LEMMA ElementsOfEach ==
  ASSUME NEW S, NEW s \in Seq(S), NEW step, NEW d
  PROVE  /\ Elements(s) \subseteq S
         /\ Len(ForEach(step, s, d)) = Len(s)
         /\ \A i \in 1 .. Len(s) : ForEach(step, s, d)[i] = <<step, s[i], d>>
         /\ Elements(ForEach(step, s, d)) = {<<step, x, d>> : x \in Elements(s)}
<1>1. Len(s) \in Nat /\ \A i \in 1 .. Len(s) : s[i] \in S
  BY LenProperties, ElementOfSeq
<1>2. /\ ForEach(step, s, d) = [i \in 1 .. Len(s) |-> <<step, s[i], d>>]
      /\ Len(ForEach(step, s, d)) = Len(s)
  BY <1>1 DEF ForEach, Step
<1>3. \A i \in 1 .. Len(s) : ForEach(step, s, d)[i] = <<step, s[i], d>>
  BY <1>2
<1> QED BY <1>1, <1>2, <1>3 DEF Elements

LEMMA EachIsSeq ==
  ASSUME NEW S, NEW s \in Seq(S), NEW step, NEW d, NEW U,
         \A x \in Elements(s) : <<step, x, d>> \in U
  PROVE  ForEach(step, s, d) \in Seq(U)
<1>1. Len(s) \in Nat
  BY LenProperties
<1>2. \A i \in 1 .. Len(s) : <<step, s[i], d>> \in U
  BY DEF Elements
<1> QED BY <1>1, <1>2 DEF ForEach, Step

LEMMA ElementsOfConcat ==
  ASSUME NEW S, NEW p \in Seq(S), NEW q \in Seq(S)
  PROVE  p \o q \in Seq(S) /\ Elements(p \o q) = Elements(p) \cup Elements(q)
<1>1. /\ Len(p) \in Nat /\ Len(q) \in Nat /\ Len(p \o q) = Len(p) + Len(q) /\ p \o q \in Seq(S)
      /\ \A i \in 1 .. Len(p) + Len(q) : (p \o q)[i] = IF i <= Len(p) THEN p[i] ELSE q[i - Len(p)]
  BY ConcatProperties, LenProperties
<1>2. ASSUME NEW i \in 1 .. Len(p) PROVE i \in 1 .. Len(p) + Len(q) /\ (p \o q)[i] = p[i]
  BY <1>1, <1>2
<1>3. ASSUME NEW i \in 1 .. Len(q)
      PROVE  i + Len(p) \in 1 .. Len(p) + Len(q) /\ (p \o q)[i + Len(p)] = q[i]
  BY <1>1, <1>3
<1>4. ASSUME NEW i \in 1 .. Len(p) + Len(q)
      PROVE  \/ i \in 1 .. Len(p) /\ (p \o q)[i] = p[i]
             \/ i - Len(p) \in 1 .. Len(q) /\ (p \o q)[i] = q[i - Len(p)]
  BY <1>1, <1>4
<1>5. Elements(p) \subseteq Elements(p \o q)
  BY <1>1, <1>2 DEF Elements
<1>6. Elements(q) \subseteq Elements(p \o q)
  BY <1>1, <1>3 DEF Elements
<1>7. Elements(p \o q) \subseteq Elements(p) \cup Elements(q)
  BY <1>1, <1>4 DEF Elements
<1> QED BY <1>1, <1>5, <1>6, <1>7

LEMMA ElementsOfFew ==
  ASSUME NEW S, NEW a \in S, NEW b \in S
  PROVE  /\ << >> \in Seq(S) /\ Elements(<< >>) = {} /\ Ordered(<< >>)
         /\ << a >> \in Seq(S) /\ Elements(<< a >>) = {a} /\ Ordered(<< a >>)
         /\ << a, b >> \in Seq(S) /\ Elements(<< a, b >>) = {a, b}
         /\ Follows(a, b) => Ordered(<< a, b >>)
<1>1. << >> \in Seq(S) /\ Elements(<< >>) = {} /\ Ordered(<< >>)
  BY DEF Elements, Ordered
<1>2. << a >> \in Seq(S) /\ Elements(<< a >>) = {a} /\ Ordered(<< a >>)
  BY DEF Elements, Ordered
<1>3. << a, b >> \in Seq(S) /\ Elements(<< a, b >>) = {a, b}
  BY DEF Elements
<1>4. ASSUME Follows(a, b) PROVE Ordered(<< a, b >>)
  BY <1>4 DEF Ordered
<1> QED BY <1>1, <1>2, <1>3, <1>4

\* The steps that are left behind the one that is done.
LEMMA Rests ==
  ASSUME NEW S, NEW q \in Seq(S), q # << >>, Ordered(q)
  PROVE  /\ Head(q) \in S /\ Tail(q) \in Seq(S) /\ Ordered(Tail(q))
         /\ Elements(Tail(q)) \subseteq S /\ Elements(q) = {Head(q)} \cup Elements(Tail(q))
         /\ \A u \in Elements(Tail(q)) : Follows(Head(q), u)
<1>1. /\ Len(q) \in Nat \ {0} /\ Tail(q) \in Seq(S) /\ Len(Tail(q)) = Len(q) - 1
      /\ Head(q) = q[1] /\ Head(q) \in S
      /\ \A i \in 1 .. Len(q) - 1 : Tail(q)[i] = q[i + 1]
  BY HeadTailProperties, EmptySeq
<1>2. ASSUME NEW i \in 1 .. Len(q), i # 1 PROVE i - 1 \in 1 .. Len(q) - 1 /\ q[i] = Tail(q)[i - 1]
  BY <1>1, <1>2
<1>3. ASSUME NEW i \in 1 .. Len(q) - 1
      PROVE  i + 1 \in 1 .. Len(q) /\ 1 < i + 1 /\ q[i + 1] = Tail(q)[i]
  BY <1>1, <1>3
<1>4. 1 \in 1 .. Len(q)
  BY <1>1
<1>5. Elements(q) = {Head(q)} \cup Elements(Tail(q))
  <2>1. Elements(q) \subseteq {Head(q)} \cup Elements(Tail(q))
    BY <1>1, <1>2 DEF Elements
  <2>2. Head(q) \in Elements(q)
    BY <1>1, <1>4 DEF Elements
  <2>3. Elements(Tail(q)) \subseteq Elements(q)
    BY <1>1, <1>3 DEF Elements
  <2> QED BY <2>1, <2>2, <2>3
<1>6. \A u \in Elements(Tail(q)) : Follows(Head(q), u)
  BY <1>1, <1>3, <1>4 DEF Elements, Ordered
<1>7. Ordered(Tail(q))
  <2>1. \A i, j \in 1 .. Len(q) - 1 : i < j => i + 1 < j + 1
    BY <1>1
  <2> QED BY <1>1, <1>3, <2>1 DEF Ordered
<1>8. Elements(Tail(q)) \subseteq S
  BY <1>1, ElementOfSeq DEF Elements
<1> QED BY <1>1, <1>5, <1>6, <1>7, <1>8

\* Steps that may stand in front of what is left.
LEMMA OrderedConcat ==
  ASSUME NEW S, NEW p \in Seq(S), NEW q \in Seq(S), Ordered(p), Ordered(q),
         \A s \in Elements(p), u \in Elements(q) : Follows(s, u)
  PROVE  Ordered(p \o q)
<1>1. /\ Len(p) \in Nat /\ Len(q) \in Nat /\ Len(p \o q) = Len(p) + Len(q)
      /\ \A i \in 1 .. Len(p) + Len(q) : (p \o q)[i] = IF i <= Len(p) THEN p[i] ELSE q[i - Len(p)]
  BY ConcatProperties, LenProperties
<1> SUFFICES ASSUME NEW i \in 1 .. Len(p) + Len(q), NEW j \in 1 .. Len(p) + Len(q), i < j
             PROVE  Follows((p \o q)[i], (p \o q)[j])
  BY <1>1 DEF Ordered
<1>2. CASE j <= Len(p)
  <2>1. i \in 1 .. Len(p) /\ j \in 1 .. Len(p) /\ (p \o q)[i] = p[i] /\ (p \o q)[j] = p[j]
    BY <1>1, <1>2
  <2> QED BY <2>1 DEF Ordered
<1>3. CASE i <= Len(p) /\ ~(j <= Len(p))
  <2>1. /\ i \in 1 .. Len(p) /\ j - Len(p) \in 1 .. Len(q)
        /\ (p \o q)[i] = p[i] /\ (p \o q)[j] = q[j - Len(p)]
    BY <1>1, <1>3
  <2> QED BY <2>1 DEF Elements
<1>4. CASE ~(i <= Len(p))
  <2>1. /\ i - Len(p) \in 1 .. Len(q) /\ j - Len(p) \in 1 .. Len(q) /\ i - Len(p) < j - Len(p)
        /\ (p \o q)[i] = q[i - Len(p)] /\ (p \o q)[j] = q[j - Len(p)]
    BY <1>1, <1>4
  <2> QED BY <2>1 DEF Ordered
<1> QED BY <1>1, <1>2, <1>3, <1>4

\* A loop over declared names is in order if its steps may follow one another.
LEMMA OrderedEach ==
  ASSUME NEW s, Declares(s), NEW step, NEW d,
         \A x, y \in Elements(s) : x # y => Follows(<<step, x, d>>, <<step, y, d>>)
  PROVE  Ordered(ForEach(step, s, d))
<1>1. Len(s) \in Nat /\ s \in Seq(Elements(s)) /\ \A i, j \in 1 .. Len(s) : s[i] = s[j] => i = j
  BY LenProperties DEF Declares
<1>2. /\ Len(ForEach(step, s, d)) = Len(s)
      /\ \A i \in 1 .. Len(s) : ForEach(step, s, d)[i] = <<step, s[i], d>>
  BY <1>1, ElementsOfEach
<1>3. \A i, j \in 1 .. Len(s) : i < j => s[i] # s[j] /\ s[i] \in Elements(s) /\ s[j] \in Elements(s)
  BY <1>1 DEF Elements
<1>4. ASSUME NEW i \in 1 .. Len(s), NEW j \in 1 .. Len(s), i < j
      PROVE  Follows(ForEach(step, s, d)[i], ForEach(step, s, d)[j])
  <2>1. Follows(<<step, s[i], d>>, <<step, s[j], d>>)
    BY <1>3, <1>4
  <2> QED BY <1>2, <2>1
<1> QED BY <1>2, <1>4 DEF Ordered

LEMMA ReverseDeclares ==
  ASSUME NEW s, Declares(s)
  PROVE  Declares(Reverse(s)) /\ Elements(Reverse(s)) = Elements(s)
<1>1. Len(s) \in Nat /\ s \in Seq(Elements(s)) /\ \A i, j \in 1 .. Len(s) : s[i] = s[j] => i = j
  BY LenProperties DEF Declares
<1>2. /\ Reverse(s) = [i \in 1 .. Len(s) |-> s[(Len(s) - i) + 1]] /\ Len(Reverse(s)) = Len(s)
  BY <1>1 DEF Reverse
<1>3. \A i \in 1 .. Len(s) : (Len(s) - i) + 1 \in 1 .. Len(s) /\ (Len(s) - ((Len(s) - i) + 1)) + 1 = i
  BY <1>1
<1>4. \A i \in 1 .. Len(s) : Reverse(s)[i] = s[(Len(s) - i) + 1] /\ s[i] = Reverse(s)[(Len(s) - i) + 1]
  BY <1>2, <1>3
<1>5. Elements(Reverse(s)) = Elements(s)
  <2>1. Elements(Reverse(s)) \subseteq Elements(s)
    BY <1>2, <1>3, <1>4 DEF Elements
  <2>2. Elements(s) \subseteq Elements(Reverse(s))
    BY <1>2, <1>3, <1>4 DEF Elements
  <2> QED BY <2>1, <2>2
<1>6. \A i, j \in 1 .. Len(s) : Reverse(s)[i] = Reverse(s)[j] => i = j
  <2> SUFFICES ASSUME NEW i \in 1 .. Len(s), NEW j \in 1 .. Len(s), Reverse(s)[i] = Reverse(s)[j]
               PROVE  i = j
    OBVIOUS
  <2>1. (Len(s) - i) + 1 = (Len(s) - j) + 1
    BY <1>1, <1>3, <1>4
  <2> QED BY <1>1, <2>1
<1>7. Reverse(s) \in Seq(Elements(Reverse(s)))
  <2>1. \A i \in 1 .. Len(s) : s[(Len(s) - i) + 1] \in Elements(Reverse(s))
    BY <1>3, <1>5 DEF Elements
  <2> QED BY <1>1, <1>2, <2>1
<1> QED BY <1>2, <1>5, <1>6, <1>7 DEF Declares

----------------------------------------------------------------------------
(* The names of functions, objects, lifecycles and points. *)

LEMMA SeqElements ==
  ASSUME NEW s, Declares(s)
  PROVE  s \in Seq(Elements(s)) /\ Len(s) \in Nat /\ IsFiniteSet(Elements(s))
<1>1. s \in Seq(Elements(s)) /\ Len(s) \in Nat
  BY LenProperties DEF Declares
<1>2. \A x \in Elements(s) : \E n \in 1 .. Len(s) : s[n] = x
  BY DEF Elements
<1> QED BY <1>1, <1>2 DEF IsFiniteSet

LEMMA BuiltinNames ==
  /\ Builtin = Elements(RtlHooks) \cup Elements(VmChannels)
  /\ Vm \in Objects <=> VmChannels # << >>
  /\ \A o \in Objects : /\ Declares(Channels(o)) /\ Elements(Channels(o)) \subseteq Builtin
                        /\ \A c \in Elements(Channels(o)) : ObjectOf(c) = o
  /\ \A c \in Builtin : /\ ObjectOf(c) \in Objects /\ c \in Elements(Channels(ObjectOf(c)))
                        /\ LifeOf(c) \in Builtin /\ ObjectOf(LifeOf(c)) = ObjectOf(c)
<1>1. /\ Elements(RtlHooks) \cap (Elements(VmChannels) \cup {Vm, "unmapEx"}) = {}
      /\ "unmapEx" \in Elements(VmChannels) => "unmap" \in Elements(VmChannels)
  BY WindowsHooksAssumption
<1>2. /\ RtlHooks \in Seq(Elements(RtlHooks)) /\ VmChannels \in Seq(Elements(VmChannels))
      /\ Declares(VmChannels) /\ Declares(RtlHooks)
  BY WindowsHooksAssumption DEF Declares
<1>3. VmChannels = << >> <=> Elements(VmChannels) = {}
  <2>1. ASSUME VmChannels # << >> PROVE VmChannels[1] \in Elements(VmChannels)
    BY <1>2, <2>1, EmptySeq DEF Elements
  <2>2. Elements(<< >>) = {}
    BY ElementsOfFew
  <2> QED BY <2>1, <2>2
<1>4. ASSUME NEW o \in Elements(RtlHooks)
      PROVE  /\ o # Vm /\ o \in Objects /\ Channels(o) = << o >> /\ Elements(Channels(o)) = {o}
             /\ ObjectOf(o) = o /\ LifeOf(o) = o
  <2>1. o # Vm /\ o # "unmapEx" /\ o \notin Elements(VmChannels)
    BY <1>1
  <2>2. Elements(<< o >>) = {o}
    BY ElementsOfFew
  <2> QED BY <2>1, <2>2 DEF Channels, ObjectOf, LifeOf, Objects
<1>5. ASSUME NEW c \in Elements(VmChannels)
      PROVE  /\ Vm \in Objects /\ ObjectOf(c) = Vm
             /\ LifeOf(c) \in Elements(VmChannels) /\ ObjectOf(LifeOf(c)) = Vm
  BY <1>1, <1>3 DEF Objects, ObjectOf, LifeOf
<1>6. Channels(Vm) = VmChannels
  BY DEF Channels
<1>7. Vm \in Objects <=> VmChannels # << >>
  BY <1>1 DEF Objects
<1>8. \A o \in Objects : o \in Elements(RtlHooks) \/ o = Vm
  BY DEF Objects
<1>9. Builtin = Elements(RtlHooks) \cup Elements(VmChannels)
  <2>1. \A c \in Elements(VmChannels) : c \in Builtin
    BY <1>5, <1>6 DEF Builtin
  <2>2. \A c \in Elements(RtlHooks) : c \in Builtin
    BY <1>4 DEF Builtin
  <2>3. ASSUME NEW c \in Builtin PROVE c \in Elements(RtlHooks) \cup Elements(VmChannels)
    <3>1. PICK o \in Objects : c \in Elements(Channels(o))
      BY DEF Builtin
    <3> QED BY <1>4, <1>6, <1>8, <3>1
  <2> QED BY <2>1, <2>2, <2>3
<1>10. ASSUME NEW o \in Objects
       PROVE  /\ Declares(Channels(o)) /\ Elements(Channels(o)) \subseteq Builtin
              /\ \A c \in Elements(Channels(o)) : ObjectOf(c) = o
  <2>1. CASE o = Vm
    BY <1>2, <1>5, <1>6, <1>9, <2>1
  <2>2. CASE o \in Elements(RtlHooks)
    <3>1. Declares(<< o >>)
      <4>1. << o >> \in Seq({o}) /\ Elements(<< o >>) = {o}
        BY ElementsOfFew
      <4>2. \A i, j \in 1 .. Len(<< o >>) : i = j
        OBVIOUS
      <4> QED BY <4>1, <4>2 DEF Declares
    <3> QED BY <1>4, <1>9, <2>2, <3>1
  <2> QED BY <1>8, <2>1, <2>2
<1>11. ASSUME NEW c \in Builtin
       PROVE  /\ ObjectOf(c) \in Objects /\ c \in Elements(Channels(ObjectOf(c)))
              /\ LifeOf(c) \in Builtin /\ ObjectOf(LifeOf(c)) = ObjectOf(c)
  BY <1>4, <1>5, <1>6, <1>9
<1> QED BY <1>7, <1>9, <1>10, <1>11

LEMMA CustomNames ==
  /\ \A p \in PointIds : /\ Declares(RolesOf(p)) /\ RolesOf(p)[1] \in Elements(RolesOf(p))
                         /\ \A r \in Elements(RolesOf(p)) : r \in Roles /\ PointOf(r) = p
  /\ \A r \in Roles : PointOf(r) \in PointIds /\ r \in Elements(RolesOf(PointOf(r)))
<1>1. ASSUME NEW p \in PointIds PROVE Declares(RolesOf(p)) /\ RolesOf(p)[1] \in Elements(RolesOf(p))
  <2>1. Declares(RolesOf(p)) /\ RolesOf(p) # << >>
    BY WindowsHooksAssumption
  <2>2. 1 \in 1 .. Len(RolesOf(p))
    BY <2>1, SeqElements, EmptySeq
  <2> QED BY <2>1, <2>2 DEF Elements
<1>2. ASSUME NEW r \in Roles PROVE PointOf(r) \in PointIds /\ r \in Elements(RolesOf(PointOf(r)))
  <2>1. \E p \in PointIds : r \in Elements(RolesOf(p))
    BY DEF Roles
  <2> QED BY <2>1 DEF PointOf
<1>3. ASSUME NEW p \in PointIds, NEW r \in Elements(RolesOf(p)) PROVE r \in Roles /\ PointOf(r) = p
  <2>1. r \in Roles
    BY DEF Roles
  <2>2. PointOf(r) \in PointIds /\ r \in Elements(RolesOf(PointOf(r)))
    BY <1>2, <2>1
  <2>3. \A q \in PointIds : p # q => Elements(RolesOf(p)) \cap Elements(RolesOf(q)) = {}
    BY WindowsHooksAssumption
  <2> QED BY <2>1, <2>2, <2>3
<1> QED BY <1>1, <1>2, <1>3

\* What the actions use of the names.
LEMMA Names ==
  /\ \A c \in Builtin : /\ ObjectOf(c) \in Objects /\ c \in Elements(Channels(ObjectOf(c)))
                        /\ LifeOf(c) \in LivesOf(ObjectOf(c)) /\ LifeOf(c) \in Lives
                        /\ LifeOf(c) \notin PointIds /\ c \notin Roles /\ c \in Funcs
                        /\ Lifecycle(c) = LifeOf(c)
  /\ \A o \in Objects : /\ Elements(Channels(o)) \subseteq Builtin /\ LivesOf(o) \subseteq Lives
                        /\ LivesOf(o) \cap PointIds = {}
                        /\ \A c \in Elements(Channels(o)) : ObjectOf(c) = o
                        /\ \A c \in Builtin : LifeOf(c) \in LivesOf(o) => ObjectOf(c) = o
                        /\ \A l \in LivesOf(o) : \E c \in Builtin : l = LifeOf(c)
  /\ \A r \in Roles : /\ PointOf(r) \in PointIds /\ r \in Elements(RolesOf(PointOf(r)))
                      /\ r \notin Builtin /\ r \in Funcs /\ Lifecycle(r) = PointOf(r)
  /\ \A p \in PointIds : /\ p \in Lives /\ RolesOf(p)[1] \in Roles /\ PointOf(RolesOf(p)[1]) = p
                         /\ \A r \in Elements(RolesOf(p)) : r \in Roles /\ PointOf(r) = p
  /\ Funcs = Builtin \cup Roles
<1>1. Builtin \cap (Roles \cup PointIds) = {}
  BY WindowsHooksAssumption
<1>2. ASSUME NEW c \in Builtin
      PROVE  /\ ObjectOf(c) \in Objects /\ c \in Elements(Channels(ObjectOf(c)))
             /\ LifeOf(c) \in LivesOf(ObjectOf(c)) /\ LifeOf(c) \in Lives
             /\ LifeOf(c) \notin PointIds /\ c \notin Roles /\ c \in Funcs
             /\ Lifecycle(c) = LifeOf(c)
  <2>1. /\ ObjectOf(c) \in Objects /\ c \in Elements(Channels(ObjectOf(c))) /\ LifeOf(c) \in Builtin
    BY BuiltinNames
  <2>2. LifeOf(c) \in LivesOf(ObjectOf(c)) /\ LifeOf(c) \in Lives
    BY <2>1 DEF LivesOf, Lives
  <2>3. LifeOf(c) \notin PointIds /\ c \notin Roles
    BY <1>1, <2>1
  <2>4. c \in Funcs /\ Lifecycle(c) = LifeOf(c)
    BY <2>3 DEF Funcs, Lifecycle
  <2> QED BY <2>1, <2>2, <2>3, <2>4
<1>3. ASSUME NEW o \in Objects
      PROVE  /\ Elements(Channels(o)) \subseteq Builtin /\ LivesOf(o) \subseteq Lives
             /\ LivesOf(o) \cap PointIds = {}
             /\ \A c \in Elements(Channels(o)) : ObjectOf(c) = o
             /\ \A c \in Builtin : LifeOf(c) \in LivesOf(o) => ObjectOf(c) = o
             /\ \A l \in LivesOf(o) : \E c \in Builtin : l = LifeOf(c)
  <2>1. Elements(Channels(o)) \subseteq Builtin /\ \A c \in Elements(Channels(o)) : ObjectOf(c) = o
    BY BuiltinNames
  <2>2. \A l \in LivesOf(o) : \E c \in Elements(Channels(o)) : l = LifeOf(c)
    BY DEF LivesOf
  <2>3. LivesOf(o) \subseteq Lives
    BY <2>1, <2>2 DEF Lives
  <2>4. LivesOf(o) \cap PointIds = {}
    BY <1>2, <2>1, <2>2
  <2>5. ASSUME NEW c \in Builtin, LifeOf(c) \in LivesOf(o) PROVE ObjectOf(c) = o
    <3>1. PICK d \in Elements(Channels(o)) : LifeOf(c) = LifeOf(d)
      BY <2>2, <2>5
    <3>2. d \in Builtin /\ ObjectOf(d) = o
      BY <2>1
    <3>3. ObjectOf(LifeOf(c)) = ObjectOf(c) /\ ObjectOf(LifeOf(d)) = ObjectOf(d)
      BY <3>2, BuiltinNames
    <3> QED BY <3>1, <3>2, <3>3
  <2> QED BY <2>1, <2>2, <2>3, <2>4, <2>5
<1>4. ASSUME NEW r \in Roles
      PROVE  /\ PointOf(r) \in PointIds /\ r \in Elements(RolesOf(PointOf(r)))
             /\ r \notin Builtin /\ r \in Funcs /\ Lifecycle(r) = PointOf(r)
  BY <1>1, CustomNames DEF Funcs, Lifecycle
<1>5. ASSUME NEW p \in PointIds
      PROVE  /\ p \in Lives /\ RolesOf(p)[1] \in Roles /\ PointOf(RolesOf(p)[1]) = p
             /\ \A r \in Elements(RolesOf(p)) : r \in Roles /\ PointOf(r) = p
  BY CustomNames DEF Lives
<1>6. Funcs = Builtin \cup Roles
  BY DEF Funcs
<1> QED BY <1>2, <1>3, <1>4, <1>5, <1>6

LEMMA FuncsFinite == IsFiniteSet(Funcs)
<1>1. IsFiniteSet(Elements(RtlHooks)) /\ IsFiniteSet(Elements(VmChannels))
  BY SeqElements, WindowsHooksAssumption
<1>2. IsFiniteSet(Builtin)
  BY <1>1, FS_Union, BuiltinNames
<1>3. IsFiniteSet({Elements(RolesOf(p)) : p \in PointIds})
  <2> DEFINE S == {Elements(RolesOf(p)) : p \in PointIds}
             q == [i \in 1 .. Len(PointSeq) |-> Elements(RolesOf(PointSeq[i]))]
  <2>1. Len(PointSeq) \in Nat /\ PointIds = {PointSeq[i] : i \in 1 .. Len(PointSeq)}
    BY SeqElements, WindowsHooksAssumption DEF PointIds, Elements
  <2>2. \A i \in 1 .. Len(PointSeq) : Elements(RolesOf(PointSeq[i])) \in S
    BY <2>1
  <2>3. q \in Seq(S) /\ Len(q) = Len(PointSeq)
    BY <2>1, <2>2
  <2>4. \A x \in S : \E i \in 1 .. Len(q) : q[i] = x
    BY <2>1, <2>3
  <2> QED BY <2>3, <2>4 DEF IsFiniteSet
<1>4. IsFiniteSet(Roles)
  <2>1. \A p \in PointIds : IsFiniteSet(Elements(RolesOf(p)))
    BY SeqElements, CustomNames
  <2> QED BY <1>3, <2>1, FS_UNION DEF Roles
<1> QED BY <1>2, <1>4, FS_Union DEF Funcs

----------------------------------------------------------------------------
(* The backend. *)

\* The assumption of the backend, and its invariant, as HookBackendProofs has them.
LEMMA BackendNames ==
  /\ P!IsFiniteSet(Funcs) /\ P!OneBackend
  /\ None \notin Funcs \cup Slices \cup ({Agent} \X Funcs)
  /\ HB!BackendInv <=> P!BackendInv
<1>1. P!IsFiniteSet(Funcs)
  BY FuncsFinite DEF IsFiniteSet, P!IsFiniteSet
<1>2. \A S : HB!Cardinality(S) = P!Cardinality(S)
  BY DEF HB!Cardinality, P!Cardinality
<1>3. HB!TypeOK <=> P!TypeOK
  BY DEF HB!TypeOK, P!TypeOK
<1>4. HB!LeasesCounted <=> P!LeasesCounted
  BY <1>2 DEF HB!LeasesCounted, P!LeasesCounted
<1>5. HB!GuardedIsPending <=> P!GuardedIsPending
  BY DEF HB!GuardedIsPending, P!GuardedIsPending
<1>6. HB!ContextsMatchEntries <=> P!ContextsMatchEntries
  BY DEF HB!ContextsMatchEntries, P!ContextsMatchEntries
<1>7. HB!BackendInv <=> P!BackendInv
  BY <1>3, <1>4, <1>5, <1>6 DEF HB!BackendInv, P!BackendInv
<1>8. P!OneBackend
  BY DEF P!OneBackend
<1> QED BY <1>1, <1>7, <1>8, WindowsHooksAssumption

LEMMA BackendStarts == HB!Init => HB!BackendInv
<1>1. HB!Init => P!Init
  BY DEF HB!Init, P!Init
<1> QED BY <1>1, BackendNames, P!BackendInit

LEMMA BackendSteps == HB!Next => P!Next
<1>1. ASSUME NEW x \in Funcs
      PROVE  /\ HB!Prepare(Agent, x) => P!Prepare(Agent, x)
             /\ HB!Activate(Agent, x) => P!Activate(Agent, x)
             /\ HB!Abandon(Agent, x) => P!Abandon(Agent, x)
             /\ HB!Uninstall(Agent, x) => P!Uninstall(Agent, x)
  BY DEF HB!Prepare, P!Prepare, HB!Activate, P!Activate, HB!Abandon, P!Abandon, HB!Uninstall,
         P!Uninstall, HB!Accepts, P!Accepts, HB!Write, P!Write, HB!FlushResults,
         P!FlushResults, HB!GiveBack, P!GiveBack, HB!Unlocked, P!Unlocked, HB!callers, P!callers
<1>2. HB!Flush(Agent) => P!Flush(Agent)
  BY DEF HB!Flush, P!Flush, HB!FlushResults, P!FlushResults, HB!Unlocked, P!Unlocked,
         HB!hoox, P!hoox, HB!callers, P!callers
<1>3. HB!Destroy(Agent) => P!Destroy(Agent)
  BY DEF HB!Destroy, P!Destroy, HB!FlushResults, P!FlushResults, HB!GiveBack, P!GiveBack,
         HB!Deinit, P!Deinit
<1>4. \A ended \in BOOLEAN : HB!Shutdown(Agent, ended) => P!Shutdown(Agent, ended)
  BY DEF HB!Shutdown, P!Shutdown, HB!FlushResults, P!FlushResults, HB!GiveBack, P!GiveBack,
         HB!Deinit, P!Deinit
<1>5. \A c \in Funcs : /\ HB!Acquire(Agent, c) => P!Acquire(Agent, c)
                       /\ HB!Release(Agent, c) => P!Release(Agent, c)
  BY DEF HB!Acquire, P!Acquire, HB!Release, P!Release, HB!Unlocked, P!Unlocked, HB!hoox, P!hoox
<1>6. ASSUME NEW x \in Funcs,
             HB!Prepare(Agent, x) \/ HB!Activate(Agent, x) \/ HB!Abandon(Agent, x) \/ HB!Uninstall(Agent, x)
      PROVE  P!Next
  <2>1. P!Prepare(Agent, x) \/ P!Activate(Agent, x) \/ P!Abandon(Agent, x) \/ P!Uninstall(Agent, x)
    BY <1>1, <1>6, Zenon
  <2> QED BY <2>1, Zenon DEF P!Next
<1>7. ASSUME HB!Flush(Agent) \/ HB!Destroy(Agent) PROVE P!Next
  <2>1. P!Flush(Agent) \/ P!Destroy(Agent)
    BY <1>2, <1>3, <1>7
  <2> QED BY <2>1, Zenon DEF P!Next
<1>8. ASSUME NEW ended \in BOOLEAN, HB!Shutdown(Agent, ended) PROVE P!Next
  <2>1. P!Shutdown(Agent, ended)
    BY <1>4, <1>8
  <2> QED BY <2>1, Zenon DEF P!Next
<1>9. ASSUME NEW c \in Funcs, HB!Acquire(Agent, c) \/ HB!Release(Agent, c) PROVE P!Next
  <2>1. P!Acquire(Agent, c) \/ P!Release(Agent, c)
    BY <1>5, <1>9
  <2> QED BY <2>1, Zenon DEF P!Next
<1> QED BY <1>6, <1>7, <1>8, <1>9, Zenon DEF HB!Next

\* A step of the backend keeps its invariant, and what a function that keeps its lease may call.
LEMMA BackendKept ==
  ASSUME HB!BackendInv, HB!Next \/ UNCHANGED backend
  PROVE  /\ HB!BackendInv'
         /\ \A c \in Funcs : c \in holders[Agent] /\ c \in holders'[Agent]
                             /\ HB!Callable(c, slot[c], c) => HB!Callable(c, slot[c], c)'
<1>1. P!BackendInv /\ [P!Next]_(P!vars)
  BY BackendNames, BackendSteps DEF backend, P!vars, P!backend, P!hoox, P!callers
<1>2. P!BackendInv'
  BY <1>1, BackendNames, P!BackendStep
<1>3. HB!BackendInv'
  <2>1. (HB!BackendInv <=> P!BackendInv)'
    BY BackendNames, PTL
  <2> QED BY <1>2, <2>1
<1>4. ASSUME NEW c \in Funcs, c \in holders[Agent], c \in holders'[Agent], HB!Callable(c, slot[c], c)
      PROVE  HB!Callable(c, slot[c], c)'
  <2>1. P!Callable(c, slot[c], c)
    BY <1>4 DEF HB!Callable, P!Callable
  <2>2. P!Callable(c, slot[c], c)'
    BY <1>1, <1>2, <1>4, <2>1, BackendNames, P!SlotStaysCallable
  <2> QED BY <2>2 DEF HB!Callable, P!Callable
<1> QED BY <1>3, <1>4

\* What each step of the backend does to the state that the hooks look at.
LEMMA BackendEffects ==
  ASSUME HB!BackendInv
  PROVE  /\ jump \subseteq entries[Agent] /\ jump \subseteq Funcs /\ holders[Agent] \subseteq Funcs
         /\ \A x \in Funcs :
                /\ HB!Prepare(Agent, x) =>
                       /\ entries'[Agent] = entries[Agent] \cup {x} /\ HB!Callable(x, slot[x], x)'
                       /\ \A y \in Funcs : y # x => slot'[y] = slot[y]
                       /\ UNCHANGED <<jump, holders, interceptor>>
                /\ HB!Activate(Agent, x) =>
                       jump' = jump \cup {x} /\ UNCHANGED <<entries, holders, slot, interceptor>>
                /\ HB!Uninstall(Agent, x) =>
                       /\ entries'[Agent] = entries[Agent] \ {x} /\ jump' = jump \ {x}
                       /\ UNCHANGED <<holders, slot, interceptor>>
                /\ HB!Acquire(Agent, x) =>
                       /\ holders'[Agent] = holders[Agent] \cup {x} /\ x \notin holders[Agent]
                       /\ UNCHANGED <<entries, jump, slot, interceptor>>
                /\ HB!Release(Agent, x) =>
                       /\ holders'[Agent] = holders[Agent] \ {x}
                       /\ UNCHANGED <<entries, jump, slot, interceptor>>
         /\ HB!Flush(Agent) => UNCHANGED <<entries, jump, holders, slot, interceptor>>
         /\ HB!Destroy(Agent) =>
                /\ entries'[Agent] = {} /\ jump' = {} /\ UNCHANGED <<holders, slot>>
                /\ ~interceptor'[Agent]
         /\ \A ended \in BOOLEAN : HB!Shutdown(Agent, ended) =>
                /\ entries'[Agent] = {} /\ jump' = {} /\ UNCHANGED <<holders, slot>>
                /\ ended => holders[Agent] = {} /\ ~interceptor'[Agent]
                /\ interceptor'[Agent] => interceptor[Agent]
<1> USE DEF HB!BackendInv
<1>1. jump \subseteq entries[Agent] /\ jump \subseteq Funcs /\ holders[Agent] \subseteq Funcs
  BY WindowsHooksAssumption DEF HB!ContextsMatchEntries, HB!TypeOK
<1>2. ASSUME NEW x \in Funcs, HB!Prepare(Agent, x)
      PROVE  /\ entries'[Agent] = entries[Agent] \cup {x} /\ HB!Callable(x, slot[x], x)'
             /\ \A y \in Funcs : y # x => slot'[y] = slot[y]
             /\ UNCHANGED <<jump, holders, interceptor>>
  <2>1. /\ entries'[Agent] = entries[Agent] \cup {x} /\ UNCHANGED <<jump, holders, interceptor>>
        /\ \A y \in Funcs : y # x => slot'[y] = slot[y]
    BY <1>2 DEF HB!Prepare, HB!TypeOK
  <2>2. HB!Callable(x, slot[x], x)'
    BY <1>2 DEF HB!Prepare, HB!Write, HB!TypeOK, HB!Callable
  <2> QED BY <2>1, <2>2
<1>3. ASSUME NEW x \in Funcs, HB!Activate(Agent, x)
      PROVE  jump' = jump \cup {x} /\ UNCHANGED <<entries, holders, slot, interceptor>>
  BY <1>3 DEF HB!Activate, HB!callers
<1>4. ASSUME NEW x \in Funcs, HB!Uninstall(Agent, x)
      PROVE  /\ entries'[Agent] = entries[Agent] \ {x} /\ jump' = jump \ {x}
             /\ UNCHANGED <<holders, slot, interceptor>>
  BY <1>4 DEF HB!Uninstall, HB!GiveBack, HB!TypeOK
<1>5. ASSUME NEW x \in Funcs, HB!Acquire(Agent, x)
      PROVE  /\ holders'[Agent] = holders[Agent] \cup {x} /\ x \notin holders[Agent]
             /\ UNCHANGED <<entries, jump, slot, interceptor>>
  BY <1>5 DEF HB!Acquire, HB!hoox, HB!TypeOK
<1>6. ASSUME NEW x \in Funcs, HB!Release(Agent, x)
      PROVE  holders'[Agent] = holders[Agent] \ {x} /\ UNCHANGED <<entries, jump, slot, interceptor>>
  BY <1>6 DEF HB!Release, HB!hoox, HB!TypeOK
<1>7. HB!Flush(Agent) => UNCHANGED <<entries, jump, holders, slot, interceptor>>
  BY DEF HB!Flush, HB!hoox, HB!callers
<1>8. HB!Destroy(Agent) => /\ entries'[Agent] = {} /\ jump' = {} /\ UNCHANGED <<holders, slot>>
                           /\ ~interceptor'[Agent]
  BY <1>1 DEF HB!Destroy, HB!GiveBack, HB!TypeOK
<1>9. ASSUME NEW ended \in BOOLEAN, HB!Shutdown(Agent, ended)
      PROVE  /\ entries'[Agent] = {} /\ jump' = {} /\ UNCHANGED <<holders, slot>>
             /\ ended => holders[Agent] = {} /\ ~interceptor'[Agent]
             /\ interceptor'[Agent] => interceptor[Agent]
  <2>1. /\ entries'[Agent] = {} /\ jump' = {} /\ UNCHANGED <<holders, slot>>
        /\ ended => leases[Agent] = 0 /\ ~interceptor'[Agent]
        /\ interceptor'[Agent] => interceptor[Agent]
    BY <1>1, <1>9 DEF HB!Shutdown, HB!GiveBack, HB!FlushResults, HB!TypeOK
  <2>2. ASSUME leases[Agent] = 0 PROVE holders[Agent] = {}
    <3>1. HB!Cardinality(holders[Agent]) = 0
      BY <2>2 DEF HB!LeasesCounted
    <3>2. HB!Cardinality(holders[Agent]) = Cardinality(holders[Agent])
      BY DEF HB!Cardinality, Cardinality
    <3>3. IsFiniteSet(holders[Agent])
      BY <1>1, FuncsFinite, FS_Subset
    <3> QED BY <3>1, <3>2, <3>3, FS_EmptySet
  <2> QED BY <2>1, <2>2
<1> QED BY <1>1, <1>2, <1>3, <1>4, <1>5, <1>6, <1>7, <1>8, <1>9

----------------------------------------------------------------------------
(* The sequence after a step. *)

\* The steps p have taken the place of the first one.
Advanced(p) ==
  /\ todo' \in Seq(Steps) /\ Ordered(todo')
  /\ Elements(todo)' = Elements(p) \cup Elements(Tail(todo))
  /\ Elements(todo) = {Head(todo)} \cup Elements(Tail(todo))
  /\ \A u \in Elements(Tail(todo)) : Follows(Head(todo), u)
  /\ Head(todo) \in Steps

\* Steps that may stand anywhere but between the stores of an uninstallation.
Plain(s) == \/ s[1] \in {"uninstall", "flush", "custom", "close", "open", "original", "retire",
                         "customFinish", "flushCustom", "abandonPoints", "destroyCustom"}
            \/ s[1] = "destroy" /\ s[2] = Agent

LEMMA Pushed ==
  ASSUME TypeOK, Ordered(todo), todo # << >>, NEW p \in Seq(Steps), Ordered(p),
         \A s \in Elements(p), u \in Elements(Tail(todo)) : Follows(Head(todo), u) => Follows(s, u),
         todo' = p \o Tail(todo)
  PROVE  Advanced(p)
<1>1. todo \in Seq(Steps)
  BY DEF TypeOK
<1>2. /\ Tail(todo) \in Seq(Steps) /\ Ordered(Tail(todo)) /\ Head(todo) \in Steps
      /\ Elements(todo) = {Head(todo)} \cup Elements(Tail(todo))
      /\ \A u \in Elements(Tail(todo)) : Follows(Head(todo), u)
  BY <1>1, Rests
<1>3. todo' \in Seq(Steps) /\ Elements(todo') = Elements(p) \cup Elements(Tail(todo))
  <2>1. /\ p \o Tail(todo) \in Seq(Steps)
        /\ Elements(p \o Tail(todo)) = Elements(p) \cup Elements(Tail(todo))
    <3>1. \A q \in Seq(Steps) : p \o q \in Seq(Steps) /\ Elements(p \o q) = Elements(p) \cup Elements(q)
      BY ElementsOfConcat
    <3> QED BY <1>2, <3>1
  <2> QED BY <2>1
<1>4. Ordered(todo')
  BY <1>2, OrderedConcat
<1>5. Elements(todo)' = Elements(todo')
  BY DEF Elements
<1> QED BY <1>2, <1>3, <1>4, <1>5 DEF Advanced

LEMMA PlainFollows ==
  /\ Agent # None
  /\ \A s, u : Plain(s) /\ (Plain(u) \/ Final(u) \/ u[1] \in {"members", "queue"}) => Follows(s, u)
  /\ \A s, u : Final(s) /\ Plain(u) /\ u[1] # "uninstall" => Follows(s, u)
  /\ \A h, s, u : Follows(h, u) /\ h[1] \notin Inner /\ Plain(s) => Follows(s, u)
<1>1. Agent # None
  BY WindowsHooksAssumption
<1>2. \A s, u : Plain(s) /\ (Plain(u) \/ Final(u) \/ u[1] \in {"members", "queue"}) => Follows(s, u)
  BY <1>1 DEF Plain, Final, Follows, Foremost, Inner, Installs
<1>3. \A s, u : Final(s) /\ Plain(u) /\ u[1] # "uninstall" => Follows(s, u)
  BY <1>1 DEF Plain, Final, Follows, Foremost, Inner, Installs
<1>4. \A h, s, u : Follows(h, u) /\ h[1] \notin Inner /\ Plain(s) => Follows(s, u)
  BY <1>1 DEF Plain, Final, Follows, Foremost, Inner, Installs
<1> QED BY <1>1, <1>2, <1>3, <1>4

LEMMA PlainOrdered ==
  ASSUME NEW p, \A s \in Elements(p) : Plain(s)
  PROVE  Ordered(p)
<1>1. \A i \in 1 .. Len(p) : Plain(p[i])
  BY DEF Elements
<1>2. \A i, j \in 1 .. Len(p) : Follows(p[i], p[j])
  BY <1>1, PlainFollows
<1> QED BY <1>2 DEF Ordered

LEMMA PushPlain ==
  ASSUME TypeOK, Ordered(todo), todo # << >>, Head(todo)[1] \notin Inner, NEW p \in Seq(Steps),
         \A s \in Elements(p) : Plain(s), todo' = p \o Tail(todo)
  PROVE  Advanced(p)
<1>1. Ordered(p)
  BY PlainOrdered
<1>2. \A s \in Elements(p), u \in Elements(Tail(todo)) : Follows(Head(todo), u) => Follows(s, u)
  BY PlainFollows
<1> QED BY <1>1, <1>2, Pushed

LEMMA PushNone ==
  ASSUME TypeOK, Ordered(todo), todo # << >>, todo' = << >> \o Tail(todo)
  PROVE  Advanced(<< >>) /\ Elements(todo)' = Elements(Tail(todo))
<1>1. << >> \in Seq(Steps) /\ Elements(<< >>) = {} /\ Ordered(<< >>)
  BY DEF Elements, Ordered
<1>2. Advanced(<< >>)
  BY <1>1, Pushed
<1> QED BY <1>1, <1>2 DEF Advanced

LEMMA PushOne ==
  ASSUME TypeOK, Ordered(todo), todo # << >>, NEW s \in Steps, todo' = << s >> \o Tail(todo),
         \A u \in Elements(Tail(todo)) : Follows(Head(todo), u) => Follows(s, u)
  PROVE  Advanced(<< s >>) /\ Elements(todo)' = {s} \cup Elements(Tail(todo))
<1>1. << s >> \in Seq(Steps) /\ Elements(<< s >>) = {s} /\ Ordered(<< s >>)
  BY ElementsOfFew
<1>2. Advanced(<< s >>)
  BY <1>1, Pushed
<1> QED BY <1>1, <1>2 DEF Advanced

----------------------------------------------------------------------------
(* The calls. *)

\* What the function c needs to be called is not taken away.
Keeps(c) ==
  /\ c \in leased => c \in leased'
  /\ slot'[c] = slot[c]
  /\ c \in Builtin => /\ alive[ObjectOf(c)] => alive'[ObjectOf(c)]
                      /\ active[ObjectOf(c)] => active'[ObjectOf(c)]

LEMMA KeptByBackend ==
  ASSUME TypeOK, HB!Next \/ UNCHANGED backend, leased' = holders'[Agent]
  PROVE  HB!BackendInv' /\ \A c \in Funcs : Guarded(c) /\ c \in leased' => Guarded(c)'
<1>1. HB!BackendInv /\ leased = holders[Agent]
  BY DEF TypeOK
<1>2. HB!BackendInv'
  BY <1>1, BackendKept
<1>3. ASSUME NEW c \in Funcs, Guarded(c), c \in leased' PROVE Guarded(c)'
  <2>1. c \in holders[Agent] /\ c \in holders'[Agent] /\ HB!Callable(c, slot[c], c)
    BY <1>1, <1>3 DEF Guarded
  <2>2. HB!Callable(c, slot[c], c)'
    BY <1>1, <2>1, BackendKept
  <2> QED BY <1>3, <2>2 DEF Guarded
<1> QED BY <1>2, <1>3

\* The functions that can be seen, and the calls, belong to the model.
LEMMA CallsKnown ==
  ASSUME TypeOK
  PROVE  /\ \A f \in Calls : f.c \in Funcs /\ f.life \in Lives /\ Seen(f.c)
         /\ Routed \subseteq Calls
<1>1. frames \in [Threads -> Calling \cup {None}]
  BY DEF TypeOK
<1>2. ASSUME NEW f \in Calls PROVE f \in Calling
  BY <1>1 DEF Calls
<1>3. \A f \in Calling : f.c \in Funcs /\ f.life \in Lives
  BY DEF Calling
<1>4. \A f \in Calls : Seen(f.c)
  BY DEF Seen
<1> QED BY <1>2, <1>3, <1>4 DEF Routed

LEMMA CallsStay ==
  ASSUME HookInv, frames' = frames, jump' \subseteq Funcs,
         \A c \in Funcs : Guarded(c) /\ c \in leased' /\ slot'[c] = slot[c] => Guarded(c)',
         \A c \in jump' : \/ c \in jump /\ thunk'[c] = thunk[c]
                          \/ /\ thunk'[c] = Lifecycle(c) /\ Backed(c)'
                             /\ c \in Roles \/ state'[ObjectOf(c)] # "inactive",
         \A c \in Funcs : Seen(c) =>
             /\ InUse(c)' => InUse(c) /\ Keeps(c)
             /\ IF c \in Roles THEN slot'[c] # None ELSE state'[ObjectOf(c)] # "inactive",
         \A f \in Routed : \/ f.life \in PointIds /\ point'[f.life] = "failed"
                           \/ ~RolledPoint(f) /\ Keeps(f.c)
  PROVE  JumpsLead' /\ RoutesBacked' /\ CallsBacked'
<1>1. /\ TypeOK /\ JumpsLead /\ RoutesBacked /\ CallsBacked
  BY DEF HookInv
<1>2. Calls' = Calls /\ Routed' = Routed
  BY DEF Calls, Routed
<1>3. ASSUME NEW c \in Funcs, Backed(c), Keeps(c) PROVE Backed(c)'
  <2>1. Guarded(c) /\ c \in leased' /\ slot'[c] = slot[c]
    BY <1>3 DEF Backed, Guarded, Keeps
  <2>2. Guarded(c)'
    BY <2>1
  <2>3. c \in Builtin => alive'[ObjectOf(c)] /\ active'[ObjectOf(c)]
    BY <1>3 DEF Backed, Keeps
  <2> QED BY <2>2, <2>3 DEF Backed
<1>4. JumpsLead'
  <2>1. \A c \in jump' : thunk'[c] = Lifecycle(c)
    BY <1>1 DEF JumpsLead
  <2>2. \A f \in Calls : f.life = Lifecycle(f.c)
    BY <1>1 DEF JumpsLead
  <2> QED BY <1>2, <2>1, <2>2 DEF JumpsLead, Lifecycle
<1>5. ASSUME NEW c \in Funcs, Seen(c)'
      PROVE  /\ InUse(c)' => Backed(c)'
             /\ IF c \in Roles THEN slot'[c] # None ELSE state'[ObjectOf(c)] # "inactive"
  <2>1. CASE Seen(c)
    <3>1. ASSUME InUse(c)' PROVE Backed(c)'
      <4>1. InUse(c) /\ Keeps(c)
        BY <2>1, <3>1
      <4>2. Backed(c)
        BY <1>1, <2>1, <4>1 DEF RoutesBacked
      <4> QED BY <1>3, <4>1, <4>2
    <3> QED BY <2>1, <3>1
  <2>2. CASE ~Seen(c)
    <3>1. c \in jump' /\ c \notin jump
      BY <1>2, <1>5, <2>2 DEF Seen
    <3>2. Backed(c)' /\ (c \in Roles \/ state'[ObjectOf(c)] # "inactive")
      BY <3>1
    <3>3. slot'[c] # None
      BY <3>2, WindowsHooksAssumption DEF Backed, Guarded, HB!Callable
    <3> QED BY <3>2, <3>3
  <2> QED BY <2>1, <2>2
<1>6. RoutesBacked'
  BY <1>5 DEF RoutesBacked
<1>7. ASSUME NEW f \in Routed, ~(f.life \in PointIds /\ point'[f.life] = "failed")
      PROVE  Backed(f.c)' /\ (f.at = "calling" => f.orig = slot'[f.c])
  <2>1. ~RolledPoint(f) /\ Keeps(f.c) /\ f.c \in Funcs
    BY <1>1, <1>7, CallsKnown
  <2>2. Backed(f.c) /\ (f.at = "calling" => f.orig = slot[f.c])
    BY <1>1, <2>1 DEF CallsBacked
  <2> QED BY <1>3, <2>1, <2>2 DEF Keeps
<1>8. CallsBacked'
  BY <1>2, <1>7 DEF CallsBacked, RolledPoint
<1> QED BY <1>4, <1>6, <1>8

----------------------------------------------------------------------------
(* What is left of the invariant when the calls are settled. *)

\* A step of the installation.
LEMMA StartingStep ==
  ASSUME HookInv, phase = "starting", phase' = "starting", TypeOK', Ordered(todo'),
         \A s \in Elements(todo)' : s[1] \in Starting,
         UNCHANGED <<quiescent, flushed, queue, alive>>,
         \A o \in Objects : state'[o] \in {"inactive", "installed"},
         \A p \in PointIds : point'[p] \in {"declared", "installed", "failed"},
         JumpsLead', RoutesBacked', CallsBacked', InstallFits'
  PROVE  HookInv'
<1>1. quiescent = {} /\ queue /\ (\A o \in Objects : alive[o]) /\ TeardownFits
  BY DEF HookInv, PhaseFits
<1>2. PhaseFits'
  BY <1>1 DEF PhaseFits
<1>3. ASSUME NEW s \in Elements(todo)'
      PROVE  s[1] \notin {"finish", "abandon", "destroyHook", "queue", "members"}
  BY DEF Starting
<1>4. \A x, step : step \in {"finish", "abandon", "destroyHook", "queue", "members"} => ~Due(step, x)'
  BY <1>3 DEF Due
<1>5. TeardownFits'
  <2>1. \A o \in Objects : /\ ~Due("finish", o)' /\ ~Due("abandon", o)' /\ state'[o] # "pending"
                           /\ o \in flushed' => LivesOf(o) \subseteq quiescent'
    BY <1>1, <1>4 DEF TeardownFits
  <2>2. \A c \in Builtin : state'[ObjectOf(c)] # "pending"
    BY Names
  <2>3. \A p \in PointIds : point'[p] # "pending"
    OBVIOUS
  <2> QED BY <1>1, <2>1, <2>2, <2>3 DEF TeardownFits
<1>6. AbandonedOnce'
  <2>1. \A c \in Builtin : state'[ObjectOf(c)] # "retired"
    BY Names
  <2> QED BY <2>1 DEF AbandonedOnce
<1>7. QueueFits'
  BY <1>1, <1>4 DEF QueueFits
<1> QED BY <1>2, <1>5, <1>6, <1>7 DEF HookInv

\* A step after which nothing is being installed.
LEMMA LaterStep ==
  ASSUME phase' # "starting", TypeOK', Ordered(todo'),
         \A s \in Elements(todo)' : s[1] \notin Starting,
         phase' = "capturing" => todo' = << >>,
         phase' = "finalized" => jump' = {} /\ leased' = {} /\ ~interceptor'[Agent],
         JumpsLead', RoutesBacked', CallsBacked', TeardownFits', AbandonedOnce', QueueFits'
  PROVE  HookInv'
<1>1. PhaseFits'
  BY DEF PhaseFits
<1>2. \A x, step : step \in Starting => ~Due(step, x)'
  BY DEF Due
<1>3. \A s \in Elements(todo)', p \in PointIds : ~Installs(s, p)
  BY DEF Installs, Starting
<1>4. InstallFits'
  <2>1. \A x : /\ ~Due("patch", x)' /\ ~Due("activate", x)' /\ ~Due("role", x)'
               /\ ~Due("activateRole", x)' /\ ~Due("revertRole", x)' /\ ~Due("dropLease", x)'
    BY <1>2 DEF Starting
  <2> QED BY <1>3, <2>1 DEF InstallFits, Installs
<1> QED BY <1>1, <1>4 DEF HookInv

\* A step of neither an installation nor a destruction.
Inert(s) == s[1] \notin Starting \cup {"queue", "abandon", "destroyHook"} /\ ~Final(s)

LEMMA StopStep ==
  ASSUME HookInv, todo # << >>, Head(todo)[1] \notin Starting, TypeOK', Ordered(todo'),
         \A s \in Elements(todo)' : Inert(s) \/ s \in Elements(todo),
         phase' \in {phase, "abandoned"}, queue' = queue, done' => done, frames' = frames,
         JumpsLead', RoutesBacked', CallsBacked', TeardownFits',
         \A l \in Lives : route'[l] = "record" => route[l] = "record",
         jump' \subseteq jump, leased' \subseteq leased, interceptor'[Agent] => interceptor[Agent],
         \A c \in Builtin : state'[ObjectOf(c)] = "retired" /\ c \in leased' =>
             \/ state[ObjectOf(c)] = "retired"
             \/ /\ Head(todo)[1] = "abandon" /\ Head(todo)[2] = ObjectOf(c)
                /\ \A s \in Elements(todo)' : Inert(s) \/ Follows(Head(todo), s)
  PROVE  HookInv'
<1>1. /\ TypeOK /\ Ordered(todo) /\ PhaseFits /\ AbandonedOnce /\ QueueFits
  BY DEF HookInv
<1>2. Head(todo) \in Elements(todo)
  BY <1>1, Rests DEF TypeOK
<1>3. phase \notin {"starting", "capturing"}
  BY <1>1, <1>2 DEF PhaseFits
<1>4. \A s \in Elements(todo)' : s[1] \notin Starting
  BY <1>1, <1>3 DEF PhaseFits, Inert
<1>5. AbandonedOnce'
  <2> SUFFICES ASSUME NEW c \in Builtin, state'[ObjectOf(c)] = "retired", c \in leased'
               PROVE  /\ ~Due("abandon", ObjectOf(c))' /\ ~Due("destroyHook", ObjectOf(c))'
                      /\ \A s \in Elements(todo)' : ~Final(s)
    BY <1>3 DEF AbandonedOnce, Final
  <2>1. CASE state[ObjectOf(c)] = "retired"
    <3>1. /\ ~Due("abandon", ObjectOf(c)) /\ ~Due("destroyHook", ObjectOf(c))
          /\ \A s \in Elements(todo) : ~Final(s)
      BY <1>1, <2>1 DEF AbandonedOnce
    <3> QED BY <3>1 DEF Due, Inert
  <2>2. CASE /\ Head(todo)[1] = "abandon" /\ Head(todo)[2] = ObjectOf(c)
             /\ \A s \in Elements(todo)' : Inert(s) \/ Follows(Head(todo), s)
    <3>1. ASSUME NEW s \in Elements(todo)'
          PROVE  /\ ~Final(s)
                 /\ ~(s[1] \in {"abandon", "destroyHook"} /\ s[2] = ObjectOf(c))
      BY <2>2 DEF Inert, Follows
    <3> QED BY <3>1 DEF Due
  <2> QED BY <2>1, <2>2
<1>6. QueueFits'
  <2>1. Recording' => Recording
    BY DEF Recording, Counted, Inside
  <2>2. \A step : step \in {"queue", "members"} => (Due(step, None)' => Due(step, None))
    BY DEF Due, Inert, Final
  <2> QED BY <1>1, <2>1, <2>2 DEF QueueFits
<1>7. phase' = "finalized" => jump' = {} /\ leased' = {} /\ ~interceptor'[Agent]
  BY <1>1 DEF PhaseFits
<1> QED BY <1>3, <1>4, <1>5, <1>6, <1>7, LaterStep

\* In front of anything but the stores of an uninstallation, none is under way.
LEMMA NoneInner ==
  ASSUME HookInv, todo = << >> \/ Head(todo)[1] \notin Inner
  PROVE  /\ \A s \in Elements(todo) : s[1] \notin Inner
         /\ todo # << >> => \A s \in Elements(Tail(todo)) : s[1] # "finish"
         /\ \A o \in Objects : state[o] = "pending" => \A l \in LivesOf(o) : route[l] = "target"
         /\ \A c \in Builtin : state[ObjectOf(c)] = "pending" => c \notin entries[Agent]
         /\ \A p \in PointIds : point[p] = "pending" => route[p] = "target"
<1>1. TypeOK /\ Ordered(todo) /\ TeardownFits
  BY DEF HookInv
<1>2. CASE todo = << >>
  <2>1. Elements(todo) = {}
    BY <1>2 DEF Elements
  <2> QED BY <1>1, <1>2, <2>1 DEF TeardownFits, Due
<1>3. CASE todo # << >>
  <2>1. /\ Elements(todo) = {Head(todo)} \cup Elements(Tail(todo))
        /\ \A u \in Elements(Tail(todo)) : Follows(Head(todo), u)
    BY <1>1, <1>3, Rests DEF TypeOK
  <2>2. \A u \in Elements(Tail(todo)) : u[1] \notin Inner /\ u[1] # "finish"
    BY <1>3, <2>1 DEF Follows
  <2>3. \A s \in Elements(todo) : s[1] \notin Inner
    BY <1>3, <2>1, <2>2
  <2>4. \A x, step : step \in Inner => ~Due(step, x)
    BY <2>3 DEF Due
  <2>5. \A x : ~Due("revert", x) /\ ~Due("target", x) /\ ~Due("targetPoint", x)
    BY <2>4 DEF Inner
  <2> QED BY <1>1, <2>2, <2>3, <2>5 DEF TeardownFits
<1> QED BY <1>2, <1>3

LEMMA TeardownStays ==
  ASSUME HookInv, todo = << >> \/ Head(todo)[1] \notin Inner,
         \A o \in Objects :
             /\ Due("finish", o)' => state'[o] = "pending"
             /\ state'[o] = "pending" =>
                    state[o] = "pending" /\ \A l \in LivesOf(o) : route[l] = "target" => route'[l] = "target"
             /\ state'[o] = "installed" /\ Due("abandon", o)' => Due("uninstall", o)'
             /\ o \in flushed' => o \in flushed \/ LivesOf(o) \subseteq quiescent,
         quiescent \subseteq quiescent',
         entries'[Agent] \subseteq entries[Agent],
         \A p \in PointIds : point'[p] = "pending" =>
             point[p] = "pending" /\ (route[p] = "target" => route'[p] = "target"),
         \A l \in quiescent' : l \in quiescent \/ Held(l) = {},
         leased' \subseteq leased
  PROVE  TeardownFits'
<1>1. TeardownFits
  BY DEF HookInv
<1>2. ASSUME NEW o \in Objects
      PROVE  /\ Due("finish", o)' => state'[o] = "pending"
             /\ ~(state'[o] = "pending" /\ \E l \in LivesOf(o) : route'[l] # "target")
             /\ state'[o] = "installed" /\ Due("abandon", o)' => Due("uninstall", o)'
             /\ o \in flushed' => LivesOf(o) \subseteq quiescent'
  BY <1>1, NoneInner DEF TeardownFits
<1>3. \A c \in Builtin : ~(state'[ObjectOf(c)] = "pending" /\ c \in entries'[Agent])
  BY NoneInner, Names
<1>4. \A p \in PointIds : ~(point'[p] = "pending" /\ route'[p] # "target")
  BY NoneInner
<1>5. \A l \in quiescent' : Held(l)' = {}
  BY <1>1 DEF TeardownFits, Held
<1> QED BY <1>2, <1>3, <1>4, <1>5 DEF TeardownFits

\* A step that changes neither hooks nor calls.
LEMMA QuietCalls ==
  ASSUME HookInv, UNCHANGED <<backend, objects, custom, thunk, route, frames>>
  PROVE  JumpsLead' /\ RoutesBacked' /\ CallsBacked' /\ HB!BackendInv'
<1>1. /\ interceptor' = interceptor /\ jump' = jump /\ original' = original /\ contents' = contents
      /\ slot' = slot /\ guard' = guard /\ holders' = holders /\ UNCHANGED backend
  BY DEF backend
<1>2. state' = state /\ active' = active /\ alive' = alive /\ leased' = leased /\ point' = point
  BY DEF objects, custom
<1>3. TypeOK /\ JumpsLead /\ RoutesBacked /\ CallsBacked
  BY DEF HookInv
<1>4. HB!BackendInv'
  BY <1>1, <1>2, <1>3, KeptByBackend DEF TypeOK
<1>5. Calls' = Calls /\ Routed' = Routed
  BY DEF Calls, Routed
<1>6. ASSUME NEW c
      PROVE  /\ Seen(c)' <=> Seen(c)
             /\ Backed(c)' <=> Backed(c)
             /\ InUse(c)' <=> InUse(c)
  BY <1>1, <1>2, <1>5 DEF Seen, Backed, Guarded, HB!Callable, InUse
<1>7. JumpsLead'
  BY <1>1, <1>3, <1>5 DEF JumpsLead, Lifecycle
<1>8. RoutesBacked'
  BY <1>1, <1>2, <1>3, <1>6 DEF RoutesBacked
<1>9. CallsBacked'
  BY <1>1, <1>2, <1>3, <1>5, <1>6 DEF CallsBacked, RolledPoint
<1> QED BY <1>4, <1>7, <1>8, <1>9

----------------------------------------------------------------------------
(* The sequences the control thread works through. *)

LEMMA StepsOf ==
  \A step \in Kinds, x \in Named, d \in {"now", "late"} :
      Step(step, x, d) = <<step, x, d>> /\ <<step, x, d>> \in Steps
BY DEF Step, Steps

LEMMA KnownKinds ==
  /\ "close" \in Kinds /\ "original" \in Kinds /\ "open" \in Kinds /\ "uninstall" \in Kinds
  /\ "flush" \in Kinds /\ "finish" \in Kinds /\ "custom" \in Kinds /\ "retire" \in Kinds
  /\ "customFinish" \in Kinds /\ "finalize" \in Kinds /\ "drained" \in Kinds /\ "destroy" \in Kinds
  /\ "attempt" \in Kinds /\ "members" \in Kinds /\ "destroyCustom" \in Kinds
  /\ "flushCustom" \in Kinds /\ "abandonPoints" \in Kinds /\ "destroyHook" \in Kinds
  /\ "abandon" \in Kinds /\ "queue" \in Kinds /\ "revert" \in Kinds /\ "target" \in Kinds
  /\ "revertRoleKept" \in Kinds /\ "targetPoint" \in Kinds /\ "arm" \in Kinds /\ "patch" \in Kinds
  /\ "activate" \in Kinds /\ "point" \in Kinds /\ "lease" \in Kinds /\ "role" \in Kinds
  /\ "activateRole" \in Kinds /\ "live" \in Kinds /\ "begin" \in Kinds /\ "revertRole" \in Kinds
  /\ "dropLease" \in Kinds /\ "rolled" \in Kinds
BY DEF Kinds, Starting, Inner

LEMMA EachStep ==
  ASSUME NEW s, s \in Seq(Elements(s)), Elements(s) \subseteq Named, NEW step \in Kinds,
         NEW d \in {"now", "late"}
  PROVE  /\ ForEach(step, s, d) \in Seq(Steps)
         /\ \A u \in Elements(ForEach(step, s, d)) : u[1] = step /\ u[2] \in Elements(s) /\ u[3] = d
         /\ \A x \in Elements(s) : <<step, x, d>> \in Elements(ForEach(step, s, d))
<1>1. \A x \in Elements(s) : <<step, x, d>> \in Steps
  BY StepsOf
<1>2. ForEach(step, s, d) \in Seq(Steps)
  BY <1>1, EachIsSeq
<1>3. Elements(ForEach(step, s, d)) = {<<step, x, d>> : x \in Elements(s)}
  BY ElementsOfEach
<1> QED BY <1>2, <1>3

LEMMA TwoSteps ==
  /\ \A x, y \in Steps : /\ << x, y >> \in Seq(Steps) /\ Elements(<< x, y >>) = {x, y}
                         /\ Follows(x, y) => Ordered(<< x, y >>)
  /\ \A x \in Steps : << x >> \in Seq(Steps) /\ Elements(<< x >>) = {x} /\ Ordered(<< x >>)
<1>1. ASSUME NEW x \in Steps, NEW y \in Steps
      PROVE  /\ << x, y >> \in Seq(Steps) /\ Elements(<< x, y >>) = {x, y}
             /\ Follows(x, y) => Ordered(<< x, y >>)
  <2>1. << x, y >> \in Seq(Steps)
    OBVIOUS
  <2>2. Elements(<< x, y >>) = {x, y}
    BY DEF Elements
  <2>3. Follows(x, y) => Ordered(<< x, y >>)
    BY ElementsOfFew
  <2> QED BY <2>1, <2>2, <2>3
<1>2. ASSUME NEW x \in Steps
      PROVE  << x >> \in Seq(Steps) /\ Elements(<< x >>) = {x} /\ Ordered(<< x >>)
  BY ElementsOfFew
<1> QED BY <1>1, <1>2

\* The sequences of names.
LEMMA NameSeqs ==
  /\ \A s \in {RtlHooks, Reverse(RtlHooks), VmChannels, VmSeq, CustomSeq, PointSeq} :
         s \in Seq(Elements(s)) /\ Elements(s) \subseteq Named
  /\ Elements(RtlHooks) \subseteq Objects /\ Elements(Reverse(RtlHooks)) = Elements(RtlHooks)
  /\ Elements(RtlHooks) \cup Elements(VmChannels) \subseteq Builtin /\ Vm \notin Elements(RtlHooks)
  /\ Elements(VmSeq) \subseteq Objects /\ Elements(VmSeq) \subseteq {Vm} /\ Elements(PointSeq) = PointIds
  /\ Elements(CustomSeq) \subseteq {None} /\ Declares(Reverse(RtlHooks))
  /\ \A o \in Objects : /\ Channels(o) \in Seq(Elements(Channels(o)))
                        /\ Elements(Channels(o)) \subseteq Named
  /\ \A p \in PointIds : /\ RolesOf(p) \in Seq(Elements(RolesOf(p)))
                         /\ Elements(RolesOf(p)) \subseteq Named
<1>1. Declares(RtlHooks) /\ Declares(VmChannels) /\ Declares(PointSeq) /\ Vm \notin Elements(RtlHooks)
  BY WindowsHooksAssumption
<1>2. Declares(Reverse(RtlHooks)) /\ Elements(Reverse(RtlHooks)) = Elements(RtlHooks)
  BY <1>1, ReverseDeclares
<1>3. /\ Elements(RtlHooks) \subseteq Objects
      /\ Elements(RtlHooks) \cup Elements(VmChannels) \subseteq Builtin
  BY BuiltinNames DEF Objects
<1>4. Elements(PointSeq) = PointIds
  BY DEF PointIds
<1>5. /\ << >> \in Seq({}) /\ Elements(<< >>) = {}
  BY ElementsOfFew DEF Elements
<1>6. /\ VmSeq \in Seq(Elements(VmSeq)) /\ Elements(VmSeq) \subseteq Objects
      /\ Elements(VmSeq) \subseteq {Vm}
  <2>1. << Vm >> \in Seq({Vm}) /\ Elements(<< Vm >>) = {Vm}
    BY ElementsOfFew
  <2> QED BY <1>5, <2>1, BuiltinNames DEF VmSeq
<1>7. CustomSeq \in Seq(Elements(CustomSeq)) /\ Elements(CustomSeq) \subseteq {None}
  <2>1. << None >> \in Seq({None}) /\ Elements(<< None >>) = {None}
    BY ElementsOfFew
  <2> QED BY <1>5, <2>1 DEF CustomSeq
<1>8. ASSUME NEW o \in Objects
      PROVE  Channels(o) \in Seq(Elements(Channels(o))) /\ Elements(Channels(o)) \subseteq Named
  BY BuiltinNames, SeqElements, Names DEF Named
<1>9. ASSUME NEW p \in PointIds
      PROVE  RolesOf(p) \in Seq(Elements(RolesOf(p))) /\ Elements(RolesOf(p)) \subseteq Named
  BY CustomNames, SeqElements, Names DEF Named
<1>10. \A s \in {RtlHooks, Reverse(RtlHooks), VmChannels, PointSeq} : s \in Seq(Elements(s))
  BY <1>1, <1>2, SeqElements
<1>11. /\ Elements(RtlHooks) \subseteq Named /\ Elements(VmChannels) \subseteq Named
       /\ Elements(VmSeq) \subseteq Named /\ Elements(CustomSeq) \subseteq Named
       /\ PointIds \subseteq Named
  BY <1>3, <1>6, <1>7 DEF Named, Funcs
<1> QED BY <1>1, <1>2, <1>3, <1>4, <1>6, <1>7, <1>8, <1>9, <1>10, <1>11

LEMMA TeardownPlans ==
  /\ \A d \in {"now", "late"} :
         /\ HeapUninstall(d) \in Seq(Steps)
         /\ \A s \in Elements(HeapUninstall(d)) :
                s[1] \in {"uninstall", "flush"} /\ s[2] \in Elements(RtlHooks)
  /\ CoordinatorUninstall \in Seq(Steps)
  /\ \A s \in Elements(CoordinatorUninstall) : s[1] \in {"uninstall", "flush", "custom"}
<1>1. ASSUME NEW d \in {"now", "late"}
      PROVE  /\ HeapUninstall(d) \in Seq(Steps)
             /\ \A s \in Elements(HeapUninstall(d)) :
                    s[1] \in {"uninstall", "flush"} /\ s[2] \in Elements(RtlHooks)
  <2> DEFINE a == ForEach("uninstall", RtlHooks, "now")
             b == ForEach("flush", Reverse(RtlHooks), d)
  <2>1. a \in Seq(Steps) /\ \A u \in Elements(a) : u[1] = "uninstall" /\ u[2] \in Elements(RtlHooks)
    <3>1. RtlHooks \in Seq(Elements(RtlHooks)) /\ Elements(RtlHooks) \subseteq Named
      BY NameSeqs
    <3> QED BY <3>1, EachStep, KnownKinds
  <2>2. b \in Seq(Steps) /\ \A u \in Elements(b) : u[1] = "flush" /\ u[2] \in Elements(RtlHooks)
    <3>1. /\ Reverse(RtlHooks) \in Seq(Elements(Reverse(RtlHooks)))
          /\ Elements(Reverse(RtlHooks)) \subseteq Named
          /\ Elements(Reverse(RtlHooks)) = Elements(RtlHooks)
      BY NameSeqs
    <3>2. "flush" \in Kinds
      BY KnownKinds
    <3>3. b \in Seq(Steps) /\ \A u \in Elements(b) : u[1] = "flush" /\ u[2] \in Elements(Reverse(RtlHooks))
      BY <3>1, <3>2, EachStep
    <3> QED BY <3>1, <3>3
  <2>3. HeapUninstall(d) = a \o b
    BY DEF HeapUninstall
  <2> HIDE DEF a, b
  <2>4. a \o b \in Seq(Steps) /\ Elements(a \o b) = Elements(a) \cup Elements(b)
    BY <2>1, <2>2, ElementsOfConcat
  <2> QED BY <2>1, <2>2, <2>3, <2>4
<1>2. ASSUME NEW d \in {"now", "late"}
      PROVE  /\ ForEach("custom", CustomSeq, d) \in Seq(Steps)
             /\ \A s \in Elements(ForEach("custom", CustomSeq, d)) : s[1] = "custom"
             /\ ForEach("uninstall", VmSeq, d) \in Seq(Steps)
             /\ \A s \in Elements(ForEach("uninstall", VmSeq, d)) : s[1] = "uninstall"
  <2>1. /\ CustomSeq \in Seq(Elements(CustomSeq)) /\ Elements(CustomSeq) \subseteq Named
        /\ VmSeq \in Seq(Elements(VmSeq)) /\ Elements(VmSeq) \subseteq Named
    BY NameSeqs
  <2>2. /\ ForEach("custom", CustomSeq, d) \in Seq(Steps)
        /\ \A s \in Elements(ForEach("custom", CustomSeq, d)) : s[1] = "custom"
    <3>1. "custom" \in Kinds
      BY KnownKinds
    <3> QED BY <2>1, <3>1, EachStep
  <2>3. /\ ForEach("uninstall", VmSeq, d) \in Seq(Steps)
        /\ \A s \in Elements(ForEach("uninstall", VmSeq, d)) : s[1] = "uninstall"
    BY <2>1, EachStep, KnownKinds
  <2> QED BY <2>2, <2>3
<1> DEFINE K == {"uninstall", "flush", "custom"}
           Good(q) == q \in Seq(Steps) /\ \A s \in Elements(q) : s[1] \in K
<1>3. ASSUME NEW q, NEW r, Good(q), Good(r) PROVE Good(q \o r)
  <2>1. q \o r \in Seq(Steps) /\ Elements(q \o r) = Elements(q) \cup Elements(r)
    BY <1>3, ElementsOfConcat
  <2> QED BY <1>3, <2>1
<1>4. \A d \in {"now", "late"} : /\ Good(HeapUninstall(d)) /\ Good(ForEach("custom", CustomSeq, d))
                                 /\ Good(ForEach("uninstall", VmSeq, d))
  BY <1>1, <1>2
<1> DEFINE a1 == ForEach("custom", CustomSeq, "now")
           a2 == ForEach("uninstall", VmSeq, "now")
           a3 == HeapUninstall("now")
           b1 == ForEach("custom", CustomSeq, "late")
           b2 == ForEach("uninstall", VmSeq, "late")
           b3 == HeapUninstall("late")
<1>5. Good(a1) /\ Good(a2) /\ Good(a3) /\ Good(b1) /\ Good(b2) /\ Good(b3)
  BY <1>4
<1>6. CoordinatorUninstall = a1 \o a2 \o a3 \o b1 \o b2 \o b3
  BY DEF CoordinatorUninstall
<1> HIDE DEF Good, a1, a2, a3, b1, b2, b3
<1>7. Good(a1 \o a2 \o a3 \o b1 \o b2 \o b3)
  <2>1. Good(a1 \o a2)
    BY <1>3, <1>5
  <2>2. Good(a1 \o a2 \o a3)
    BY <1>3, <1>5, <2>1
  <2>3. Good(a1 \o a2 \o a3 \o b1)
    BY <1>3, <1>5, <2>2
  <2>4. Good(a1 \o a2 \o a3 \o b1 \o b2)
    BY <1>3, <1>5, <2>3
  <2> QED BY <1>3, <1>5, <2>4
<1> QED BY <1>1, <1>6, <1>7 DEF Good

----------------------------------------------------------------------------
(* Steps that change neither hooks nor calls. *)

LEMMA QuietStep ==
  ASSUME HookInv, todo # << >>, Head(todo)[1] \notin Starting \cup Inner,
         UNCHANGED <<backend, objects, custom, thunk, route, queue, frames>>,
         phase' \in {phase, "abandoned"}, done' \in BOOLEAN, done' => done, NEW p, Advanced(p),
         \A s \in Elements(p) : Inert(s) /\ (s[1] = "finish" => state[s[2]] = "pending"),
         Head(todo)[1] = "uninstall" => state[Head(todo)[2]] # "installed"
  PROVE  HookInv'
<1>1. TypeOK /\ Ordered(todo) /\ TeardownFits
  BY DEF HookInv
<1>2. /\ Elements(todo)' = Elements(p) \cup Elements(Tail(todo))
      /\ Elements(todo) = {Head(todo)} \cup Elements(Tail(todo))
      /\ todo' \in Seq(Steps) /\ Ordered(todo')
  BY DEF Advanced
<1>3. JumpsLead' /\ RoutesBacked' /\ CallsBacked' /\ HB!BackendInv'
  BY QuietCalls
<1>4. /\ state' = state /\ active' = active /\ alive' = alive /\ quiescent' = quiescent
      /\ flushed' = flushed /\ leased' = leased /\ point' = point /\ holders' = holders
      /\ jump' = jump /\ interceptor' = interceptor /\ entries' = entries
      /\ thunk' = thunk /\ route' = route /\ queue' = queue /\ frames' = frames
  BY DEF backend, objects, custom
<1>5. TypeOK'
  BY <1>1, <1>2, <1>3, <1>4 DEF TypeOK
<1>6. ASSUME NEW o \in Objects
      PROVE  /\ Due("finish", o)' => state[o] = "pending"
             /\ state[o] = "installed" /\ Due("abandon", o)' => Due("uninstall", o)'
  <2>1. ASSUME Due("finish", o)' PROVE state[o] = "pending"
    BY <1>2, <2>1, NoneInner DEF Due
  <2>2. ASSUME state[o] = "installed", Due("abandon", o)' PROVE Due("uninstall", o)'
    <3>1. Due("abandon", o)
      BY <1>2, <2>2 DEF Due, Inert
    <3>2. PICK s \in Elements(todo) : s[1] = "uninstall" /\ s[2] = o
      BY <1>1, <2>2, <3>1 DEF TeardownFits, Due
    <3>3. s \in Elements(Tail(todo))
      BY <1>2, <2>2, <3>2
    <3> QED BY <1>2, <3>2, <3>3 DEF Due
  <2> QED BY <2>1, <2>2
<1>7. TeardownFits'
  BY <1>4, <1>6, TeardownStays
<1>8. \A s \in Elements(todo)' : Inert(s) \/ s \in Elements(todo)
  BY <1>2
<1>9. Head(todo)[1] \notin Starting
  OBVIOUS
<1> QED BY <1>2, <1>3, <1>4, <1>5, <1>7, <1>8, <1>9, StopStep

LEMMA Heading ==
  ASSUME HookInv, todo # << >>
  PROVE  /\ TypeOK /\ Ordered(todo) /\ Head(todo) \in Steps /\ Head(todo) \in Elements(todo)
         /\ Deadline \in {"now", "late"} /\ Head(todo)[2] \in Named
         /\ \A u \in Elements(Tail(todo)) : Follows(Head(todo), u) /\ u \in Elements(todo)
<1>1. TypeOK /\ Ordered(todo)
  BY DEF HookInv
<1>2. /\ Head(todo) \in Steps /\ Elements(todo) = {Head(todo)} \cup Elements(Tail(todo))
      /\ \A u \in Elements(Tail(todo)) : Follows(Head(todo), u)
  BY <1>1, Rests DEF TypeOK
<1>3. Deadline \in {"now", "late"} /\ Head(todo)[2] \in Named
  BY <1>2 DEF Deadline, Steps
<1> QED BY <1>1, <1>2, <1>3

\* Nothing is pushed.
LEMMA QuietNone ==
  ASSUME HookInv, todo # << >>, Head(todo)[1] \notin Starting \cup Inner,
         UNCHANGED <<backend, objects, custom, thunk, route, queue, frames>>,
         phase' \in {phase, "abandoned"}, done' \in BOOLEAN, done' => done, Push(<< >>),
         Head(todo)[1] = "uninstall" => state[Head(todo)[2]] # "installed"
  PROVE  HookInv'
<1>1. TypeOK /\ Ordered(todo)
  BY DEF HookInv
<1>2. Advanced(<< >>) /\ Elements(<< >>) = {}
  BY <1>1, PushNone DEF Push, Elements
<1> QED BY <1>2, QuietStep

\* One plain step is pushed, or the end of a teardown that is pending.
LEMMA QuietOne ==
  ASSUME HookInv, todo # << >>, Head(todo)[1] \notin Starting \cup Inner,
         UNCHANGED <<backend, objects, custom, thunk, route, queue, frames, phase, done>>,
         NEW s \in Steps, Push(<< s >>),
         (Plain(s) /\ Inert(s)) \/ (s[1] = "finish" /\ state[s[2]] = "pending"),
         Head(todo)[1] = "uninstall" => state[Head(todo)[2]] # "installed"
  PROVE  HookInv'
<1>1. TypeOK /\ Ordered(todo) /\ done \in BOOLEAN
  BY DEF HookInv, TypeOK
<1>2. ASSUME NEW u \in Elements(Tail(todo)), Follows(Head(todo), u) PROVE Follows(s, u)
  <2>1. CASE Plain(s)
    BY <1>2, <2>1, PlainFollows
  <2>2. CASE s[1] = "finish"
    BY <1>2, <2>2 DEF Follows, Inner, Final, Installs
  <2> QED BY <2>1, <2>2
<1>3. << s >> \in Seq(Steps) /\ Elements(<< s >>) = {s}
  BY ElementsOfFew
<1>4. Advanced(<< s >>)
  BY <1>1, <1>2, PushOne DEF Push
<1>5. Inert(s) /\ (s[1] = "finish" => state[s[2]] = "pending")
  BY DEF Inert, Plain, Final, Starting
<1> QED BY <1>1, <1>3, <1>4, <1>5, QuietStep

\* Several inert plain steps are pushed.
LEMMA QuietPlain ==
  ASSUME HookInv, todo # << >>, Head(todo)[1] \notin Starting \cup Inner \cup {"uninstall"},
         UNCHANGED <<backend, objects, custom, thunk, route, queue, frames, phase, done>>,
         NEW p \in Seq(Steps), Push(p), \A s \in Elements(p) : Plain(s) /\ Inert(s)
  PROVE  HookInv'
<1>1. TypeOK /\ Ordered(todo) /\ done \in BOOLEAN
  BY DEF HookInv, TypeOK
<1>2. Advanced(p)
  BY <1>1, PushPlain DEF Push
<1>3. \A s \in Elements(p) : Inert(s) /\ (s[1] = "finish" => state[s[2]] = "pending")
  BY <1>1 DEF Plain
<1> QED BY <1>1, <1>2, <1>3, QuietStep

LEMMA PlainInert ==
  \A s : s[1] \in {"uninstall", "flush", "custom", "close", "open", "original", "retire",
                   "customFinish", "flushCustom", "abandonPoints", "destroyCustom"} =>
             Plain(s) /\ Inert(s)
BY DEF Plain, Inert, Final, Starting

LEMMA FlushKeeps ==
  ASSUME HookInv, NEW o \in Objects, Flush(o)
  PROVE  HookInv'
<1>1. /\ todo # << >> /\ Head(todo)[1] = "flush" /\ Head(todo)[1] \notin Starting \cup Inner
      /\ UNCHANGED <<backend, objects, custom, thunk, route, queue, frames, phase, done>>
      /\ Push(IF state[o] = "pending" THEN << Step("finish", o, Deadline) >> ELSE << >>)
  BY DEF Flush, Doing, Starting, Inner
<1>2. <<"finish", o, Deadline>> \in Steps /\ Step("finish", o, Deadline) = <<"finish", o, Deadline>>
  BY <1>1, Heading, StepsOf, KnownKinds DEF Named
<1>3. done \in BOOLEAN
  BY DEF HookInv, TypeOK
<1>4. CASE state[o] = "pending"
  BY <1>1, <1>2, <1>4, QuietOne
<1>5. CASE state[o] # "pending"
  BY <1>1, <1>3, <1>5, QuietNone
<1> QED BY <1>4, <1>5

LEMMA GaveUp ==
  ASSUME HookInv, todo # << >>, Head(todo)[1] \in {"finish", "customFinish"}, GiveUp,
         UNCHANGED <<backend, objects, custom, thunk, route, queue, frames, phase>>
  PROVE  HookInv'
<1>1. done \in BOOLEAN
  BY DEF HookInv, TypeOK
<1>2. done' \in BOOLEAN /\ (done' => done) /\ Push(<< >>)
  BY <1>1 DEF GiveUp
<1>3. Head(todo)[1] \notin Starting \cup Inner /\ Head(todo)[1] # "uninstall"
  BY DEF Starting, Inner
<1> QED BY <1>2, <1>3, QuietNone

LEMMA GivesUpKeeps ==
  ASSUME HookInv,
         \/ \E o \in Objects : SettleExpires(o)
         \/ \E x \in Objects \cup {None} : EvacuationFails(x)
         \/ CustomExpires
  PROVE  HookInv'
<1>1. /\ todo # << >> /\ Head(todo)[1] \in {"finish", "customFinish"} /\ GiveUp
      /\ UNCHANGED <<backend, objects, custom, thunk, route, queue, frames, phase>>
  BY DEF SettleExpires, EvacuationFails, CustomExpires, Doing, FinishStep
<1> QED BY <1>1, GaveUp

LEMMA PopsKeep ==
  ASSUME HookInv, CloseGate \/ OpenGate \/ CustomFinish
  PROVE  HookInv'
<1>1. /\ todo # << >> /\ Head(todo)[1] \in {"close", "open", "customFinish"} /\ Push(<< >>)
      /\ UNCHANGED <<backend, objects, custom, thunk, route, queue, frames, phase, done>>
  BY DEF CloseGate, OpenGate, CustomFinish, Doing
<1>2. Head(todo)[1] \notin Starting \cup Inner /\ Head(todo)[1] # "uninstall"
  BY <1>1 DEF Starting, Inner
<1>3. done \in BOOLEAN
  BY DEF HookInv, TypeOK
<1> QED BY <1>1, <1>2, <1>3, QuietNone

LEMMA CustomUninstallKeeps ==
  ASSUME HookInv, CustomUninstall
  PROVE  HookInv'
<1> DEFINE a == ForEach("retire", PointSeq, Deadline)
           b == << Step("customFinish", None, Deadline) >>
<1>1. /\ todo # << >> /\ Head(todo)[1] = "custom" /\ Push(a \o b)
      /\ UNCHANGED <<backend, objects, custom, thunk, route, queue, frames, phase, done>>
  BY DEF CustomUninstall, Doing
<1>2. Head(todo)[1] \notin Starting \cup Inner \cup {"uninstall"}
  BY <1>1 DEF Starting, Inner
<1>3. Deadline \in {"now", "late"}
  BY <1>1, Heading
<1>4. a \in Seq(Steps) /\ \A u \in Elements(a) : u[1] = "retire"
  <2>1. PointSeq \in Seq(Elements(PointSeq)) /\ Elements(PointSeq) \subseteq Named
    BY NameSeqs
  <2> QED BY <1>3, <2>1, EachStep, KnownKinds
<1>5. b \in Seq(Steps) /\ \A u \in Elements(b) : u[1] = "customFinish"
  <2>1. /\ <<"customFinish", None, Deadline>> \in Steps
        /\ Step("customFinish", None, Deadline) = <<"customFinish", None, Deadline>>
    BY <1>3, StepsOf, KnownKinds DEF Named
  <2>2. b \in Seq(Steps) /\ Elements(b) = {<<"customFinish", None, Deadline>>}
    BY <2>1, ElementsOfFew
  <2> QED BY <2>2
<1> HIDE DEF a, b
<1>6. a \o b \in Seq(Steps) /\ Elements(a \o b) = Elements(a) \cup Elements(b)
  BY <1>4, <1>5, ElementsOfConcat
<1>7. \A s \in Elements(a \o b) : Plain(s) /\ Inert(s)
  BY <1>4, <1>5, <1>6, PlainInert
<1> QED BY <1>1, <1>2, <1>6, <1>7, QuietPlain

LEMMA DestroyCustomKeeps ==
  ASSUME HookInv, DestroyCustom
  PROVE  HookInv'
<1> DEFINE a == IF \A p \in PointIds : Live(p) THEN << Step("custom", None, "late") >> ELSE << >>
           b == << Step("flushCustom", None, "late"), Step("abandonPoints", None, "late") >>
<1>1. /\ todo # << >> /\ Head(todo)[1] = "destroyCustom" /\ Push(a \o b)
      /\ UNCHANGED <<backend, objects, custom, thunk, route, queue, frames, phase, done>>
  BY DEF DestroyCustom, Doing
<1>2. Head(todo)[1] \notin Starting \cup Inner \cup {"uninstall"}
  BY <1>1 DEF Starting, Inner
<1>3. \A k \in Kinds : Step(k, None, "late") = <<k, None, "late">> /\ <<k, None, "late">> \in Steps
  BY StepsOf DEF Named
<1>4. a \in Seq(Steps) /\ \A u \in Elements(a) : u[1] = "custom"
  <2>1. << Step("custom", None, "late") >> \in Seq(Steps)
        /\ Elements(<< Step("custom", None, "late") >>) = {<<"custom", None, "late">>}
    BY <1>3, KnownKinds, ElementsOfFew
  <2>2. << >> \in Seq(Steps) /\ Elements(<< >>) = {}
    BY DEF Elements
  <2> QED BY <2>1, <2>2
<1>5. b \in Seq(Steps) /\ \A u \in Elements(b) : u[1] \in {"flushCustom", "abandonPoints"}
  <2>1. /\ <<"flushCustom", None, "late">> \in Steps /\ <<"abandonPoints", None, "late">> \in Steps
        /\ b = << <<"flushCustom", None, "late">>, <<"abandonPoints", None, "late">> >>
    BY <1>3, KnownKinds
  <2>3. b \in Seq(Steps) /\ Elements(b) = {<<"flushCustom", None, "late">>, <<"abandonPoints", None, "late">>}
    BY <2>1, TwoSteps
  <2> QED BY <2>3
<1> HIDE DEF a, b
<1>6. a \o b \in Seq(Steps) /\ Elements(a \o b) = Elements(a) \cup Elements(b)
  BY <1>4, <1>5, ElementsOfConcat
<1>7. \A s \in Elements(a \o b) : Plain(s) /\ Inert(s)
  BY <1>4, <1>5, <1>6, PlainInert
<1> QED BY <1>1, <1>2, <1>6, <1>7, QuietPlain

LEMMA FlushCustomKeeps ==
  ASSUME HookInv, FlushCustom
  PROVE  HookInv'
<1>1. /\ todo # << >> /\ Head(todo)[1] = "flushCustom" /\ Head(todo)[1] \notin Starting \cup Inner
      /\ UNCHANGED <<backend, objects, custom, thunk, route, queue, frames, phase, done>>
      /\ Push(<< >>) \/ Push(<< Step("customFinish", None, "late") >>)
  BY DEF FlushCustom, Doing, Starting, Inner
<1>2. /\ <<"customFinish", None, "late">> \in Steps
      /\ Step("customFinish", None, "late") = <<"customFinish", None, "late">>
  BY StepsOf, KnownKinds DEF Named
<1>3. done \in BOOLEAN /\ Plain(<<"customFinish", None, "late">>) /\ Inert(<<"customFinish", None, "late">>)
  BY PlainInert DEF HookInv, TypeOK
<1>4. CASE Push(<< Step("customFinish", None, "late") >>)
  BY <1>1, <1>2, <1>3, <1>4, QuietOne
<1>5. CASE Push(<< >>)
  BY <1>1, <1>3, <1>5, QuietNone
<1> QED BY <1>1, <1>4, <1>5

\* The uninstallation of an object that is not installed.
LEMMA UninstallAgainKeeps ==
  ASSUME HookInv, NEW o \in Objects, Uninstall(o), state[o] # "installed"
  PROVE  HookInv'
<1>1. /\ todo # << >> /\ Head(todo)[1] = "uninstall" /\ Head(todo)[2] = o
      /\ Head(todo)[1] \notin Starting \cup Inner
  BY DEF Uninstall, Doing, Starting, Inner
<1>2. state[o] \in {"inactive", "pending", "retired"} /\ done \in BOOLEAN
  BY DEF HookInv, TypeOK
<1>3. /\ UNCHANGED <<backend, objects, custom, thunk, route, queue, frames, phase, done>>
      /\ Push(<< >>) \/ (state[o] = "pending" /\ Push(<< Step("finish", o, Deadline) >>))
  BY <1>2 DEF Uninstall, objects
<1>4. <<"finish", o, Deadline>> \in Steps /\ Step("finish", o, Deadline) = <<"finish", o, Deadline>>
  BY <1>1, Heading, StepsOf, KnownKinds DEF Named
<1>5. CASE Push(<< >>)
  BY <1>1, <1>2, <1>3, <1>5, QuietNone
<1>6. CASE state[o] = "pending" /\ Push(<< Step("finish", o, Deadline) >>)
  BY <1>1, <1>3, <1>4, <1>6, QuietOne
<1> QED BY <1>3, <1>5, <1>6

\* A point that is not live is not retired.
LEMMA RetireAgainKeeps ==
  ASSUME HookInv, NEW p \in PointIds, RetirePoint(p), ~Live(p)
  PROVE  HookInv'
<1>1. /\ todo # << >> /\ Head(todo)[1] = "retire" /\ Push(<< >>)
      /\ Head(todo)[1] \notin Starting \cup Inner
      /\ UNCHANGED <<backend, objects, custom, thunk, route, queue, frames, phase, done>>
  BY DEF RetirePoint, Doing, Starting, Inner, custom
<1>2. done \in BOOLEAN
  BY DEF HookInv, TypeOK
<1> QED BY <1>1, <1>2, QuietNone

\* The gate is not reached in time.
LEMMA CloseTimesOutKeeps ==
  ASSUME HookInv, CloseTimesOut
  PROVE  HookInv'
<1>1. /\ todo # << >> /\ Head(todo)[1] = "close" /\ todo' = << >> /\ phase' = "abandoned"
      /\ UNCHANGED <<backend, objects, custom, thunk, route, queue, frames, done>>
      /\ Head(todo)[1] \notin Starting /\ Head(todo)[1] \notin Inner
  BY DEF CloseTimesOut, Doing, Starting, Inner
<1>2. TypeOK /\ JumpsLead' /\ RoutesBacked' /\ CallsBacked' /\ HB!BackendInv'
  BY <1>1, QuietCalls DEF HookInv
<1>3. /\ state' = state /\ active' = active /\ alive' = alive /\ quiescent' = quiescent
      /\ flushed' = flushed /\ leased' = leased /\ point' = point /\ holders' = holders
      /\ jump' = jump /\ interceptor' = interceptor /\ entries' = entries
      /\ thunk' = thunk /\ route' = route /\ queue' = queue /\ frames' = frames
  BY <1>1 DEF backend, objects, custom
<1>4. todo' \in Seq(Steps) /\ Elements(todo)' = {} /\ Ordered(todo')
  BY <1>1 DEF Elements, Ordered
<1>5. TypeOK'
  BY <1>1, <1>2, <1>3, <1>4 DEF TypeOK
<1>6. TeardownFits'
  <2>1. \A step, x : ~Due(step, x)'
    BY <1>4 DEF Due
  <2> QED BY <1>1, <1>3, <2>1, TeardownStays
<1> QED BY <1>1, <1>2, <1>3, <1>4, <1>5, <1>6, StopStep

----------------------------------------------------------------------------
(* Plans that start or end a destruction. *)

LEMMA PlainThen ==
  ASSUME NEW a \in Seq(Steps), \A s \in Elements(a) : Plain(s),
         NEW b \in Seq(Steps), Ordered(b), \A u \in Elements(b) : Plain(u) \/ Final(u)
  PROVE  a \o b \in Seq(Steps) /\ Ordered(a \o b) /\ Elements(a \o b) = Elements(a) \cup Elements(b)
<1>1. Ordered(a)
  BY PlainOrdered
<1>2. \A s \in Elements(a), u \in Elements(b) : Follows(s, u)
  BY PlainFollows
<1>3. Ordered(a \o b)
  BY <1>1, <1>2, OrderedConcat
<1>4. a \o b \in Seq(Steps) /\ Elements(a \o b) = Elements(a) \cup Elements(b)
  BY ElementsOfConcat
<1> QED BY <1>3, <1>4

LEMMA FinalFollows ==
  /\ \A h, s, u : Final(h) /\ Final(s) /\ Follows(h, u) => Follows(s, u)
  /\ \A h, u : Final(h) /\ Follows(h, u) =>
         ~Final(u) /\ u[1] \notin Foremost \cup Inner \cup {"finish", "uninstall", "destroyHook", "abandon"}
BY DEF Final, Follows, Foremost, Inner, Installs

LEMMA NamedSteps ==
  /\ \A k \in Kinds : /\ Step(k, None, "late") = <<k, None, "late">> /\ <<k, None, "late">> \in Steps
                      /\ Step(k, Agent, "late") = <<k, Agent, "late">> /\ <<k, Agent, "late">> \in Steps
  /\ \A k \in {"finalize", "drained", "attempt", "members", "destroy"} : Final(<<k, None, "late">>)
  /\ Plain(<<"destroy", Agent, "late">>)
<1>1. \A k \in Kinds : /\ Step(k, None, "late") = <<k, None, "late">> /\ <<k, None, "late">> \in Steps
                       /\ Step(k, Agent, "late") = <<k, Agent, "late">> /\ <<k, Agent, "late">> \in Steps
  BY StepsOf DEF Named
<1>2. \A k \in {"finalize", "drained", "attempt", "members", "destroy"} : Final(<<k, None, "late">>)
  BY DEF Final
<1>3. Plain(<<"destroy", Agent, "late">>)
  BY DEF Plain
<1> QED BY <1>1, <1>2, <1>3

\* The hooks are destroyed, then the backend.
Ends == << Step("destroy", None, "late"), Step("destroy", Agent, "late") >>

LEMMA EndsPlan ==
  /\ Ends \in Seq(Steps) /\ Ordered(Ends)
  /\ \A u \in Elements(Ends) : u[1] = "destroy" /\ (Plain(u) \/ Final(u))
<1> DEFINE x == <<"destroy", None, "late">>
           y == <<"destroy", Agent, "late">>
<1>1. /\ Step("destroy", None, "late") = x /\ x \in Steps
      /\ Step("destroy", Agent, "late") = y /\ y \in Steps /\ Final(x) /\ Plain(y)
      /\ x[1] = "destroy" /\ y[1] = "destroy"
  BY NamedSteps, KnownKinds
<1>2. Follows(x, y)
  BY <1>1, PlainFollows
<1> HIDE DEF x, y
<1>3. << x, y >> \in Seq(Steps) /\ Elements(<< x, y >>) = {x, y} /\ Ordered(<< x, y >>)
  BY <1>1, <1>2, TwoSteps
<1>4. Ends = << x, y >>
  BY <1>1 DEF Ends
<1> QED BY <1>1, <1>3, <1>4

LEMMA FailedPlan ==
  ASSUME NEW steps \in Seq(Steps), \A s \in Elements(steps) : s[1] \in {"uninstall", "flush"},
         StartFails(steps)
  PROVE  /\ todo' \in Seq(Steps) /\ Ordered(todo') /\ phase' = "failed"
         /\ \A s \in Elements(todo)' : s[1] \in {"uninstall", "flush", "destroy"}
<1> DEFINE a == HeapUninstall("late")
<1>1. todo' = steps \o a \o Ends /\ phase' = "failed"
  BY DEF StartFails, Ends
<1>2. a \in Seq(Steps) /\ \A s \in Elements(a) : s[1] \in {"uninstall", "flush"}
  BY TeardownPlans
<1> HIDE DEF a
<1>3. /\ steps \o a \in Seq(Steps) /\ Elements(steps \o a) = Elements(steps) \cup Elements(a)
  BY <1>2, ElementsOfConcat
<1>4. \A s \in Elements(steps \o a) : s[1] \in {"uninstall", "flush"} /\ Plain(s)
  BY <1>2, <1>3, PlainInert
<1>5. /\ (steps \o a) \o Ends \in Seq(Steps) /\ Ordered((steps \o a) \o Ends)
      /\ Elements((steps \o a) \o Ends) = Elements(steps \o a) \cup Elements(Ends)
  <2>1. Ends \in Seq(Steps) /\ Ordered(Ends) /\ \A u \in Elements(Ends) : Plain(u) \/ Final(u)
    BY EndsPlan
  <2> QED BY <1>3, <1>4, <2>1, PlainThen
<1>6. \A s \in Elements((steps \o a) \o Ends) : s[1] \in {"uninstall", "flush", "destroy"}
  BY <1>4, <1>5, EndsPlan
<1>7. Elements(todo)' = Elements(todo')
  BY DEF Elements
<1> QED BY <1>1, <1>5, <1>6, <1>7

\* A plan that changes neither hooks nor calls, whatever it is made of.
LEMMA QuietLater ==
  ASSUME HookInv, todo = << >> \/ Head(todo)[1] \notin Inner,
         UNCHANGED <<backend, objects, custom, thunk, route, frames>>,
         queue' \in BOOLEAN, done' \in BOOLEAN, todo' \in Seq(Steps), Ordered(todo'),
         phase' # "starting", \A s \in Elements(todo)' : s[1] \notin Starting \cup {"finish"},
         phase' = "capturing" => todo' = << >>, phase' = "finalized" => phase = "finalized",
         \A o \in Objects : state[o] = "installed" /\ Due("abandon", o)' => Due("uninstall", o)',
         AbandonedOnce', QueueFits'
  PROVE  HookInv'
<1>1. TypeOK /\ PhaseFits
  BY DEF HookInv
<1>2. JumpsLead' /\ RoutesBacked' /\ CallsBacked' /\ HB!BackendInv'
  BY QuietCalls
<1>3. /\ state' = state /\ active' = active /\ alive' = alive /\ quiescent' = quiescent
      /\ flushed' = flushed /\ leased' = leased /\ point' = point /\ holders' = holders
      /\ jump' = jump /\ interceptor' = interceptor /\ entries' = entries
      /\ thunk' = thunk /\ route' = route /\ frames' = frames
  BY DEF backend, objects, custom
<1>4. TypeOK'
  BY <1>1, <1>2, <1>3 DEF TypeOK
<1>5. TeardownFits'
  <2>1. \A o \in Objects : ~Due("finish", o)'
    BY DEF Due
  <2> QED BY <1>3, <2>1, TeardownStays
<1>6. phase' = "finalized" => jump' = {} /\ leased' = {} /\ ~interceptor'[Agent]
  BY <1>1, <1>3 DEF PhaseFits
<1>7. \A s \in Elements(todo)' : s[1] \notin Starting
  OBVIOUS
<1> QED BY <1>2, <1>4, <1>5, <1>6, <1>7, LaterStep

\* Nothing has been abandoned with its lease before the destruction.
LEMMA NoneAbandoned ==
  ASSUME HookInv, (\E s \in Elements(todo) : Final(s)) \/ phase \in {"starting", "capturing"}
  PROVE  \A c \in Builtin : ~(state[ObjectOf(c)] = "retired" /\ c \in leased)
BY DEF HookInv, AbandonedOnce

LEMMA QuietFinal ==
  ASSUME HookInv, todo = << >> \/ Head(todo)[1] \notin Inner,
         (\E s \in Elements(todo) : Final(s)) \/ phase \in {"starting", "capturing"},
         UNCHANGED <<backend, objects, custom, thunk, route, frames>>,
         queue' \in BOOLEAN, done' \in BOOLEAN, todo' \in Seq(Steps), Ordered(todo'),
         phase' # "starting",
         \A s \in Elements(todo)' : s[1] \notin Starting \cup {"finish", "abandon"},
         phase' = "capturing" => todo' = << >>, phase' = "finalized" => phase = "finalized",
         QueueFits'
  PROVE  HookInv'
<1>1. state' = state /\ leased' = leased
  BY DEF objects
<1>2. AbandonedOnce'
  BY <1>1, NoneAbandoned DEF AbandonedOnce
<1>3. \A o \in Objects : ~Due("abandon", o)'
  BY DEF Due
<1>4. \A s \in Elements(todo)' : s[1] \notin Starting \cup {"finish"}
  OBVIOUS
<1> QED BY <1>2, <1>3, <1>4, QuietLater

\* The queue is still there, and nothing is about to free it.
LEMMA QueueKept ==
  ASSUME HookInv, queue, queue' = queue, \A s \in Elements(todo)' : s[1] \notin {"queue", "members"}
  PROVE  QueueFits'
<1>1. ~Due("queue", None)' /\ ~Due("members", None)'
  BY DEF Due
<1> QED BY <1>1 DEF QueueFits

LEMMA StartingFacts ==
  ASSUME HookInv, todo # << >>, Head(todo)[1] \in Starting
  PROVE  /\ phase = "starting" /\ queue /\ quiescent = {} /\ Head(todo)[1] \notin Inner
         /\ done \in BOOLEAN /\ Head(todo)[1] # "finish"
         /\ \A s \in Elements(todo) : s[1] \in Starting
         /\ \A o \in Objects : alive[o] /\ state[o] \in {"inactive", "installed"}
         /\ \A p \in PointIds : point[p] \in {"declared", "installed", "failed"}
<1>1. Head(todo) \in Elements(todo)
  BY Heading
<1>2. PhaseFits /\ done \in BOOLEAN
  BY DEF HookInv, TypeOK
<1>3. phase = "starting"
  BY <1>1, <1>2 DEF PhaseFits
<1>4. Head(todo)[1] \notin Inner /\ Head(todo)[1] # "finish"
  BY DEF Starting, Inner
<1> QED BY <1>2, <1>3, <1>4 DEF PhaseFits

LEMMA LaterPatchFailsKeeps ==
  ASSUME HookInv, NEW c \in Builtin, LaterPatchFails(c)
  PROVE  HookInv'
<1> DEFINE x == <<"uninstall", Vm, "late">>
<1>1. /\ todo # << >> /\ Head(todo)[1] = "patch" /\ ObjectOf(c) = Vm
      /\ StartFails(<< Step("uninstall", Vm, "late"), Step("uninstall", Vm, "late") >>)
      /\ UNCHANGED <<backend, objects, custom, thunk, route, queue, gate, frames, done>>
  BY DEF LaterPatchFails, Doing
<1>2. Head(todo)[1] \in Starting
  BY <1>1 DEF Starting
<1>3. x \in Steps /\ Step("uninstall", Vm, "late") = x /\ x[1] = "uninstall"
  BY <1>1, Names, StepsOf, KnownKinds DEF Named
<1> HIDE DEF x
<1>4. << x, x >> \in Seq(Steps) /\ \A s \in Elements(<< x, x >>) : s[1] \in {"uninstall", "flush"}
  BY <1>3, TwoSteps
<1>5. /\ todo' \in Seq(Steps) /\ Ordered(todo') /\ phase' = "failed"
      /\ \A s \in Elements(todo)' : s[1] \in {"uninstall", "flush", "destroy"}
  BY <1>1, <1>3, <1>4, FailedPlan
<1>6. phase = "starting" /\ queue /\ done \in BOOLEAN /\ Head(todo)[1] \notin Inner
  BY <1>1, <1>2, StartingFacts
<1>7. \A s \in Elements(todo)' : s[1] \notin Starting \cup {"finish", "abandon"}
  BY <1>5 DEF Starting
<1>8. QueueFits'
  BY <1>1, <1>5, <1>6, QueueKept
<1> QED BY <1>1, <1>5, <1>6, <1>7, <1>8, QuietFinal

LEMMA BeginCaptureKeeps ==
  ASSUME HookInv, BeginCapture
  PROVE  HookInv'
<1>1. /\ todo # << >> /\ Head(todo)[1] = "begin"
      /\ UNCHANGED <<backend, objects, custom, thunk, route, queue, gate, frames, done>>
      /\ \/ todo' = << >> \o Tail(todo) /\ phase' = "capturing"
         \/ todo' = Ends /\ phase' = "failed"
  BY DEF BeginCapture, Doing, Push, Ends
<1>2. Head(todo)[1] \in Starting
  BY <1>1 DEF Starting
<1>3. phase = "starting" /\ queue /\ done \in BOOLEAN /\ Head(todo)[1] \notin Inner
  BY <1>1, <1>2, StartingFacts
<1>4. CASE todo' = << >> \o Tail(todo) /\ phase' = "capturing"
  <2>1. TypeOK /\ Ordered(todo)
    BY DEF HookInv
  <2>2. Advanced(<< >>) /\ Elements(todo)' = Elements(Tail(todo))
    BY <1>1, <1>4, <2>1, PushNone
  <2>3. Elements(todo)' = {}
    BY <1>1, <2>2 DEF Advanced, Follows
  <2>4. todo' \in Seq(Steps) /\ Ordered(todo')
    BY <2>2 DEF Advanced
  <2>5. todo' = << >>
    <3>1. Len(todo') \in Nat
      BY <2>4, LenProperties
    <3>2. ASSUME Len(todo') # 0 PROVE FALSE
      <4>1. 1 \in 1 .. Len(todo')
        BY <3>1, <3>2
      <4> QED BY <2>3, <4>1 DEF Elements
    <3> QED BY <2>4, <3>2, EmptySeq
  <2>6. QueueFits'
    BY <1>1, <1>3, <2>3, QueueKept
  <2> QED BY <1>1, <1>3, <1>4, <2>3, <2>4, <2>5, <2>6, QuietFinal
<1>5. CASE todo' = Ends /\ phase' = "failed"
  <2>1. todo' \in Seq(Steps) /\ Ordered(todo') /\ Elements(todo)' = Elements(Ends)
    BY <1>5, EndsPlan DEF Elements
  <2>2. \A s \in Elements(todo)' : s[1] = "destroy"
    BY <2>1, EndsPlan
  <2>3. \A s \in Elements(todo)' : s[1] \notin Starting \cup {"finish", "abandon"}
    BY <2>2 DEF Starting
  <2>4. QueueFits'
    BY <1>1, <1>3, <2>2, QueueKept
  <2> QED BY <1>1, <1>3, <1>5, <2>1, <2>3, <2>4, QuietFinal
<1> QED BY <1>1, <1>4, <1>5

\* A Final step, a plain one before it and nothing else before what was left.
LEMMA Finally ==
  ASSUME HookInv, todo # << >>, Final(Head(todo)), NEW a \in Seq(Steps),
         \A s \in Elements(a) : Plain(s), NEW x \in Steps, Final(x), todo' = (a \o << x >>) \o Tail(todo)
  PROVE  /\ Advanced(a \o << x >>) /\ Elements(todo)' = Elements(a) \cup {x} \cup Elements(Tail(todo))
<1>1. TypeOK /\ Ordered(todo)
  BY DEF HookInv
<1>2. << x >> \in Seq(Steps) /\ Elements(<< x >>) = {x} /\ Ordered(<< x >>)
  BY TwoSteps
<1>3. /\ a \o << x >> \in Seq(Steps) /\ Ordered(a \o << x >>)
      /\ Elements(a \o << x >>) = Elements(a) \cup {x}
  BY <1>2, PlainThen
<1>4. Head(todo)[1] \notin Inner
  BY DEF Final, Inner
<1>5. \A s \in Elements(a \o << x >>), u \in Elements(Tail(todo)) :
          Follows(Head(todo), u) => Follows(s, u)
  BY <1>3, <1>4, PlainFollows, FinalFollows
<1>6. Advanced(a \o << x >>)
  BY <1>1, <1>3, <1>5, Pushed
<1> QED BY <1>3, <1>6 DEF Advanced

LEMMA FinalRest ==
  ASSUME HookInv, todo # << >>, Final(Head(todo))
  PROVE  /\ \A u \in Elements(Tail(todo)) :
                /\ u \in Elements(todo) /\ ~Final(u)
                /\ u[1] \notin Starting \cup {"finish", "uninstall", "destroyHook", "abandon"}
         /\ phase \notin {"starting", "capturing"} /\ Head(todo)[1] \notin Inner
         /\ \E s \in Elements(todo) : Final(s)
         /\ queue \in BOOLEAN /\ done \in BOOLEAN
<1>1. /\ Head(todo) \in Elements(todo)
      /\ \A u \in Elements(Tail(todo)) : Follows(Head(todo), u) /\ u \in Elements(todo)
  BY Heading
<1>2. PhaseFits /\ queue \in BOOLEAN /\ done \in BOOLEAN
  BY DEF HookInv, TypeOK
<1>3. Head(todo)[1] \notin Starting \cup Inner
  BY DEF Final, Starting, Inner
<1>4. phase \notin {"starting", "capturing"}
  BY <1>1, <1>2, <1>3 DEF PhaseFits
<1>5. \A u \in Elements(Tail(todo)) : u[1] \notin Starting
  BY <1>1, <1>2, <1>4 DEF PhaseFits
<1> QED BY <1>1, <1>2, <1>3, <1>4, <1>5, FinalFollows

LEMMA QueueFollows ==
  ASSUME HookInv, UNCHANGED <<route, frames>>, queue' = queue,
         Due("queue", None)' => Due("queue", None),
         Due("members", None)' /\ done' => ~Recording \/ (Due("members", None) /\ done)
  PROVE  QueueFits'
<1>1. Recording' <=> Recording
  BY DEF Recording, Counted, Inside
<1> QED BY <1>1 DEF HookInv, QueueFits

LEMMA DestroyHooksKeeps ==
  ASSUME HookInv, DestroyHooks
  PROVE  HookInv'
<1> DEFINE x == <<"original", None, "late">>
           y == <<"attempt", None, "late">>
<1>1. /\ todo # << >> /\ Head(todo)[1] = "destroy" /\ Head(todo)[2] = None
      /\ todo' = << Step("original", None, "late"), Step("attempt", None, "late") >> \o Tail(todo)
      /\ UNCHANGED <<backend, objects, custom, thunk, route, queue, gate, frames, phase, done>>
  BY DEF DestroyHooks, Doing, Push
<1>2. Final(Head(todo))
  BY <1>1 DEF Final
<1>3. /\ Step("original", None, "late") = x /\ x \in Steps /\ x[1] = "original" /\ Plain(x)
      /\ Step("attempt", None, "late") = y /\ y \in Steps /\ y[1] = "attempt" /\ Final(y)
  BY NamedSteps, KnownKinds DEF Plain
<1> HIDE DEF x, y
<1>4. TypeOK /\ Ordered(todo) /\ Head(todo)[1] \notin Inner
  BY <1>1 DEF HookInv, Inner
<1>5. << x, y >> \in Seq(Steps) /\ Elements(<< x, y >>) = {x, y} /\ Ordered(<< x, y >>)
  BY <1>3, TwoSteps, PlainFollows
<1>6. Advanced(<< x, y >>) /\ Elements(todo)' = {x} \cup {y} \cup Elements(Tail(todo))
  <2>1. \A s \in {x, y}, u \in Elements(Tail(todo)) : Follows(Head(todo), u) => Follows(s, u)
    BY <1>2, <1>3, <1>4, PlainFollows, FinalFollows
  <2>2. Advanced(<< x, y >>)
    BY <1>1, <1>3, <1>4, <1>5, <2>1, Pushed
  <2> QED BY <1>5, <2>2 DEF Advanced
<1>7. /\ \A u \in Elements(Tail(todo)) :
             /\ u \in Elements(todo) /\ ~Final(u)
             /\ u[1] \notin Starting \cup {"finish", "uninstall", "destroyHook", "abandon"}
      /\ phase \notin {"starting", "capturing"} /\ Head(todo)[1] \notin Inner
      /\ \E s \in Elements(todo) : Final(s)
      /\ queue \in BOOLEAN /\ done \in BOOLEAN
  BY <1>1, <1>2, FinalRest
<1>8. \A s \in Elements(todo)' : s[1] \notin Starting \cup {"finish", "abandon"}
  BY <1>3, <1>6, <1>7 DEF Starting
<1>9. QueueFits'
  <2>1. Due("queue", None)' => Due("queue", None)
    BY <1>3, <1>6, <1>7 DEF Due
  <2>2. ~Due("members", None)'
    BY <1>3, <1>6, <1>7 DEF Due, Final
  <2> QED BY <1>1, <2>1, <2>2, QueueFollows
<1>10. todo' \in Seq(Steps) /\ Ordered(todo')
  BY <1>6 DEF Advanced
<1> QED BY <1>1, <1>7, <1>8, <1>9, <1>10, QuietFinal

LEMMA AttemptKeeps ==
  ASSUME HookInv, Attempt
  PROVE  HookInv'
<1> DEFINE a == IF Recording THEN << >> ELSE CoordinatorUninstall
           y == <<"members", None, "late">>
<1>1. /\ todo # << >> /\ Head(todo)[1] = "attempt"
      /\ todo' = (a \o << Step("members", None, "late") >>) \o Tail(todo)
      /\ UNCHANGED <<backend, objects, custom, thunk, route, queue, gate, frames, phase>>
      /\ done' = ~Recording
  BY DEF Attempt, Doing, Push
<1>2. Final(Head(todo))
  BY <1>1 DEF Final
<1>3. Step("members", None, "late") = y /\ y \in Steps /\ y[1] = "members" /\ Final(y)
  BY NamedSteps, KnownKinds
<1>4. a \in Seq(Steps) /\ \A s \in Elements(a) : s[1] \in {"uninstall", "flush", "custom"}
  <2>1. << >> \in Seq(Steps) /\ Elements(<< >>) = {}
    BY DEF Elements
  <2> QED BY <2>1, TeardownPlans
<1> HIDE DEF a, y
<1>5. \A s \in Elements(a) : Plain(s)
  BY <1>4, PlainInert
<1>6. Advanced(a \o << y >>) /\ Elements(todo)' = Elements(a) \cup {y} \cup Elements(Tail(todo))
  BY <1>1, <1>2, <1>3, <1>4, <1>5, Finally
<1>7. /\ \A u \in Elements(Tail(todo)) :
             /\ u \in Elements(todo) /\ ~Final(u)
             /\ u[1] \notin Starting \cup {"finish", "uninstall", "destroyHook", "abandon"}
      /\ phase \notin {"starting", "capturing"} /\ Head(todo)[1] \notin Inner
      /\ \E s \in Elements(todo) : Final(s)
      /\ queue \in BOOLEAN /\ done' \in BOOLEAN
  BY <1>1, <1>2, FinalRest
<1>8. \A s \in Elements(todo)' : s[1] \notin Starting \cup {"finish", "abandon"}
  BY <1>3, <1>4, <1>6, <1>7 DEF Starting
<1>9. QueueFits'
  <2>1. Due("queue", None)' => Due("queue", None)
    BY <1>3, <1>4, <1>6, <1>7 DEF Due
  <2> QED BY <1>1, <2>1, QueueFollows
<1>10. todo' \in Seq(Steps) /\ Ordered(todo')
  BY <1>6 DEF Advanced
<1> QED BY <1>1, <1>7, <1>8, <1>9, <1>10, QuietFinal

LEMMA DrainedKeeps ==
  ASSUME HookInv, Drained
  PROVE  HookInv'
<1> DEFINE y == <<"destroy", None, "late">>
<1>1. /\ todo # << >> /\ Head(todo)[1] = "drained" /\ Head(todo)[1] \notin Starting \cup Inner
      /\ Push(<< >>) \/ Push(<< Step("destroy", None, "late") >>)
      /\ UNCHANGED <<backend, objects, custom, thunk, route, queue, gate, frames, phase, done>>
  BY DEF Drained, Doing, Starting, Inner
<1>2. Final(Head(todo)) /\ Head(todo)[1] # "uninstall"
  BY <1>1 DEF Final
<1>3. Step("destroy", None, "late") = y /\ y \in Steps /\ y[1] = "destroy" /\ Final(y)
  BY NamedSteps, KnownKinds
<1> HIDE DEF y
<1>4. TypeOK /\ Ordered(todo) /\ done \in BOOLEAN
  BY DEF HookInv, TypeOK
<1>5. CASE Push(<< >>)
  BY <1>1, <1>2, <1>4, <1>5, QuietNone
<1>6. CASE Push(<< Step("destroy", None, "late") >>)
  <2>1. Advanced(<< y >>) /\ Elements(todo)' = {y} \cup Elements(Tail(todo))
    BY <1>1, <1>2, <1>3, <1>4, <1>6, PushOne, FinalFollows DEF Push
  <2>2. /\ \A u \in Elements(Tail(todo)) :
               /\ u \in Elements(todo) /\ ~Final(u)
               /\ u[1] \notin Starting \cup {"finish", "uninstall", "destroyHook", "abandon"}
        /\ phase \notin {"starting", "capturing"} /\ Head(todo)[1] \notin Inner
        /\ \E s \in Elements(todo) : Final(s)
        /\ queue \in BOOLEAN /\ done \in BOOLEAN
    BY <1>1, <1>2, FinalRest
  <2>3. \A s \in Elements(todo)' : s[1] \notin Starting \cup {"finish", "abandon"}
    BY <1>3, <2>1, <2>2 DEF Starting
  <2>4. QueueFits'
    <3>1. Due("queue", None)' => Due("queue", None)
      BY <1>3, <2>1, <2>2 DEF Due
    <3>2. ~Due("members", None)'
      BY <1>3, <2>1, <2>2 DEF Due, Final
    <3> QED BY <1>1, <3>1, <3>2, QueueFollows
  <2>5. todo' \in Seq(Steps) /\ Ordered(todo')
    BY <2>1 DEF Advanced
  <2> QED BY <1>1, <2>2, <2>3, <2>4, <2>5, QuietFinal
<1> QED BY <1>1, <1>5, <1>6

LEMMA Joined ==
  ASSUME NEW p \in Seq(Steps), NEW q \in Seq(Steps), Ordered(p), Ordered(q),
         \A s \in Elements(p), u \in Elements(q) : Follows(s, u)
  PROVE  p \o q \in Seq(Steps) /\ Ordered(p \o q) /\ Elements(p \o q) = Elements(p) \cup Elements(q)
<1>1. Ordered(p \o q)
  BY OrderedConcat
<1> QED BY <1>1, ElementsOfConcat

\* The members of the coordinator are destroyed in reverse order.
LEMMA MembersPlan ==
  ASSUME NEW e \in Seq(Steps), Ordered(e), \A u \in Elements(e) : u[1] = "queue"
  PROVE  LET p == ForEach("destroyCustom", CustomSeq, "late") \o ForEach("destroyHook", VmSeq, "late")
                    \o HeapUninstall("late") \o ForEach("destroyHook", Reverse(RtlHooks), "late") \o e
         IN  /\ p \in Seq(Steps) /\ Ordered(p)
             /\ \A s \in Elements(p) :
                    \/ s[1] \in {"destroyCustom", "destroyHook", "uninstall", "flush"}
                    \/ s \in Elements(e)
<1> DEFINE a == ForEach("destroyCustom", CustomSeq, "late")
           b == ForEach("destroyHook", VmSeq, "late")
           c == HeapUninstall("late")
           d == ForEach("destroyHook", Reverse(RtlHooks), "late")
<1>1. a \in Seq(Steps) /\ \A u \in Elements(a) : u[1] = "destroyCustom"
  <2>1. CustomSeq \in Seq(Elements(CustomSeq)) /\ Elements(CustomSeq) \subseteq Named
    BY NameSeqs
  <2> QED BY <2>1, EachStep, KnownKinds
<1>2. b \in Seq(Steps) /\ \A u \in Elements(b) : u[1] = "destroyHook" /\ u[2] = Vm
  <2>1. VmSeq \in Seq(Elements(VmSeq)) /\ Elements(VmSeq) \subseteq Named /\ Elements(VmSeq) \subseteq {Vm}
    BY NameSeqs
  <2>2. b \in Seq(Steps) /\ \A u \in Elements(b) : u[1] = "destroyHook" /\ u[2] \in Elements(VmSeq)
    BY <2>1, EachStep, KnownKinds
  <2> QED BY <2>1, <2>2
<1>3. /\ c \in Seq(Steps)
      /\ \A u \in Elements(c) : u[1] \in {"uninstall", "flush"} /\ u[2] \in Elements(RtlHooks)
  BY TeardownPlans
<1>4. d \in Seq(Steps) /\ \A u \in Elements(d) : u[1] = "destroyHook" /\ u[2] \in Elements(RtlHooks)
  <2>1. /\ Reverse(RtlHooks) \in Seq(Elements(Reverse(RtlHooks)))
        /\ Elements(Reverse(RtlHooks)) \subseteq Named
        /\ Elements(Reverse(RtlHooks)) = Elements(RtlHooks)
    BY NameSeqs
  <2>2. d \in Seq(Steps) /\ \A u \in Elements(d) : u[1] = "destroyHook" /\ u[2] \in Elements(Reverse(RtlHooks))
    <3>1. "destroyHook" \in Kinds
      BY KnownKinds
    <3> QED BY <2>1, <3>1, EachStep
  <2> QED BY <2>1, <2>2
<1>5. Ordered(a)
  <2>1. \A s \in Elements(a) : Plain(s)
    BY <1>1, PlainInert
  <2> QED BY <2>1, PlainOrdered
<1>6. Ordered(b)
  <2>1. VmSeq = << >> \/ VmSeq = << Vm >>
    BY DEF VmSeq
  <2>2. Len(b) \in {0, 1}
    BY <2>1 DEF ForEach
  <2> QED BY <2>2 DEF Ordered
<1>7. Ordered(c)
  <2>1. \A s \in Elements(c) : Plain(s)
    BY <1>3, PlainInert
  <2> QED BY <2>1, PlainOrdered
<1>8. Ordered(d)
  <2>1. Declares(Reverse(RtlHooks))
    BY NameSeqs
  <2>2. \A x, y : x # y => Follows(<<"destroyHook", x, "late">>, <<"destroyHook", y, "late">>)
    BY DEF Follows, Final, Foremost, Inner
  <2> QED BY <2>1, <2>2, OrderedEach
<1>9. Vm \notin Elements(RtlHooks)
  BY NameSeqs
<1> DEFINE K == {"destroyCustom", "destroyHook", "uninstall", "flush"}
<1> HIDE DEF a, b, c, d
<1>10. /\ a \o b \in Seq(Steps) /\ Ordered(a \o b) /\ Elements(a \o b) = Elements(a) \cup Elements(b)
  <2>1. \A s \in Elements(a), u \in Elements(b) : Follows(s, u)
    BY <1>1, <1>2 DEF Follows, Final, Foremost, Inner
  <2> QED BY <1>1, <1>2, <1>5, <1>6, <2>1, Joined
<1>11. /\ a \o b \o c \in Seq(Steps) /\ Ordered(a \o b \o c)
       /\ Elements(a \o b \o c) = Elements(a) \cup Elements(b) \cup Elements(c)
  <2>1. \A s \in Elements(a) \cup Elements(b), u \in Elements(c) : Follows(s, u)
    BY <1>1, <1>2, <1>3, <1>9 DEF Follows, Final, Foremost, Inner
  <2>2. \A s \in Elements(a \o b), u \in Elements(c) : Follows(s, u)
    BY <1>10, <2>1
  <2>3. /\ (a \o b) \o c \in Seq(Steps) /\ Ordered((a \o b) \o c)
        /\ Elements((a \o b) \o c) = Elements(a \o b) \cup Elements(c)
    BY <1>3, <1>7, <1>10, <2>2, Joined
  <2> QED BY <1>10, <2>3
<1>12. /\ a \o b \o c \o d \in Seq(Steps) /\ Ordered(a \o b \o c \o d)
       /\ Elements(a \o b \o c \o d) = Elements(a) \cup Elements(b) \cup Elements(c) \cup Elements(d)
  <2>1. \A s \in Elements(a) \cup Elements(b) \cup Elements(c), u \in Elements(d) : Follows(s, u)
    BY <1>1, <1>2, <1>3, <1>4, <1>9 DEF Follows, Final, Foremost, Inner
  <2>2. \A s \in Elements(a \o b \o c), u \in Elements(d) : Follows(s, u)
    BY <1>11, <2>1
  <2>3. /\ (a \o b \o c) \o d \in Seq(Steps) /\ Ordered((a \o b \o c) \o d)
        /\ Elements((a \o b \o c) \o d) = Elements(a \o b \o c) \cup Elements(d)
    BY <1>4, <1>8, <1>11, <2>2, Joined
  <2> QED BY <1>11, <2>3
<1>13. /\ a \o b \o c \o d \o e \in Seq(Steps) /\ Ordered(a \o b \o c \o d \o e)
       /\ Elements(a \o b \o c \o d \o e)
              = Elements(a) \cup Elements(b) \cup Elements(c) \cup Elements(d) \cup Elements(e)
  <2>1. \A s \in Elements(a) \cup Elements(b) \cup Elements(c) \cup Elements(d), u \in Elements(e) :
            Follows(s, u)
    BY <1>1, <1>2, <1>3, <1>4 DEF Follows, Final, Foremost, Inner
  <2>2. \A s \in Elements(a \o b \o c \o d), u \in Elements(e) : Follows(s, u)
    BY <1>12, <2>1
  <2>3. /\ (a \o b \o c \o d) \o e \in Seq(Steps) /\ Ordered((a \o b \o c \o d) \o e)
        /\ Elements((a \o b \o c \o d) \o e) = Elements(a \o b \o c \o d) \cup Elements(e)
    BY <1>12, <2>2, Joined
  <2> QED BY <1>12, <2>3
<1>14. \A s \in Elements(a \o b \o c \o d \o e) :
           s[1] \in {"destroyCustom", "destroyHook", "uninstall", "flush"} \/ s \in Elements(e)
  BY <1>1, <1>2, <1>3, <1>4, <1>13
<1> QED BY <1>13, <1>14 DEF a, b, c, d

LEMMA DestroyMembersKeeps ==
  ASSUME HookInv, DestroyMembers
  PROVE  HookInv'
<1> DEFINE e == IF done THEN << Step("queue", None, "late") >> ELSE << >>
           p == ForEach("destroyCustom", CustomSeq, "late") \o ForEach("destroyHook", VmSeq, "late")
                    \o HeapUninstall("late") \o ForEach("destroyHook", Reverse(RtlHooks), "late") \o e
<1>1. /\ todo # << >> /\ Head(todo)[1] = "members" /\ Head(todo)[2] = None
      /\ todo' = p \o Tail(todo)
      /\ UNCHANGED <<backend, objects, custom, thunk, route, queue, gate, frames, phase, done>>
  BY DEF DestroyMembers, Doing, Push
<1>2. Final(Head(todo)) /\ Due("members", None)
  BY <1>1, Heading DEF Final, Due
<1>3. e \in Seq(Steps) /\ Ordered(e) /\ \A u \in Elements(e) : u[1] = "queue" /\ done
  <2>1. << >> \in Seq(Steps) /\ Elements(<< >>) = {} /\ Ordered(<< >>)
    BY DEF Elements, Ordered
  <2>2. /\ Step("queue", None, "late") = <<"queue", None, "late">> /\ <<"queue", None, "late">> \in Steps
    BY NamedSteps, KnownKinds
  <2>3. /\ << Step("queue", None, "late") >> \in Seq(Steps) /\ Ordered(<< Step("queue", None, "late") >>)
        /\ Elements(<< Step("queue", None, "late") >>) = {<<"queue", None, "late">>}
    BY <2>2, TwoSteps
  <2> QED BY <2>1, <2>3
<1> HIDE DEF e
<1>4. /\ p \in Seq(Steps) /\ Ordered(p)
      /\ \A s \in Elements(p) :
             \/ s[1] \in {"destroyCustom", "destroyHook", "uninstall", "flush"}
             \/ s[1] = "queue" /\ done
  BY <1>3, MembersPlan
<1> HIDE DEF p
<1>5. /\ \A u \in Elements(Tail(todo)) :
             /\ u \in Elements(todo) /\ ~Final(u)
             /\ u[1] \notin Starting \cup {"finish", "uninstall", "destroyHook", "abandon"}
      /\ phase \notin {"starting", "capturing"} /\ Head(todo)[1] \notin Inner
      /\ \E s \in Elements(todo) : Final(s)
      /\ queue \in BOOLEAN /\ done \in BOOLEAN
  BY <1>1, <1>2, FinalRest
<1>6. ASSUME NEW s \in Elements(p), NEW u \in Elements(Tail(todo)), Follows(Head(todo), u)
      PROVE  Follows(s, u)
  <2>1. u[1] \notin Foremost \cup Inner \cup {"finish", "uninstall", "destroyHook", "abandon"}
    BY <1>2, <1>6, FinalFollows
  <2>2. ~Final(u) /\ ~Final(s)
    BY <1>4, <1>5 DEF Final
  <2>3. s[1] \in {"destroyCustom", "destroyHook", "uninstall", "flush", "queue"}
    BY <1>4
  <2> QED BY <2>1, <2>2, <2>3 DEF Follows, Installs
<1>7. Advanced(p)
  BY <1>1, <1>4, <1>6, Pushed DEF HookInv
<1>8. Elements(todo)' = Elements(p) \cup Elements(Tail(todo)) /\ todo' \in Seq(Steps) /\ Ordered(todo')
  BY <1>7 DEF Advanced
<1>9. \A s \in Elements(todo)' : s[1] \notin Starting \cup {"finish", "abandon"}
  BY <1>4, <1>5, <1>8 DEF Starting
<1>10. QueueFits'
  <2>1. Recording' <=> Recording
    BY <1>1 DEF Recording, Counted, Inside
  <2>2. ~Due("members", None)'
    BY <1>4, <1>5, <1>8 DEF Due, Final
  <2>3. Due("queue", None)' => Due("queue", None) \/ done
    BY <1>4, <1>5, <1>8 DEF Due
  <2>4. QueueFits
    BY DEF HookInv
  <2> QED BY <1>1, <1>2, <2>1, <2>2, <2>3, <2>4 DEF QueueFits
<1> QED BY <1>1, <1>5, <1>8, <1>9, <1>10, QuietFinal

\* One hook object is destroyed.
LEMMA DestroyHookKeeps ==
  ASSUME HookInv, NEW o \in Objects, DestroyHook(o)
  PROVE  HookInv'
<1> DEFINE x == <<"uninstall", o, "late">>
           y == <<"flush", o, "late">>
           z == <<"abandon", o, "late">>
           a == IF state[o] = "installed" THEN << x >> ELSE << >>
           p == a \o << y, z >>
<1>1. /\ x \in Steps /\ y \in Steps /\ z \in Steps
      /\ Step("uninstall", o, "late") = x /\ Step("flush", o, "late") = y /\ Step("abandon", o, "late") = z
  BY StepsOf, KnownKinds DEF Named
<1>2. /\ todo # << >> /\ Head(todo)[1] = "destroyHook" /\ Head(todo)[2] = o
      /\ todo' = p \o Tail(todo)
      /\ UNCHANGED <<backend, objects, custom, thunk, route, queue, gate, frames, phase, done>>
  BY <1>1 DEF DestroyHook, Doing, Push
<1>3. /\ x[1] = "uninstall" /\ x[2] = o /\ y[1] = "flush" /\ z[1] = "abandon" /\ z[2] = o
  OBVIOUS
<1> HIDE DEF x, y, z
<1>4. /\ a \in Seq(Steps) /\ Ordered(a) /\ \A s \in Elements(a) : s = x
      /\ state[o] = "installed" => x \in Elements(a)
  <2>1. << >> \in Seq(Steps) /\ Elements(<< >>) = {} /\ Ordered(<< >>)
    BY DEF Elements, Ordered
  <2> QED BY <1>1, <2>1, TwoSteps
<1>5. /\ << y, z >> \in Seq(Steps) /\ Elements(<< y, z >>) = {y, z} /\ Ordered(<< y, z >>)
  <2>1. Follows(y, z)
    BY <1>3 DEF Follows, Foremost, Inner, Final
  <2> QED BY <1>1, <2>1, TwoSteps
<1> HIDE DEF a
<1>6. p \in Seq(Steps) /\ Elements(p) = Elements(a) \cup {y, z} /\ Ordered(p)
  <2>1. \A s \in Elements(a), u \in Elements(<< y, z >>) : Follows(s, u)
    BY <1>3, <1>4, <1>5 DEF Follows, Foremost, Inner, Final
  <2>2. /\ a \o << y, z >> \in Seq(Steps) /\ Ordered(a \o << y, z >>)
        /\ Elements(a \o << y, z >>) = Elements(a) \cup Elements(<< y, z >>)
    BY <1>4, <1>5, <2>1, Joined
  <2> QED BY <1>5, <2>2
<1> HIDE DEF p
<1>7. ASSUME NEW s \in Elements(p), NEW u \in Elements(Tail(todo)), Follows(Head(todo), u)
      PROVE  Follows(s, u)
  BY <1>2, <1>3, <1>4, <1>6, <1>7 DEF Follows, Foremost, Inner, Final, Installs
<1>8. Advanced(p)
  BY <1>2, <1>6, <1>7, Pushed DEF HookInv
<1>9. Elements(todo)' = Elements(p) \cup Elements(Tail(todo)) /\ todo' \in Seq(Steps) /\ Ordered(todo')
  BY <1>8 DEF Advanced
<1>10. /\ Head(todo) \in Elements(todo) /\ Head(todo)[1] \notin Starting \cup Inner
       /\ \A u \in Elements(Tail(todo)) : Follows(Head(todo), u) /\ u \in Elements(todo)
       /\ Elements(todo) = {Head(todo)} \cup Elements(Tail(todo))
  BY <1>2, <1>8, Heading DEF Starting, Inner, Advanced
<1>11. PhaseFits /\ AbandonedOnce /\ TeardownFits /\ queue \in BOOLEAN /\ done \in BOOLEAN
  BY DEF HookInv, TypeOK
<1>12. phase \notin {"starting", "capturing"}
  BY <1>2, <1>10, <1>11 DEF PhaseFits
<1>13. \A s \in Elements(todo)' : s[1] \notin Starting \cup {"finish"}
  <2>1. \A u \in Elements(Tail(todo)) : u[1] \notin Starting /\ u[1] # "finish"
    BY <1>2, <1>10, <1>11, <1>12 DEF PhaseFits, Follows
  <2> QED BY <1>3, <1>4, <1>6, <1>9, <2>1 DEF Starting
<1>14. ASSUME NEW q \in Objects, state[q] = "installed", Due("abandon", q)' PROVE Due("uninstall", q)'
  <2>1. CASE q = o
    BY <1>3, <1>4, <1>6, <1>9, <1>14, <2>1 DEF Due
  <2>2. CASE q # o
    <3>1. Due("abandon", q)
      BY <1>3, <1>4, <1>6, <1>9, <1>10, <1>14, <2>2 DEF Due
    <3>2. PICK s \in Elements(todo) : s[1] = "uninstall" /\ s[2] = q
      BY <1>11, <1>14, <3>1 DEF TeardownFits, Due
    <3>3. s \in Elements(Tail(todo))
      BY <1>2, <1>10, <3>2
    <3> QED BY <1>9, <3>2, <3>3 DEF Due
  <2> QED BY <2>1, <2>2
<1>15. AbandonedOnce'
  <2>1. state' = state /\ leased' = leased /\ phase' = phase
    BY <1>2 DEF objects
  <2> SUFFICES ASSUME NEW c \in Builtin, state[ObjectOf(c)] = "retired", c \in leased
               PROVE  /\ ~Due("abandon", ObjectOf(c))' /\ ~Due("destroyHook", ObjectOf(c))'
                      /\ \A s \in Elements(todo)' : ~Final(s)
    BY <1>12, <2>1 DEF AbandonedOnce, Final
  <2>2. /\ ~Due("abandon", ObjectOf(c)) /\ ~Due("destroyHook", ObjectOf(c))
        /\ \A s \in Elements(todo) : ~Final(s)
    BY <1>11 DEF AbandonedOnce
  <2>3. ObjectOf(c) # o
    BY <1>2, <1>10, <2>2 DEF Due
  <2>4. ASSUME NEW s \in Elements(todo)'
        PROVE  ~Final(s) /\ ~(s[1] \in {"abandon", "destroyHook"} /\ s[2] = ObjectOf(c))
    <3>1. CASE s \in Elements(p)
      BY <1>3, <1>4, <1>6, <2>3, <3>1 DEF Final
    <3>2. CASE s \in Elements(Tail(todo))
      BY <1>10, <2>2, <3>2 DEF Due
    <3> QED BY <1>9, <2>4, <3>1, <3>2
  <2> QED BY <2>4 DEF Due
<1>16. QueueFits'
  <2>1. \A k \in {"queue", "members"} : Due(k, None)' => Due(k, None)
    BY <1>3, <1>4, <1>6, <1>9, <1>10 DEF Due
  <2> QED BY <1>2, <2>1, QueueFollows
<1> QED BY <1>2, <1>9, <1>10, <1>11, <1>12, <1>13, <1>14, <1>15, <1>16, QuietLater

LEMMA StopPlans ==
  LET x == Step("close", None, "late")
      y == Step("original", None, "late")
      z == Step("open", None, "late")
  IN  /\ << x, y, z >> \in Seq(Steps) /\ << x, y, z, x >> \in Seq(Steps)
      /\ \A s \in Elements(<< x, y, z >>) \cup Elements(<< x, y, z, x >>) :
             s[1] \in {"close", "original", "open"}
<1> DEFINE x == Step("close", None, "late")
           y == Step("original", None, "late")
           z == Step("open", None, "late")
<1>1. /\ x \in Steps /\ y \in Steps /\ z \in Steps
      /\ x[1] = "close" /\ y[1] = "original" /\ z[1] = "open"
  <2>1. /\ x = <<"close", None, "late">> /\ y = <<"original", None, "late">>
        /\ z = <<"open", None, "late">>
    BY DEF Step
  <2>2. /\ <<"close", None, "late">> \in Steps /\ <<"original", None, "late">> \in Steps
        /\ <<"open", None, "late">> \in Steps
    BY NamedSteps, KnownKinds
  <2> QED BY <2>1, <2>2
<1> HIDE DEF x, y, z
<1>2. << x, y, z >> \in Seq(Steps) /\ << x, y, z, x >> \in Seq(Steps)
  BY <1>1
<1>3. \A i \in 1 .. Len(<< x, y, z >>) : << x, y, z >>[i] \in {x, y, z}
  OBVIOUS
<1>4. \A i \in 1 .. Len(<< x, y, z, x >>) : << x, y, z, x >>[i] \in {x, y, z}
  OBVIOUS
<1>5. \A s \in Elements(<< x, y, z >>) \cup Elements(<< x, y, z, x >>) : s \in {x, y, z}
  BY <1>3, <1>4 DEF Elements
<1>6. \A s \in Elements(<< x, y, z >>) \cup Elements(<< x, y, z, x >>) : s[1] \in {"close", "original", "open"}
  BY <1>1, <1>5
<1> QED BY <1>2, <1>6 DEF x, y, z

\* A plan of plain steps that ends with the destruction.
LEMMA StopPlanned ==
  ASSUME NEW a \in Seq(Steps), \A s \in Elements(a) : s[1] \in {"close", "original", "open"},
         NEW b \in Seq(Steps), Ordered(b),
         \A u \in Elements(b) : u[1] \in {"finalize", "destroy"} /\ (Plain(u) \/ Final(u))
  PROVE  LET q == a \o CoordinatorUninstall \o b
         IN  /\ q \in Seq(Steps) /\ Ordered(q)
             /\ \A s \in Elements(q) : s[1] \in {"close", "original", "open", "uninstall", "flush",
                                                 "custom", "finalize", "destroy"}
<1> DEFINE c == CoordinatorUninstall
<1>1. c \in Seq(Steps) /\ \A s \in Elements(c) : s[1] \in {"uninstall", "flush", "custom"}
  BY TeardownPlans
<1> HIDE DEF c
<1>2. a \o c \in Seq(Steps) /\ Elements(a \o c) = Elements(a) \cup Elements(c)
  BY <1>1, ElementsOfConcat
<1>3. \A s \in Elements(a \o c) : Plain(s)
  BY <1>1, <1>2, PlainInert
<1>4. /\ (a \o c) \o b \in Seq(Steps) /\ Ordered((a \o c) \o b)
      /\ Elements((a \o c) \o b) = Elements(a \o c) \cup Elements(b)
  BY <1>2, <1>3, PlainThen
<1>5. \A s \in Elements((a \o c) \o b) : s[1] \in {"close", "original", "open", "uninstall", "flush",
                                                   "custom", "finalize", "destroy"}
  BY <1>1, <1>2, <1>4
<1> QED BY <1>4, <1>5 DEF c

LEMMA StopKeeps ==
  ASSUME HookInv, Stop
  PROVE  HookInv'
<1> DEFINE x == Step("close", None, "late")
           y == Step("original", None, "late")
           z == Step("open", None, "late")
           f == Step("finalize", None, "late")
<1>1. /\ phase = "capturing" /\ todo = << >>
      /\ UNCHANGED <<backend, objects, custom, thunk, route, queue, gate, frames, done>>
      /\ \/ phase' = "stopping" /\ todo' = << x, y, z, x >> \o CoordinatorUninstall \o << f >>
         \/ phase' = "timed" /\ todo' = << x, y, z >> \o CoordinatorUninstall \o Ends
  BY DEF Stop, Ends
<1>2. /\ << x, y, z >> \in Seq(Steps) /\ << x, y, z, x >> \in Seq(Steps)
      /\ \A s \in Elements(<< x, y, z >>) \cup Elements(<< x, y, z, x >>) :
             s[1] \in {"close", "original", "open"}
  BY StopPlans
<1>3. /\ << f >> \in Seq(Steps) /\ Ordered(<< f >>)
      /\ \A u \in Elements(<< f >>) : u[1] \in {"finalize", "destroy"} /\ (Plain(u) \/ Final(u))
  <2>1. f = <<"finalize", None, "late">> /\ f \in Steps /\ Final(f) /\ f[1] = "finalize"
    <3>1. f = <<"finalize", None, "late">>
      BY DEF Step
    <3>2. <<"finalize", None, "late">> \in Steps /\ Final(<<"finalize", None, "late">>)
      BY NamedSteps, KnownKinds
    <3> QED BY <3>1, <3>2
  <2> HIDE DEF f
  <2>2. << f >> \in Seq(Steps) /\ Ordered(<< f >>) /\ Elements(<< f >>) = {f}
    BY <2>1, TwoSteps
  <2> QED BY <2>1, <2>2
<1>4. /\ Ends \in Seq(Steps) /\ Ordered(Ends)
      /\ \A u \in Elements(Ends) : u[1] \in {"finalize", "destroy"} /\ (Plain(u) \/ Final(u))
  BY EndsPlan
<1> HIDE DEF x, y, z, f
<1> DEFINE K == {"close", "original", "open", "uninstall", "flush", "custom", "finalize", "destroy"}
<1>5. ASSUME NEW q \in Seq(Steps), Ordered(q), \A s \in Elements(q) : s[1] \in K, todo' = q
      PROVE  /\ todo' \in Seq(Steps) /\ Ordered(todo') /\ \A s \in Elements(todo)' : s[1] \in K
  <2>1. Elements(todo)' = Elements(q)
    BY <1>5 DEF Elements
  <2> QED BY <1>5, <2>1
<1>6. /\ todo' \in Seq(Steps) /\ Ordered(todo') /\ \A s \in Elements(todo)' : s[1] \in K
  <2>1. CASE todo' = << x, y, z, x >> \o CoordinatorUninstall \o << f >>
    <3>1. LET q == << x, y, z, x >> \o CoordinatorUninstall \o << f >>
          IN  q \in Seq(Steps) /\ Ordered(q) /\ \A s \in Elements(q) : s[1] \in K
      BY <1>2, <1>3, StopPlanned
    <3> QED BY <1>5, <2>1, <3>1
  <2>2. CASE todo' = << x, y, z >> \o CoordinatorUninstall \o Ends
    <3>1. LET q == << x, y, z >> \o CoordinatorUninstall \o Ends
          IN  q \in Seq(Steps) /\ Ordered(q) /\ \A s \in Elements(q) : s[1] \in K
      BY <1>2, <1>4, StopPlanned
    <3> QED BY <1>5, <2>2, <3>1
  <2> QED BY <1>1, <2>1, <2>2
<1>7. \A s \in Elements(todo)' : s[1] \notin Starting \cup {"finish", "abandon", "queue", "members"}
  BY <1>6 DEF Starting
<1>8. queue \in BOOLEAN /\ done \in BOOLEAN
  BY DEF HookInv, TypeOK
<1>9. QueueFits'
  <2>1. ~Due("queue", None)' /\ ~Due("members", None)'
    BY <1>7 DEF Due
  <2> QED BY <1>1, <2>1, QueueFollows
<1>10. \A s \in Elements(todo)' : s[1] \notin Starting \cup {"finish", "abandon"}
  BY <1>7
<1>11. phase' # "starting" /\ phase' # "capturing" /\ phase' # "finalized"
  BY <1>1
<1> QED BY <1>1, <1>6, <1>8, <1>9, <1>10, <1>11, QuietFinal

LEMMA FreeQueueKeeps ==
  ASSUME HookInv, FreeQueue
  PROVE  HookInv'
<1>1. /\ todo # << >> /\ Head(todo)[1] = "queue" /\ Head(todo)[2] = None /\ queue' = FALSE
      /\ todo' = << >> \o Tail(todo)
      /\ UNCHANGED <<backend, objects, custom, thunk, route, gate, frames, phase, done>>
      /\ Head(todo)[1] \notin Starting \cup Inner
  BY DEF FreeQueue, Doing, Push, Starting, Inner
<1>2. /\ TypeOK /\ Ordered(todo) /\ PhaseFits /\ AbandonedOnce /\ TeardownFits /\ QueueFits
      /\ done \in BOOLEAN
  BY DEF HookInv, TypeOK
<1>3. Advanced(<< >>) /\ Elements(todo)' = Elements(Tail(todo))
  BY <1>1, <1>2, PushNone
<1>4. /\ todo' \in Seq(Steps) /\ Ordered(todo')
      /\ Elements(todo) = {Head(todo)} \cup Elements(Tail(todo))
      /\ \A u \in Elements(Tail(todo)) : Follows(Head(todo), u)
  BY <1>3 DEF Advanced
<1>5. phase \notin {"starting", "capturing"}
  BY <1>1, <1>2, <1>4 DEF PhaseFits
<1>6. \A s \in Elements(todo)' : s \in Elements(todo) /\ s[1] \notin Starting \cup {"finish"}
  BY <1>1, <1>2, <1>3, <1>4, <1>5 DEF PhaseFits, Follows
<1>7. ASSUME NEW o \in Objects, state[o] = "installed", Due("abandon", o)' PROVE Due("uninstall", o)'
  <2>1. Due("abandon", o)
    BY <1>6, <1>7 DEF Due
  <2>2. PICK s \in Elements(todo) : s[1] = "uninstall" /\ s[2] = o
    BY <1>2, <1>7, <2>1 DEF TeardownFits, Due
  <2>3. s \in Elements(todo)'
    BY <1>1, <1>3, <1>4, <2>2
  <2> QED BY <2>2, <2>3 DEF Due
<1>8. AbandonedOnce'
  <2>1. state' = state /\ leased' = leased /\ phase' = phase
    BY <1>1 DEF objects
  <2> QED BY <1>2, <1>6, <2>1 DEF AbandonedOnce, Due, Final
<1>9. QueueFits'
  <2>1. Due("queue", None)
    BY <1>1, <1>4 DEF Due
  <2>2. Recording' <=> Recording
    BY <1>1 DEF Recording, Counted, Inside
  <2> QED BY <1>2, <2>1, <2>2 DEF QueueFits
<1> QED BY <1>1, <1>2, <1>4, <1>5, <1>6, <1>7, <1>8, <1>9, QuietLater

----------------------------------------------------------------------------
(* Installation. *)

LEMMA BackendMoves ==
  /\ \A x \in Funcs : HB!Prepare(Agent, x) \/ HB!Activate(Agent, x) \/ HB!Uninstall(Agent, x)
                      \/ HB!Acquire(Agent, x) \/ HB!Release(Agent, x) => HB!Next
  /\ HB!Flush(Agent) \/ HB!Destroy(Agent) => HB!Next
  /\ \A ended \in BOOLEAN : HB!Shutdown(Agent, ended) => HB!Next
<1>1. ASSUME NEW x \in Funcs,
             HB!Prepare(Agent, x) \/ HB!Activate(Agent, x) \/ HB!Uninstall(Agent, x)
             \/ HB!Acquire(Agent, x) \/ HB!Release(Agent, x)
      PROVE  HB!Next
  BY <1>1, Zenon DEF HB!Next
<1>2. ASSUME HB!Flush(Agent) \/ HB!Destroy(Agent) PROVE HB!Next
  BY <1>2, Zenon DEF HB!Next
<1>3. ASSUME NEW ended \in BOOLEAN, HB!Shutdown(Agent, ended) PROVE HB!Next
  BY <1>3, Zenon DEF HB!Next
<1> QED BY <1>1, <1>2, <1>3, Zenon

\* What a step of the installation finds when it comes.
Ready(s) ==
  /\ \A c \in Builtin : s[1] \in {"patch", "activate"} /\ s[2] = c =>
         /\ ~Seen(c) /\ c \in leased /\ thunk[c] = LifeOf(c) /\ active[ObjectOf(c)]
         /\ s[1] = "activate" => Guarded(c)
  /\ \A r \in Roles : s[1] \in {"role", "activateRole"} /\ s[2] = r =>
         /\ ~Seen(r) /\ r \in leased
         /\ s[1] = "activateRole" => Guarded(r) /\ thunk[r] = PointOf(r)
  /\ \A p \in PointIds : Installs(s, p) => point[p] = "declared"
  /\ \A r \in Roles : s[1] \in {"revertRole", "dropLease"} /\ s[2] = r => point[PointOf(r)] = "failed"

LEMMA AllReady == InstallFits <=> \A s \in Elements(todo) : Ready(s)
<1>1. ASSUME InstallFits, NEW s \in Elements(todo) PROVE Ready(s)
  <2>1. ASSUME NEW c \in Builtin, s[1] \in {"patch", "activate"}, s[2] = c
        PROVE  /\ ~Seen(c) /\ c \in leased /\ thunk[c] = LifeOf(c) /\ active[ObjectOf(c)]
               /\ s[1] = "activate" => Guarded(c)
    <3>1. (s[1] = "patch" => Due("patch", c)) /\ (s[1] = "activate" => Due("activate", c))
      BY <1>1, <2>1 DEF Due
    <3> QED BY <1>1, <2>1, <3>1 DEF InstallFits
  <2>2. ASSUME NEW r \in Roles, s[1] \in {"role", "activateRole"}, s[2] = r
        PROVE  /\ ~Seen(r) /\ r \in leased
               /\ s[1] = "activateRole" => Guarded(r) /\ thunk[r] = PointOf(r)
    <3>1. (s[1] = "role" => Due("role", r)) /\ (s[1] = "activateRole" => Due("activateRole", r))
      BY <1>1, <2>2 DEF Due
    <3> QED BY <1>1, <2>2, <3>1 DEF InstallFits
  <2>3. \A p \in PointIds : Installs(s, p) => point[p] = "declared"
    BY <1>1 DEF InstallFits
  <2>4. ASSUME NEW r \in Roles, s[1] \in {"revertRole", "dropLease"}, s[2] = r
        PROVE  point[PointOf(r)] = "failed"
    <3>1. (s[1] = "revertRole" => Due("revertRole", r)) /\ (s[1] = "dropLease" => Due("dropLease", r))
      BY <1>1, <2>4 DEF Due
    <3> QED BY <1>1, <2>4, <3>1 DEF InstallFits
  <2> QED BY <2>1, <2>2, <2>3, <2>4 DEF Ready
<1>2. ASSUME \A s \in Elements(todo) : Ready(s) PROVE InstallFits
  <2>1. ASSUME NEW c \in Builtin, Due("patch", c) \/ Due("activate", c)
        PROVE  /\ ~Seen(c) /\ c \in leased /\ thunk[c] = LifeOf(c) /\ active[ObjectOf(c)]
               /\ Due("activate", c) => Guarded(c)
    BY <1>2, <2>1 DEF Due, Ready
  <2>2. ASSUME NEW r \in Roles, Due("role", r) \/ Due("activateRole", r)
        PROVE  /\ ~Seen(r) /\ r \in leased
               /\ Due("activateRole", r) => Guarded(r) /\ thunk[r] = PointOf(r)
    BY <1>2, <2>2 DEF Due, Ready
  <2>3. \A s \in Elements(todo), p \in PointIds : Installs(s, p) => point[p] = "declared"
    BY <1>2 DEF Ready
  <2>4. ASSUME NEW r \in Roles, Due("revertRole", r) \/ Due("dropLease", r)
        PROVE  point[PointOf(r)] = "failed"
    BY <1>2, <2>4 DEF Due, Ready
  <2> QED BY <2>1, <2>2, <2>3, <2>4 DEF InstallFits
<1> QED BY <1>1, <1>2

\* The steps behind the first one stay ready when only its own point changes.
LEMMA RestReady ==
  ASSUME HookInv, todo # << >>, Head(todo)[1] \in Starting, NEW u \in Elements(Tail(todo)),
         \A q \in PointIds : point'[q] = point[q] \/ (Installs(Head(todo), q) /\ point[q] # "failed")
  PROVE  Ready(u)'
<1>1. u \in Elements(todo) /\ Follows(Head(todo), u)
  BY Heading
<1>2. Ready(u)
  BY <1>1, AllReady DEF HookInv
<1>3. u[1] \notin Foremost
  BY <1>1 DEF Follows
<1>4. u[1] \notin {"patch", "activate", "role", "activateRole", "lease", "live"}
  BY <1>3 DEF Foremost
<1>5. ASSUME NEW p \in PointIds, Installs(u, p) PROVE point'[p] = "declared"
  <2>1. point[p] = "declared"
    BY <1>2, <1>5 DEF Ready
  <2>2. u[1] = "point" /\ u[2] = p
    BY <1>4, <1>5 DEF Installs
  <2>3. ~Installs(Head(todo), p)
    BY <1>1, <2>2 DEF Follows
  <2> QED BY <2>1, <2>3
<1>6. ASSUME NEW r \in Roles, u[1] \in {"revertRole", "dropLease"}, u[2] = r
      PROVE  point'[PointOf(r)] = "failed"
  <2>1. point[PointOf(r)] = "failed" /\ PointOf(r) \in PointIds
    BY <1>2, <1>6, Names DEF Ready
  <2> QED BY <2>1
<1> QED BY <1>4, <1>5, <1>6 DEF Ready, Installs

\* A step of the installation keeps the invariant if every function that may be seen
\* keeps what it is called with, or its point has failed.
LEMMA InstallStep ==
  ASSUME HookInv, todo # << >>, Head(todo)[1] \in Starting, NEW p, Advanced(p),
         HB!Next \/ UNCHANGED backend, leased' = holders'[Agent],
         UNCHANGED <<quiescent, flushed, alive, queue, frames, phase, done>>,
         state' \in [Objects -> {"inactive", "installed"}], active' \in [Objects -> BOOLEAN],
         \A o \in Objects : state[o] = "installed" => state'[o] = "installed",
         point' \in [PointIds -> {"declared", "installed", "failed"}],
         thunk' \in [Funcs -> Lives \cup {None}], route' \in [Lives -> AnyRoute],
         \A q \in PointIds : point'[q] = point[q] \/ (Installs(Head(todo), q) /\ point[q] # "failed"),
         \A s \in Elements(p) : s[1] \in Starting /\ Ready(s)',
         \A c \in jump' : \/ c \in jump /\ thunk'[c] = thunk[c]
                          \/ /\ thunk'[c] = Lifecycle(c) /\ Backed(c)'
                             /\ c \in Roles \/ state'[ObjectOf(c)] # "inactive",
         \A c \in Funcs : Seen(c) =>
             /\ slot'[c] = slot[c]
             /\ \/ Keeps(c) /\ (InUse(c)' => InUse(c))
                \/ c \in Roles /\ point'[PointOf(c)] = "failed"
  PROVE  HookInv'
<1>1. /\ TypeOK /\ RoutesBacked /\ JumpsLead
  BY DEF HookInv
<1>2. /\ phase = "starting" /\ \A s \in Elements(todo) : s[1] \in Starting
      /\ \A o \in Objects : state[o] \in {"inactive", "installed"}
  BY StartingFacts
<1>3. /\ Elements(todo)' = Elements(p) \cup Elements(Tail(todo))
      /\ Elements(todo) = {Head(todo)} \cup Elements(Tail(todo))
      /\ todo' \in Seq(Steps) /\ Ordered(todo')
  BY DEF Advanced
<1>4. HB!BackendInv' /\ \A c \in Funcs : Guarded(c) /\ c \in leased' => Guarded(c)'
  BY <1>1, KeptByBackend
<1>5. jump' \subseteq Funcs
  BY <1>4 DEF HB!BackendInv, HB!TypeOK
<1>6. TypeOK'
  BY <1>1, <1>3, <1>4 DEF TypeOK
<1>7. ASSUME NEW c \in Funcs, Seen(c)
      PROVE  /\ InUse(c)' => InUse(c) /\ Keeps(c)
             /\ IF c \in Roles THEN slot'[c] # None ELSE state'[ObjectOf(c)] # "inactive"
  <2>1. IF c \in Roles THEN slot[c] # None ELSE state[ObjectOf(c)] # "inactive"
    BY <1>1, <1>7 DEF RoutesBacked
  <2>2. IF c \in Roles THEN slot'[c] # None ELSE state'[ObjectOf(c)] # "inactive"
    <3>1. c \notin Roles => ObjectOf(c) \in Objects
      BY Names
    <3> QED BY <1>2, <1>7, <2>1, <3>1
  <2>3. c \in Roles /\ point'[PointOf(c)] = "failed" => ~InUse(c)'
    BY DEF InUse
  <2> QED BY <1>7, <2>2, <2>3
<1>8. ASSUME NEW f \in Routed
      PROVE  \/ f.life \in PointIds /\ point'[f.life] = "failed"
             \/ ~RolledPoint(f) /\ Keeps(f.c)
  <2>1. f \in Calls /\ f.c \in Funcs /\ Seen(f.c) /\ f.life = Lifecycle(f.c)
    BY <1>1, <1>8, CallsKnown DEF JumpsLead
  <2>2. CASE RolledPoint(f)
    BY <2>2 DEF RolledPoint
  <2>3. CASE ~RolledPoint(f) /\ ~Keeps(f.c)
    <3>1. f.c \in Roles /\ point'[PointOf(f.c)] = "failed"
      BY <2>1, <2>3
    <3> QED BY <2>1, <3>1, Names
  <2> QED BY <2>2, <2>3
<1>9. JumpsLead' /\ RoutesBacked' /\ CallsBacked'
  BY <1>4, <1>5, <1>7, <1>8, CallsStay
<1>10. \A s \in Elements(todo)' : s[1] \in Starting
  BY <1>2, <1>3
<1>11. InstallFits'
  <2>1. \A s \in Elements(todo)' : Ready(s)'
    BY <1>3, RestReady
  <2>2. (InstallFits <=> \A s \in Elements(todo) : Ready(s))'
    BY AllReady, PTL
  <2> QED BY <2>1, <2>2
<1>12. \A q \in PointIds : point'[q] \in {"declared", "installed", "failed"}
  OBVIOUS
<1>13. \A o \in Objects : state'[o] \in {"inactive", "installed"}
  OBVIOUS
<1> QED BY <1>2, <1>3, <1>6, <1>9, <1>10, <1>11, <1>12, <1>13, StartingStep

\* What stands behind a step of the installation may stand behind its successor.
LEMMA InstallFollows ==
  \A h, s, u : /\ h[1] \in Starting /\ s[1] \in Starting \ {"begin"} /\ Follows(h, u)
               /\ s[1] \in {"patch", "activate", "revertRole", "dropLease", "rolled"}
                  \/ (u[1] = "point" => (Installs(s, u[2]) => Installs(h, u[2])))
               => Follows(s, u)
<1> SUFFICES ASSUME NEW h, NEW s, NEW u, h[1] \in Starting, s[1] \in Starting \ {"begin"}, Follows(h, u),
                    s[1] \in {"patch", "activate", "revertRole", "dropLease", "rolled"}
                    \/ (u[1] = "point" => (Installs(s, u[2]) => Installs(h, u[2])))
             PROVE  Follows(s, u)
  OBVIOUS
<1>1. /\ h[1] \notin Inner /\ s[1] \notin Inner
      /\ s[1] \notin {"begin", "finalize", "drained", "attempt", "members", "destroy", "destroyHook", "abandon"}
  BY DEF Starting, Inner
<1>2. ~Final(s)
  BY <1>1 DEF Final
<1>3. u[1] = "point" => ~Installs(s, u[2])
  BY DEF Follows, Installs
<1> QED BY <1>1, <1>2, <1>3 DEF Follows

\* What the first step of an installation knows.
LEMMA InstallHead ==
  ASSUME HookInv, todo # << >>, Head(todo)[1] \in Starting
  PROVE  /\ TypeOK /\ HB!BackendInv /\ leased = holders[Agent] /\ Ordered(todo) /\ Ready(Head(todo))
         /\ state \in [Objects -> {"inactive", "installed"}] /\ active \in [Objects -> BOOLEAN]
         /\ alive \in [Objects -> BOOLEAN] /\ \A o \in Objects : alive[o]
         /\ point \in [PointIds -> {"declared", "installed", "failed"}]
         /\ thunk \in [Funcs -> Lives \cup {None}] /\ route \in [Lives -> AnyRoute]
         /\ \A c \in Builtin : Seen(c) => state[ObjectOf(c)] = "installed" /\ InUse(c) /\ c \in leased
         /\ \A r \in Roles : Seen(r) => \/ point[PointOf(r)] = "failed"
                                        \/ InUse(r) /\ r \in leased
<1>1. TypeOK /\ Ordered(todo) /\ RoutesBacked /\ Head(todo) \in Elements(todo) /\ InstallFits
  BY Heading DEF HookInv
<1>2. /\ \A o \in Objects : alive[o] /\ state[o] \in {"inactive", "installed"}
      /\ \A p \in PointIds : point[p] \in {"declared", "installed", "failed"}
  BY StartingFacts
<1>3. Ready(Head(todo))
  BY <1>1, AllReady
<1>4. ASSUME NEW c \in Builtin, Seen(c) PROVE state[ObjectOf(c)] = "installed" /\ InUse(c) /\ c \in leased
  <2>1. c \in Funcs /\ c \notin Roles /\ ObjectOf(c) \in Objects
    BY Names
  <2>2. state[ObjectOf(c)] = "installed"
    BY <1>1, <1>2, <1>4, <2>1 DEF RoutesBacked
  <2>3. InUse(c)
    BY <2>1, <2>2 DEF InUse
  <2> QED BY <1>1, <1>4, <2>1, <2>2, <2>3 DEF RoutesBacked, Backed, Guarded
<1>5. ASSUME NEW r \in Roles, Seen(r), point[PointOf(r)] # "failed" PROVE InUse(r) /\ r \in leased
  <2>1. r \in Funcs /\ PointOf(r) \in PointIds
    BY Names
  <2>2. InUse(r)
    BY <1>2, <1>5, <2>1 DEF InUse
  <2> QED BY <1>1, <1>5, <2>1, <2>2 DEF RoutesBacked, Backed, Guarded
<1>6. /\ HB!BackendInv /\ leased = holders[Agent]
      /\ state \in [Objects -> {"inactive", "installed"}] /\ active \in [Objects -> BOOLEAN]
      /\ alive \in [Objects -> BOOLEAN]
      /\ point \in [PointIds -> {"declared", "installed", "failed"}]
      /\ thunk \in [Funcs -> Lives \cup {None}] /\ route \in [Lives -> AnyRoute]
  BY <1>1, <1>2 DEF TypeOK
<1> QED BY <1>1, <1>2, <1>3, <1>4, <1>5, <1>6

\* A function that is not the step's own, and whose lifecycle keeps its route, is not disturbed.
LEMMA SameUse ==
  ASSUME NEW c \in Funcs,
         c \in Roles => point'[PointOf(c)] = point[PointOf(c)] /\ route'[PointOf(c)] = route[PointOf(c)],
         c \notin Roles => state'[ObjectOf(c)] = state[ObjectOf(c)] /\ route'[LifeOf(c)] = route[LifeOf(c)]
  PROVE  InUse(c)' <=> InUse(c)
BY DEF InUse

LEMMA ArmKeeps ==
  ASSUME HookInv, NEW c \in Builtin, Arm(c)
  PROVE  HookInv'
<1> DEFINE s == <<"patch", c, "late">>
           o == ObjectOf(c)
<1>1. /\ todo # << >> /\ Head(todo)[1] = "arm" /\ Head(todo)[2] = c
      /\ HB!Acquire(Agent, c) /\ leased' = leased \cup {c} /\ active' = [active EXCEPT ![o] = TRUE]
      /\ route' = [l \in Lives |-> IF l = LifeOf(c) THEN "record" ELSE route[l]]
      /\ thunk' = [thunk EXCEPT ![c] = LifeOf(c)]
      /\ todo' = << Step("patch", c, "late") >> \o Tail(todo)
      /\ UNCHANGED <<state, alive, quiescent, flushed, point, queue, frames, phase, done>>
  BY DEF Arm, Doing, Push, Routes, custom
<1>2. Head(todo)[1] \in Starting
  BY <1>1 DEF Starting
<1>3. /\ TypeOK /\ HB!BackendInv /\ leased = holders[Agent] /\ Ordered(todo)
      /\ state \in [Objects -> {"inactive", "installed"}] /\ active \in [Objects -> BOOLEAN]
      /\ alive \in [Objects -> BOOLEAN]
      /\ point \in [PointIds -> {"declared", "installed", "failed"}]
      /\ thunk \in [Funcs -> Lives \cup {None}] /\ route \in [Lives -> AnyRoute]
      /\ \A d \in Builtin : Seen(d) => state[ObjectOf(d)] = "installed" /\ InUse(d) /\ d \in leased
  BY <1>1, <1>2, InstallHead
<1>4. /\ c \in Funcs /\ c \notin Roles /\ o \in Objects /\ LifeOf(c) \in Lives
      /\ LifeOf(c) \notin PointIds
  BY Names
<1>5. /\ holders'[Agent] = holders[Agent] \cup {c} /\ c \notin leased
      /\ UNCHANGED <<entries, jump, slot>> /\ HB!Next /\ jump \subseteq Funcs
  BY <1>1, <1>3, <1>4, BackendEffects, BackendMoves
<1>6. ~Seen(c)
  BY <1>3, <1>5
<1>7. s \in Steps /\ Step("patch", c, "late") = s /\ s[1] = "patch" /\ s[2] = c
  BY <1>4, StepsOf, KnownKinds DEF Named
<1> HIDE DEF s, o
<1>8. s[1] \in Starting
  BY <1>7 DEF Starting
<1>9. Advanced(<< s >>) /\ Elements(<< s >>) = {s}
  <2>1. \A u \in Elements(Tail(todo)) : Follows(Head(todo), u) => Follows(s, u)
    BY <1>2, <1>7, <1>8, InstallFollows
  <2> QED BY <1>1, <1>3, <1>7, <2>1, PushOne, TwoSteps
<1>10. ~Seen(c)'
  BY <1>1, <1>5, <1>6 DEF Seen, Calls
<1>11. Ready(s)'
  <2>1. thunk'[c] = LifeOf(c) /\ active'[ObjectOf(c)] /\ c \in leased'
    BY <1>1, <1>3, <1>4 DEF o
  <2> QED BY <1>7, <1>10, <2>1 DEF Ready, Installs
<1>12. \A d \in jump' : d \in jump /\ thunk'[d] = thunk[d]
  <2>1. \A d \in jump : d # c
    BY <1>6 DEF Seen
  <2> QED BY <1>1, <1>3, <1>5, <2>1
<1>13. ASSUME NEW d \in Funcs, Seen(d) PROVE slot'[d] = slot[d] /\ Keeps(d) /\ (InUse(d)' => InUse(d))
  <2>1. Keeps(d)
    BY <1>1, <1>3, <1>5, Names DEF Keeps
  <2>2. CASE d \in Builtin
    BY <1>3, <1>5, <1>13, <2>1, <2>2
  <2>3. CASE d \in Roles
    <3>1. PointOf(d) \in PointIds /\ PointOf(d) \in Lives /\ PointOf(d) # LifeOf(c)
      BY <1>4, <2>3, Names
    <3>2. InUse(d)' <=> InUse(d)
      BY <1>1, <2>3, <3>1, SameUse
    <3> QED BY <1>5, <2>1, <3>2
  <2> QED BY <2>2, <2>3, Names
<1>14. /\ active' \in [Objects -> BOOLEAN] /\ thunk' \in [Funcs -> Lives \cup {None}]
       /\ route' \in [Lives -> AnyRoute]
  BY <1>1, <1>3, <1>4 DEF AnyRoute
<1> QED BY <1>1, <1>2, <1>3, <1>5, <1>8, <1>9, <1>11, <1>12, <1>13, <1>14, InstallStep

LEMMA PatchKeeps ==
  ASSUME HookInv, NEW c \in Builtin, Patch(c)
  PROVE  HookInv'
<1> DEFINE s == <<"activate", c, "late">>
<1>1. /\ todo # << >> /\ Head(todo)[1] = "patch" /\ Head(todo)[2] = c /\ HB!Prepare(Agent, c)
      /\ todo' = << Step("activate", c, "late") >> \o Tail(todo)
      /\ UNCHANGED <<state, active, alive, quiescent, flushed, leased, point, thunk, route, queue,
                     frames, phase, done>>
  BY DEF Patch, Doing, Push, objects, custom
<1>2. Head(todo)[1] \in Starting
  BY <1>1 DEF Starting
<1>3. /\ TypeOK /\ HB!BackendInv /\ leased = holders[Agent] /\ Ordered(todo) /\ Ready(Head(todo))
      /\ state \in [Objects -> {"inactive", "installed"}] /\ active \in [Objects -> BOOLEAN]
      /\ point \in [PointIds -> {"declared", "installed", "failed"}]
      /\ thunk \in [Funcs -> Lives \cup {None}] /\ route \in [Lives -> AnyRoute]
  BY <1>1, <1>2, InstallHead
<1>4. ~Seen(c) /\ c \in leased /\ thunk[c] = LifeOf(c) /\ active[ObjectOf(c)] /\ c \in Funcs
  BY <1>1, <1>3, Names DEF Ready
<1>5. /\ HB!Callable(c, slot[c], c)' /\ \A y \in Funcs : y # c => slot'[y] = slot[y]
      /\ UNCHANGED <<jump, holders>> /\ HB!Next
  BY <1>1, <1>3, <1>4, BackendEffects, BackendMoves
<1>6. s \in Steps /\ Step("activate", c, "late") = s /\ s[1] = "activate" /\ s[2] = c
  BY <1>4, StepsOf, KnownKinds DEF Named
<1> HIDE DEF s
<1>7. s[1] \in Starting
  BY <1>6 DEF Starting
<1>8. Advanced(<< s >>) /\ Elements(<< s >>) = {s}
  <2>1. \A u \in Elements(Tail(todo)) : Follows(Head(todo), u) => Follows(s, u)
    BY <1>2, <1>6, <1>7, InstallFollows
  <2> QED BY <1>1, <1>3, <1>6, <2>1, PushOne, TwoSteps
<1>9. Ready(s)'
  <2>1. ~Seen(c)'
    BY <1>1, <1>4, <1>5 DEF Seen, Calls
  <2>2. Guarded(c)'
    BY <1>1, <1>4, <1>5 DEF Guarded
  <2> QED BY <1>1, <1>4, <1>6, <2>1, <2>2 DEF Ready, Installs
<1>10. ASSUME NEW d \in Funcs, Seen(d) PROVE slot'[d] = slot[d] /\ Keeps(d) /\ (InUse(d)' => InUse(d))
  <2>1. slot'[d] = slot[d]
    BY <1>4, <1>5, <1>10
  <2>2. Keeps(d)
    BY <1>1, <2>1 DEF Keeps
  <2>3. InUse(d)' <=> InUse(d)
    BY <1>1, SameUse
  <2> QED BY <2>1, <2>2, <2>3
<1> QED BY <1>1, <1>2, <1>3, <1>5, <1>7, <1>8, <1>9, <1>10, InstallStep

LEMMA ActivateKeeps ==
  ASSUME HookInv, NEW c \in Builtin, Activate(c)
  PROVE  HookInv'
<1> DEFINE o == ObjectOf(c)
<1>1. /\ todo # << >> /\ Head(todo)[1] = "activate" /\ Head(todo)[2] = c /\ HB!Activate(Agent, c)
      /\ state' = [state EXCEPT ![o] = "installed"] /\ todo' = << >> \o Tail(todo)
      /\ UNCHANGED <<active, alive, quiescent, flushed, leased, point, thunk, route, queue,
                     frames, phase, done>>
  BY DEF Activate, Doing, Push, custom
<1>2. Head(todo)[1] \in Starting
  BY <1>1 DEF Starting
<1>3. /\ TypeOK /\ HB!BackendInv /\ leased = holders[Agent] /\ Ordered(todo) /\ Ready(Head(todo))
      /\ state \in [Objects -> {"inactive", "installed"}] /\ active \in [Objects -> BOOLEAN]
      /\ \A q \in Objects : alive[q]
      /\ point \in [PointIds -> {"declared", "installed", "failed"}]
      /\ thunk \in [Funcs -> Lives \cup {None}] /\ route \in [Lives -> AnyRoute]
      /\ \A d \in Builtin : Seen(d) => state[ObjectOf(d)] = "installed" /\ InUse(d) /\ d \in leased
  BY <1>1, <1>2, InstallHead
<1>4. /\ ~Seen(c) /\ c \in leased /\ thunk[c] = LifeOf(c) /\ active[o] /\ Guarded(c)
      /\ c \in Funcs /\ o \in Objects /\ Lifecycle(c) = LifeOf(c)
  BY <1>1, <1>3, Names DEF Ready
<1>5. jump' = jump \cup {c} /\ UNCHANGED <<holders, slot>> /\ HB!Next
  BY <1>1, <1>3, <1>4, BackendEffects, BackendMoves
<1> HIDE DEF o
<1>6. Advanced(<< >>) /\ Elements(<< >>) = {}
  BY <1>1, <1>3, PushNone, ElementsOfFew
<1>7. state'[o] = "installed" /\ state' \in [Objects -> {"inactive", "installed"}]
      /\ \A q \in Objects : state[q] = "installed" => state'[q] = "installed"
  BY <1>1, <1>3, <1>4
<1>8. Backed(c)'
  <2>1. Guarded(c)'
    BY <1>1, <1>3, <1>4, <1>5, KeptByBackend
  <2> QED BY <1>1, <1>3, <1>4, <2>1 DEF Backed, o
<1>9. \A d \in jump' : \/ d \in jump /\ thunk'[d] = thunk[d]
                       \/ /\ thunk'[d] = Lifecycle(d) /\ Backed(d)'
                          /\ d \in Roles \/ state'[ObjectOf(d)] # "inactive"
  BY <1>1, <1>4, <1>5, <1>7, <1>8 DEF o
<1>10. ASSUME NEW d \in Funcs, Seen(d) PROVE slot'[d] = slot[d] /\ Keeps(d) /\ (InUse(d)' => InUse(d))
  <2>1. Keeps(d) /\ slot'[d] = slot[d]
    BY <1>1, <1>5 DEF Keeps
  <2>2. CASE d \in Builtin
    BY <1>3, <1>10, <2>1, <2>2
  <2>3. CASE d \in Roles
    BY <1>1, <2>1, <2>3, SameUse
  <2> QED BY <2>2, <2>3, Names
<1> QED BY <1>1, <1>2, <1>3, <1>5, <1>6, <1>7, <1>9, <1>10, InstallStep

\* A point fails before anything of it is installed, or its last role is.
LEMMA PointSettledKeeps ==
  ASSUME HookInv, NEW p \in PointIds, Unresolved(p) \/ PointLive(p)
  PROVE  HookInv'
<1>1. /\ todo # << >> /\ Head(todo)[1] \in {"point", "live"} /\ Head(todo)[2] = p
      /\ \E v \in {"failed", "installed"} :
             /\ point' = [point EXCEPT ![p] = v]
             /\ v = "installed" => Head(todo)[1] = "live"
      /\ todo' = << >> \o Tail(todo)
      /\ UNCHANGED <<backend, state, active, alive, quiescent, flushed, leased, thunk, route, queue,
                     frames, phase, done>>
  BY DEF Unresolved, PointLive, Doing, Push, objects
<1>2. Head(todo)[1] \in Starting /\ Installs(Head(todo), p)
  BY <1>1 DEF Starting, Installs
<1>3. /\ TypeOK /\ HB!BackendInv /\ leased = holders[Agent] /\ Ordered(todo) /\ Ready(Head(todo))
      /\ state \in [Objects -> {"inactive", "installed"}] /\ active \in [Objects -> BOOLEAN]
      /\ point \in [PointIds -> {"declared", "installed", "failed"}]
      /\ thunk \in [Funcs -> Lives \cup {None}] /\ route \in [Lives -> AnyRoute]
  BY <1>1, <1>2, InstallHead
<1>4. point[p] = "declared"
  BY <1>2, <1>3 DEF Ready
<1>5. PICK v \in {"failed", "installed"} : point' = [point EXCEPT ![p] = v]
  BY <1>1
<1>6. UNCHANGED <<jump, holders, slot>>
  BY <1>1 DEF backend
<1>7. Advanced(<< >>) /\ Elements(<< >>) = {}
  BY <1>1, <1>3, PushNone, ElementsOfFew
<1>8. ASSUME NEW d \in Funcs, Seen(d)
      PROVE  /\ slot'[d] = slot[d]
             /\ \/ Keeps(d) /\ (InUse(d)' => InUse(d))
                \/ d \in Roles /\ point'[PointOf(d)] = "failed"
  <2>1. Keeps(d) /\ slot'[d] = slot[d]
    BY <1>1, <1>6 DEF Keeps
  <2>2. CASE d \in Roles /\ PointOf(d) = p
    <3>1. v = "failed" => point'[PointOf(d)] = "failed"
      BY <1>3, <1>5, <2>2
    <3>2. InUse(d)
      BY <1>4, <2>2 DEF InUse
    <3> QED BY <2>1, <2>2, <3>1, <3>2
  <2>3. CASE ~(d \in Roles /\ PointOf(d) = p)
    <3>1. d \in Roles => point'[PointOf(d)] = point[PointOf(d)]
      BY <1>3, <1>5, <2>3, Names
    <3> QED BY <1>1, <2>1, <3>1, SameUse
  <2> QED BY <2>2, <2>3
<1>9. /\ point' \in [PointIds -> {"declared", "installed", "failed"}]
      /\ \A q \in PointIds : point'[q] = point[q] \/ (Installs(Head(todo), q) /\ point[q] # "failed")
  BY <1>2, <1>3, <1>4, <1>5
<1> QED BY <1>1, <1>2, <1>3, <1>6, <1>7, <1>8, <1>9, InstallStep

\* The route of a point is stored: before its first role, or after its roll back.
LEMMA PointRoutedKeeps ==
  ASSUME HookInv, NEW p \in PointIds, InstallPoint(p) \/ RolledBack(p)
  PROVE  HookInv'
<1> DEFINE s == <<"lease", RolesOf(p)[1], "late">>
           steps == IF Head(todo)[1] = "point" THEN << s >> ELSE << >>
<1>1. s \in Steps /\ Step("lease", RolesOf(p)[1], "late") = s /\ s[1] = "lease" /\ s[2] = RolesOf(p)[1]
  BY Names, StepsOf, KnownKinds DEF Named
<1>2. /\ todo # << >> /\ Head(todo)[1] \in {"point", "rolled"} /\ Head(todo)[2] = p
      /\ \E r \in {"record", "original"} :
             route' = [l \in Lives |-> IF l = p THEN r ELSE route[l]]
      /\ todo' = steps \o Tail(todo)
      /\ UNCHANGED <<backend, state, active, alive, quiescent, flushed, leased, point, thunk, queue,
                     frames, phase, done>>
  BY <1>1 DEF InstallPoint, RolledBack, Doing, Push, Routes, objects, custom
<1> HIDE DEF s
<1>3. Head(todo)[1] \in Starting /\ s[1] \in Starting
  BY <1>1, <1>2 DEF Starting
<1>4. /\ TypeOK /\ HB!BackendInv /\ leased = holders[Agent] /\ Ordered(todo) /\ Ready(Head(todo))
      /\ state \in [Objects -> {"inactive", "installed"}] /\ active \in [Objects -> BOOLEAN]
      /\ point \in [PointIds -> {"declared", "installed", "failed"}]
      /\ thunk \in [Funcs -> Lives \cup {None}] /\ route \in [Lives -> AnyRoute]
      /\ \A r \in Roles : Seen(r) => point[PointOf(r)] = "failed" \/ InUse(r)
  BY <1>2, <1>3, InstallHead
<1>5. \A q : Installs(s, q) => q = p
  BY <1>1, Names DEF Installs
<1>6. Advanced(steps) /\ \A u \in Elements(steps) : u = s /\ Head(todo)[1] = "point"
  <2>1. CASE Head(todo)[1] = "point"
    <3>1. \A q : Installs(s, q) => Installs(Head(todo), q)
      BY <1>2, <1>5, <2>1 DEF Installs
    <3>2. \A u \in Elements(Tail(todo)) : Follows(Head(todo), u) => Follows(s, u)
      BY <1>1, <1>3, <3>1, InstallFollows
    <3>3. Advanced(<< s >>) /\ Elements(<< s >>) = {s}
      BY <1>1, <1>2, <1>4, <2>1, <3>2, PushOne, TwoSteps
    <3> QED BY <2>1, <3>3
  <2>2. CASE Head(todo)[1] # "point"
    BY <1>2, <1>4, <2>2, PushNone, ElementsOfFew
  <2> QED BY <2>1, <2>2
<1>7. ASSUME NEW u \in Elements(steps) PROVE u[1] \in Starting /\ Ready(u)'
  <2>1. u = s /\ Installs(Head(todo), p)
    BY <1>2, <1>6 DEF Installs
  <2>2. point[p] = "declared"
    BY <1>4, <2>1 DEF Ready
  <2>3. \A q \in PointIds : Installs(s, q) => point'[q] = "declared"
    BY <1>2, <1>5, <2>2
  <2> QED BY <1>1, <1>3, <2>1, <2>3 DEF Ready, Installs
<1> HIDE DEF steps
<1>8. UNCHANGED <<jump, holders, slot>>
  BY <1>2 DEF backend
<1>9. ASSUME NEW d \in Funcs, Seen(d)
      PROVE  /\ slot'[d] = slot[d]
             /\ \/ Keeps(d) /\ (InUse(d)' => InUse(d))
                \/ d \in Roles /\ point'[PointOf(d)] = "failed"
  <2>1. Keeps(d) /\ slot'[d] = slot[d]
    BY <1>2, <1>8 DEF Keeps
  <2>2. CASE d \in Roles
    BY <1>2, <1>4, <1>9, <2>1, <2>2
  <2>3. CASE d \notin Roles
    <3>1. LifeOf(d) \in Lives /\ LifeOf(d) # p
      BY <2>3, Names
    <3>2. route'[LifeOf(d)] = route[LifeOf(d)]
      BY <1>2, <3>1
    <3> QED BY <1>2, <2>1, <2>3, <3>2, SameUse
  <2> QED BY <2>2, <2>3
<1>10. route' \in [Lives -> AnyRoute]
  BY <1>2, <1>4 DEF AnyRoute
<1> QED BY <1>2, <1>3, <1>4, <1>6, <1>7, <1>8, <1>9, <1>10, InstallStep

LEMMA LeaseRoleKeeps ==
  ASSUME HookInv, NEW r \in Roles, LeaseRole(r)
  PROVE  HookInv'
<1> DEFINE s == <<"role", r, "late">>
<1>1. /\ todo # << >> /\ Head(todo)[1] = "lease" /\ Head(todo)[2] = r
      /\ HB!Acquire(Agent, r) /\ leased' = leased \cup {r}
      /\ todo' = << Step("role", r, "late") >> \o Tail(todo)
      /\ UNCHANGED <<state, active, alive, quiescent, flushed, point, thunk, route, queue, frames,
                     phase, done>>
  BY DEF LeaseRole, Doing, Push, custom
<1>2. Head(todo)[1] \in Starting
  BY <1>1 DEF Starting
<1>3. /\ TypeOK /\ HB!BackendInv /\ leased = holders[Agent] /\ Ordered(todo) /\ Ready(Head(todo))
      /\ state \in [Objects -> {"inactive", "installed"}] /\ active \in [Objects -> BOOLEAN]
      /\ point \in [PointIds -> {"declared", "installed", "failed"}]
      /\ thunk \in [Funcs -> Lives \cup {None}] /\ route \in [Lives -> AnyRoute]
      /\ Seen(r) => point[PointOf(r)] = "failed" \/ r \in leased
  BY <1>1, <1>2, InstallHead
<1>4. r \in Funcs /\ PointOf(r) \in PointIds /\ Installs(Head(todo), PointOf(r))
  BY <1>1, Names DEF Installs
<1>5. point[PointOf(r)] = "declared"
  BY <1>3, <1>4 DEF Ready
<1>6. /\ holders'[Agent] = holders[Agent] \cup {r} /\ r \notin leased
      /\ UNCHANGED <<jump, slot>> /\ HB!Next
  BY <1>1, <1>3, <1>4, BackendEffects, BackendMoves
<1>7. ~Seen(r)
  BY <1>3, <1>5, <1>6
<1>8. s \in Steps /\ Step("role", r, "late") = s /\ s[1] = "role" /\ s[2] = r
  BY <1>4, StepsOf, KnownKinds DEF Named
<1> HIDE DEF s
<1>9. s[1] \in Starting
  BY <1>8 DEF Starting
<1>10. \A q : Installs(s, q) => Installs(Head(todo), q) /\ q = PointOf(r)
  BY <1>1, <1>8 DEF Installs
<1>11. Advanced(<< s >>) /\ Elements(<< s >>) = {s}
  <2>1. \A u \in Elements(Tail(todo)) : Follows(Head(todo), u) => Follows(s, u)
    BY <1>2, <1>8, <1>9, <1>10, InstallFollows
  <2> QED BY <1>1, <1>3, <1>8, <2>1, PushOne, TwoSteps
<1>12. Ready(s)'
  <2>1. ~Seen(r)'
    BY <1>1, <1>6, <1>7 DEF Seen, Calls
  <2>2. \A q \in PointIds : Installs(s, q) => point'[q] = "declared"
    BY <1>1, <1>5, <1>10
  <2> QED BY <1>1, <1>8, <2>1, <2>2 DEF Ready, Installs
<1>13. ASSUME NEW d \in Funcs, Seen(d) PROVE slot'[d] = slot[d] /\ Keeps(d) /\ (InUse(d)' => InUse(d))
  <2>1. slot'[d] = slot[d] /\ Keeps(d)
    BY <1>1, <1>6 DEF Keeps
  <2>2. InUse(d)' <=> InUse(d)
    BY <1>1, SameUse
  <2> QED BY <2>1, <2>2
<1> QED BY <1>1, <1>2, <1>3, <1>6, <1>9, <1>11, <1>12, <1>13, InstallStep

LEMMA PatchRoleKeeps ==
  ASSUME HookInv, NEW r \in Roles, PatchRole(r)
  PROVE  HookInv'
<1> DEFINE s == <<"activateRole", r, "late">>
<1>1. /\ todo # << >> /\ Head(todo)[1] = "role" /\ Head(todo)[2] = r /\ HB!Prepare(Agent, r)
      /\ thunk' = [thunk EXCEPT ![r] = PointOf(r)]
      /\ todo' = << Step("activateRole", r, "late") >> \o Tail(todo)
      /\ UNCHANGED <<state, active, alive, quiescent, flushed, leased, point, route, queue,
                     frames, phase, done>>
  BY DEF PatchRole, Doing, Push, objects, custom
<1>2. Head(todo)[1] \in Starting
  BY <1>1 DEF Starting
<1>3. /\ TypeOK /\ HB!BackendInv /\ leased = holders[Agent] /\ Ordered(todo) /\ Ready(Head(todo))
      /\ state \in [Objects -> {"inactive", "installed"}] /\ active \in [Objects -> BOOLEAN]
      /\ point \in [PointIds -> {"declared", "installed", "failed"}]
      /\ thunk \in [Funcs -> Lives \cup {None}] /\ route \in [Lives -> AnyRoute]
  BY <1>1, <1>2, InstallHead
<1>4. /\ r \in Funcs /\ PointOf(r) \in PointIds /\ PointOf(r) \in Lives
      /\ Installs(Head(todo), PointOf(r))
  BY <1>1, Names DEF Installs
<1>5. ~Seen(r) /\ r \in leased /\ point[PointOf(r)] = "declared"
  BY <1>1, <1>3, <1>4 DEF Ready
<1>6. /\ HB!Callable(r, slot[r], r)' /\ \A y \in Funcs : y # r => slot'[y] = slot[y]
      /\ UNCHANGED <<jump, holders>> /\ HB!Next /\ jump \subseteq Funcs
  BY <1>1, <1>3, <1>4, BackendEffects, BackendMoves
<1>7. s \in Steps /\ Step("activateRole", r, "late") = s /\ s[1] = "activateRole" /\ s[2] = r
  BY <1>4, StepsOf, KnownKinds DEF Named
<1> HIDE DEF s
<1>8. s[1] \in Starting
  BY <1>7 DEF Starting
<1>9. \A q : Installs(s, q) => Installs(Head(todo), q) /\ q = PointOf(r)
  BY <1>1, <1>7 DEF Installs
<1>10. Advanced(<< s >>) /\ Elements(<< s >>) = {s}
  <2>1. \A u \in Elements(Tail(todo)) : Follows(Head(todo), u) => Follows(s, u)
    BY <1>2, <1>7, <1>8, <1>9, InstallFollows
  <2> QED BY <1>1, <1>3, <1>7, <2>1, PushOne, TwoSteps
<1>11. Ready(s)'
  <2>1. ~Seen(r)'
    BY <1>1, <1>5, <1>6 DEF Seen, Calls
  <2>2. Guarded(r)' /\ thunk'[r] = PointOf(r)
    BY <1>1, <1>3, <1>4, <1>5, <1>6 DEF Guarded
  <2>3. \A q \in PointIds : Installs(s, q) => point'[q] = "declared"
    BY <1>1, <1>5, <1>9
  <2> QED BY <1>1, <1>5, <1>7, <2>1, <2>2, <2>3 DEF Ready, Installs
<1>12. ASSUME NEW d \in Funcs, Seen(d) PROVE slot'[d] = slot[d] /\ Keeps(d) /\ (InUse(d)' => InUse(d))
  <2>1. slot'[d] = slot[d]
    BY <1>5, <1>6, <1>12
  <2>2. Keeps(d)
    BY <1>1, <2>1 DEF Keeps
  <2>3. InUse(d)' <=> InUse(d)
    BY <1>1, SameUse
  <2> QED BY <2>1, <2>2, <2>3
<1>13. \A d \in jump' : d \in jump /\ thunk'[d] = thunk[d]
  <2>1. \A d \in jump : d # r
    BY <1>5 DEF Seen
  <2> QED BY <1>1, <1>3, <1>6, <2>1
<1>14. thunk' \in [Funcs -> Lives \cup {None}]
  BY <1>1, <1>3, <1>4
<1> QED BY <1>1, <1>2, <1>3, <1>6, <1>8, <1>10, <1>11, <1>12, <1>13, <1>14, InstallStep

LEMMA NextSteps ==
  ASSUME NEW r \in Roles
  PROVE  /\ NextStep(r) \in Steps /\ NextStep(r)[1] \in {"live", "lease"}
         /\ \A q : Installs(NextStep(r), q) => q = PointOf(r)
<1> DEFINE p == PointOf(r)
           i == CHOOSE k \in 1 .. Len(RolesOf(p)) : RolesOf(p)[k] = r
<1>1. p \in PointIds /\ r \in Elements(RolesOf(p)) /\ \A x \in Elements(RolesOf(p)) : x \in Roles /\ PointOf(x) = p
  BY Names
<1>2. Len(RolesOf(p)) \in Nat
  BY <1>1, CustomNames, SeqElements
<1>3. i \in 1 .. Len(RolesOf(p))
  BY <1>1 DEF Elements
<1>4. NextStep(r) = IF i = Len(RolesOf(p)) THEN <<"live", p, "late">> ELSE <<"lease", RolesOf(p)[i + 1], "late">>
  BY DEF NextStep, Step
<1> HIDE DEF i
<1>5. CASE i = Len(RolesOf(p))
  <2>1. <<"live", p, "late">> \in Steps
    BY <1>1, StepsOf, KnownKinds DEF Named
  <2> QED BY <1>4, <1>5, <2>1 DEF Installs
<1>6. CASE i # Len(RolesOf(p))
  <2>1. i + 1 \in 1 .. Len(RolesOf(p))
    BY <1>2, <1>3, <1>6
  <2>2. RolesOf(p)[i + 1] \in Elements(RolesOf(p))
    BY <2>1 DEF Elements
  <2>3. RolesOf(p)[i + 1] \in Roles /\ PointOf(RolesOf(p)[i + 1]) = p
    BY <1>1, <2>2
  <2>4. <<"lease", RolesOf(p)[i + 1], "late">> \in Steps
    BY <2>3, Names, StepsOf, KnownKinds DEF Named
  <2> QED BY <1>4, <1>6, <2>3, <2>4 DEF Installs
<1> QED BY <1>5, <1>6

LEMMA ActivateRoleKeeps ==
  ASSUME HookInv, NEW r \in Roles, ActivateRole(r)
  PROVE  HookInv'
<1> DEFINE s == NextStep(r)
<1>1. /\ todo # << >> /\ Head(todo)[1] = "activateRole" /\ Head(todo)[2] = r /\ HB!Activate(Agent, r)
      /\ todo' = << s >> \o Tail(todo)
      /\ UNCHANGED <<state, active, alive, quiescent, flushed, leased, point, thunk, route, queue,
                     frames, phase, done>>
  BY DEF ActivateRole, Doing, Push, objects
<1>2. Head(todo)[1] \in Starting
  BY <1>1 DEF Starting
<1>3. /\ TypeOK /\ HB!BackendInv /\ leased = holders[Agent] /\ Ordered(todo) /\ Ready(Head(todo))
      /\ state \in [Objects -> {"inactive", "installed"}] /\ active \in [Objects -> BOOLEAN]
      /\ point \in [PointIds -> {"declared", "installed", "failed"}]
      /\ thunk \in [Funcs -> Lives \cup {None}] /\ route \in [Lives -> AnyRoute]
  BY <1>1, <1>2, InstallHead
<1>4. /\ r \in Funcs /\ r \notin Builtin /\ PointOf(r) \in PointIds /\ Lifecycle(r) = PointOf(r)
      /\ Installs(Head(todo), PointOf(r))
  BY <1>1, Names DEF Installs
<1>5. ~Seen(r) /\ r \in leased /\ Guarded(r) /\ thunk[r] = PointOf(r) /\ point[PointOf(r)] = "declared"
  BY <1>1, <1>3, <1>4 DEF Ready
<1>6. jump' = jump \cup {r} /\ UNCHANGED <<holders, slot>> /\ HB!Next
  BY <1>1, <1>3, <1>4, BackendEffects, BackendMoves
<1>7. s \in Steps /\ s[1] \in {"live", "lease"} /\ \A q : Installs(s, q) => q = PointOf(r)
  BY NextSteps
<1> HIDE DEF s
<1>8. s[1] \in Starting
  BY <1>7 DEF Starting
<1>9. \A q : Installs(s, q) => Installs(Head(todo), q)
  BY <1>4, <1>7
<1>10. Advanced(<< s >>) /\ Elements(<< s >>) = {s}
  <2>1. \A u \in Elements(Tail(todo)) : Follows(Head(todo), u) => Follows(s, u)
    BY <1>2, <1>7, <1>8, <1>9, InstallFollows
  <2> QED BY <1>1, <1>3, <1>7, <2>1, PushOne, TwoSteps
<1>11. Ready(s)'
  <2>1. \A q \in PointIds : Installs(s, q) => point'[q] = "declared"
    BY <1>1, <1>5, <1>7
  <2> QED BY <1>7, <2>1 DEF Ready, Installs
<1>12. Backed(r)'
  <2>1. Guarded(r)'
    BY <1>1, <1>3, <1>4, <1>5, <1>6, KeptByBackend
  <2> QED BY <1>4, <2>1 DEF Backed
<1>13. \A d \in jump' : \/ d \in jump /\ thunk'[d] = thunk[d]
                        \/ /\ thunk'[d] = Lifecycle(d) /\ Backed(d)'
                           /\ d \in Roles \/ state'[ObjectOf(d)] # "inactive"
  BY <1>1, <1>4, <1>5, <1>6, <1>12
<1>14. ASSUME NEW d \in Funcs, Seen(d) PROVE slot'[d] = slot[d] /\ Keeps(d) /\ (InUse(d)' => InUse(d))
  <2>1. slot'[d] = slot[d] /\ Keeps(d)
    BY <1>1, <1>6 DEF Keeps
  <2>2. InUse(d)' <=> InUse(d)
    BY <1>1, SameUse
  <2> QED BY <2>1, <2>2
<1> QED BY <1>1, <1>2, <1>3, <1>6, <1>8, <1>10, <1>11, <1>13, <1>14, InstallStep

LEMMA RoleFailsKeeps ==
  ASSUME HookInv, NEW r \in Roles, RoleFails(r)
  PROVE  HookInv'
<1> DEFINE p == PointOf(r)
           a == ForEach("revertRole", RolesOf(p), "now")
           y == <<"rolled", p, "now">>
<1>1. p \in PointIds /\ r \in Funcs /\ \A x \in Elements(RolesOf(p)) : x \in Roles /\ PointOf(x) = p
  BY Names
<1>2. y \in Steps /\ Step("rolled", p, "now") = y /\ y[1] = "rolled"
  BY <1>1, StepsOf, KnownKinds DEF Named
<1>3. /\ todo # << >> /\ Head(todo)[1] = "role" /\ Head(todo)[2] = r
      /\ HB!Release(Agent, r) /\ leased' = leased \ {r} /\ point' = [point EXCEPT ![p] = "failed"]
      /\ todo' = (a \o << y >>) \o Tail(todo)
      /\ UNCHANGED <<state, active, alive, quiescent, flushed, thunk, route, queue, frames,
                     phase, done>>
  BY <1>2 DEF RoleFails, Doing, Push
<1>4. Head(todo)[1] \in Starting /\ Installs(Head(todo), p)
  BY <1>3 DEF Starting, Installs
<1>5. /\ TypeOK /\ HB!BackendInv /\ leased = holders[Agent] /\ Ordered(todo) /\ Ready(Head(todo))
      /\ state \in [Objects -> {"inactive", "installed"}] /\ active \in [Objects -> BOOLEAN]
      /\ point \in [PointIds -> {"declared", "installed", "failed"}]
      /\ thunk \in [Funcs -> Lives \cup {None}] /\ route \in [Lives -> AnyRoute]
  BY <1>3, <1>4, InstallHead
<1>6. ~Seen(r) /\ point[p] = "declared"
  BY <1>1, <1>3, <1>4, <1>5 DEF Ready
<1>7. /\ holders'[Agent] = holders[Agent] \ {r} /\ UNCHANGED <<jump, slot>> /\ HB!Next
  BY <1>1, <1>3, <1>5, BackendEffects, BackendMoves
<1>8. a \in Seq(Steps) /\ \A u \in Elements(a) : u[1] = "revertRole" /\ u[2] \in Elements(RolesOf(p))
  <2>1. RolesOf(p) \in Seq(Elements(RolesOf(p))) /\ Elements(RolesOf(p)) \subseteq Named
    BY <1>1, NameSeqs
  <2> QED BY <2>1, EachStep, KnownKinds
<1> HIDE DEF a, y, p
<1>9. \A s, u : s[1] \in {"revertRole", "rolled"} /\ u[1] \in {"revertRole", "rolled"} => Follows(s, u)
  BY DEF Follows, Foremost, Inner, Final
<1>10. Ordered(a)
  <2>1. \A i \in 1 .. Len(a) : a[i][1] = "revertRole"
    BY <1>8 DEF Elements
  <2> QED BY <1>9, <2>1 DEF Ordered
<1>11. << y >> \in Seq(Steps) /\ Elements(<< y >>) = {y} /\ Ordered(<< y >>)
  BY <1>2, TwoSteps
<1>12. /\ a \o << y >> \in Seq(Steps) /\ Ordered(a \o << y >>)
       /\ Elements(a \o << y >>) = Elements(a) \cup {y}
  <2>1. \A s \in Elements(a), u \in Elements(<< y >>) : Follows(s, u)
    BY <1>2, <1>8, <1>9, <1>11
  <2> QED BY <1>8, <1>10, <1>11, <2>1, Joined
<1>13. \A s \in Elements(a \o << y >>) : s[1] \in {"revertRole", "rolled"}
                                         /\ (s[1] = "revertRole" => s[2] \in Elements(RolesOf(p)))
  BY <1>2, <1>8, <1>12
<1>14. Advanced(a \o << y >>)
  <2>1. \A s \in Elements(a \o << y >>) : s[1] \in Starting \ {"begin"}
    BY <1>13 DEF Starting
  <2>2. \A s \in Elements(a \o << y >>), u \in Elements(Tail(todo)) : Follows(Head(todo), u) => Follows(s, u)
    BY <1>4, <1>13, <2>1, InstallFollows
  <2> QED BY <1>3, <1>5, <1>12, <2>2, Pushed
<1>15. point'[p] = "failed" /\ point' \in [PointIds -> {"declared", "installed", "failed"}]
       /\ \A q \in PointIds : q # p => point'[q] = point[q]
  BY <1>1, <1>3, <1>5
<1>16. ASSUME NEW s \in Elements(a \o << y >>) PROVE s[1] \in Starting /\ Ready(s)'
  <2>1. s[1] \in Starting
    BY <1>13 DEF Starting
  <2>2. ASSUME NEW x \in Roles, s[1] = "revertRole", s[2] = x PROVE point'[PointOf(x)] = "failed"
    BY <1>1, <1>13, <1>15, <2>2
  <2> QED BY <1>13, <2>1, <2>2 DEF Ready, Installs
<1>17. ASSUME NEW d \in Funcs, Seen(d)
       PROVE  /\ slot'[d] = slot[d]
              /\ \/ Keeps(d) /\ (InUse(d)' => InUse(d))
                 \/ d \in Roles /\ point'[PointOf(d)] = "failed"
  <2>1. slot'[d] = slot[d] /\ Keeps(d)
    BY <1>3, <1>6, <1>7, <1>17 DEF Keeps
  <2>2. CASE d \in Roles /\ PointOf(d) = p
    BY <1>15, <2>1, <2>2
  <2>3. CASE ~(d \in Roles /\ PointOf(d) = p)
    <3>1. d \in Roles => point'[PointOf(d)] = point[PointOf(d)]
      BY <1>15, <2>3, Names
    <3> QED BY <1>3, <2>1, <3>1, SameUse
  <2> QED BY <2>2, <2>3
<1>18. \A q \in PointIds : point'[q] = point[q] \/ (Installs(Head(todo), q) /\ point[q] # "failed")
  BY <1>4, <1>6, <1>15
<1>19. \A d \in jump' : d \in jump /\ thunk'[d] = thunk[d]
  BY <1>3, <1>7
<1>20. leased' = holders'[Agent] /\ todo # << >>
  BY <1>3, <1>5, <1>7
<1> QED BY <1>3, <1>4, <1>5, <1>7, <1>14, <1>15, <1>16, <1>17, <1>18, <1>19, <1>20, InstallStep

\* A role that is rolled back is reverted, then its lease goes.
LEMMA RollBackKeeps ==
  ASSUME HookInv, NEW r \in Roles, DropLease(r) \/ Revert("revertRole", r)
  PROVE  HookInv'
<1> DEFINE s == <<"dropLease", r, "now">>
           steps == IF Head(todo)[1] = "revertRole" /\ r \in hooked THEN << s >> ELSE << >>
<1>1. r \in Funcs /\ PointOf(r) \in PointIds
  BY Names
<1>2. s \in Steps /\ Step("dropLease", r, "now") = s /\ s[1] = "dropLease" /\ s[2] = r
  BY <1>1, StepsOf, KnownKinds DEF Named
<1>3. /\ todo # << >> /\ Head(todo)[1] \in {"dropLease", "revertRole"} /\ Head(todo)[2] = r
      /\ todo' = steps \o Tail(todo)
      /\ UNCHANGED <<state, active, alive, quiescent, flushed, point, thunk, route, queue, frames,
                     phase, done>>
      /\ \/ HB!Release(Agent, r) /\ leased' = leased \ {r}
         \/ HB!Uninstall(Agent, r) /\ leased' = leased
         \/ UNCHANGED backend /\ leased' = leased
  BY <1>2 DEF DropLease, Revert, Doing, Push, objects, custom
<1> HIDE DEF s
<1>4. Head(todo)[1] \in Starting /\ s[1] \in Starting
  BY <1>2, <1>3 DEF Starting
<1>5. /\ TypeOK /\ HB!BackendInv /\ leased = holders[Agent] /\ Ordered(todo) /\ Ready(Head(todo))
      /\ state \in [Objects -> {"inactive", "installed"}] /\ active \in [Objects -> BOOLEAN]
      /\ point \in [PointIds -> {"declared", "installed", "failed"}]
      /\ thunk \in [Funcs -> Lives \cup {None}] /\ route \in [Lives -> AnyRoute]
  BY <1>3, <1>4, InstallHead
<1>6. point[PointOf(r)] = "failed"
  BY <1>3, <1>5 DEF Ready
<1>7. /\ leased' = holders'[Agent] /\ leased \ {r} \subseteq leased' /\ jump' \subseteq jump
      /\ slot' = slot /\ (HB!Next \/ UNCHANGED backend)
  <2>1. CASE HB!Release(Agent, r) /\ leased' = leased \ {r}
    BY <1>1, <1>5, <2>1, BackendEffects, BackendMoves
  <2>2. CASE HB!Uninstall(Agent, r) /\ leased' = leased
    BY <1>1, <1>5, <2>2, BackendEffects, BackendMoves
  <2>3. CASE UNCHANGED backend /\ leased' = leased
    BY <1>5, <2>3 DEF backend
  <2> QED BY <1>3, <2>1, <2>2, <2>3
<1>8. Advanced(steps) /\ \A u \in Elements(steps) : u = s
  <2>1. CASE steps = << s >>
    <3>1. \A u \in Elements(Tail(todo)) : Follows(Head(todo), u) => Follows(s, u)
      BY <1>2, <1>4, InstallFollows
    <3>2. Advanced(<< s >>) /\ Elements(<< s >>) = {s}
      BY <1>2, <1>3, <1>5, <2>1, <3>1, PushOne, TwoSteps
    <3> QED BY <2>1, <3>2
  <2>2. CASE steps = << >>
    BY <1>3, <1>5, <2>2, PushNone, ElementsOfFew
  <2> QED BY <2>1, <2>2
<1> HIDE DEF steps
<1>9. ASSUME NEW u \in Elements(steps) PROVE u[1] \in Starting /\ Ready(u)'
  <2>1. \A x \in Roles : u[2] = x => point'[PointOf(x)] = "failed"
    BY <1>2, <1>3, <1>6, <1>8
  <2> QED BY <1>2, <1>4, <1>8, <2>1 DEF Ready, Installs
<1>10. ASSUME NEW d \in Funcs, Seen(d)
       PROVE  /\ slot'[d] = slot[d]
              /\ \/ Keeps(d) /\ (InUse(d)' => InUse(d))
                 \/ d \in Roles /\ point'[PointOf(d)] = "failed"
  <2>1. CASE d = r
    BY <1>3, <1>6, <1>7, <2>1
  <2>2. CASE d # r
    <3>1. slot'[d] = slot[d] /\ Keeps(d)
      BY <1>3, <1>7, <2>2 DEF Keeps
    <3> QED BY <1>3, <3>1, SameUse
  <2> QED BY <2>1, <2>2
<1>11. \A d \in jump' : d \in jump /\ thunk'[d] = thunk[d]
  BY <1>3, <1>7
<1> QED BY <1>3, <1>4, <1>5, <1>7, <1>8, <1>9, <1>10, <1>11, InstallStep

\* The first function of an object is refused: nothing of the object has been seen.
LEMMA PatchFailsKeeps ==
  ASSUME HookInv, NEW c \in Builtin, PatchFails(c)
  PROVE  HookInv'
<1> DEFINE o == ObjectOf(c)
           steps == IF o = Vm THEN << >> ELSE HeapUninstall("late")
<1>1. /\ todo # << >> /\ Head(todo)[1] = "patch" /\ Head(todo)[2] = c /\ state[o] = "inactive"
      /\ HB!Release(Agent, c) /\ leased' = leased \ {c} /\ active' = [active EXCEPT ![o] = FALSE]
      /\ route' = [l \in Lives |-> IF l = LifeOf(c) THEN "target" ELSE route[l]]
      /\ StartFails(steps)
      /\ UNCHANGED <<state, alive, quiescent, flushed, point, thunk, queue, frames, done>>
  BY DEF PatchFails, Doing, Routes, custom
<1>2. Head(todo)[1] \in Starting
  BY <1>1 DEF Starting
<1>3. /\ TypeOK /\ HB!BackendInv /\ leased = holders[Agent] /\ active \in [Objects -> BOOLEAN]
      /\ route \in [Lives -> AnyRoute]
      /\ \A d \in Builtin : Seen(d) => state[ObjectOf(d)] = "installed"
  BY <1>1, <1>2, InstallHead
<1>4. c \in Funcs /\ c \notin Roles /\ o \in Objects
  BY Names
<1>5. /\ holders'[Agent] = holders[Agent] \ {c} /\ HB!Next
      /\ UNCHANGED <<entries, jump, slot, interceptor>> /\ jump \subseteq Funcs
  BY <1>1, <1>3, <1>4, BackendEffects, BackendMoves
<1>6. steps \in Seq(Steps) /\ \A s \in Elements(steps) : s[1] \in {"uninstall", "flush"}
  <2>1. << >> \in Seq(Steps) /\ Elements(<< >>) = {}
    BY DEF Elements
  <2> QED BY <2>1, TeardownPlans
<1> HIDE DEF steps
<1>7. /\ todo' \in Seq(Steps) /\ Ordered(todo') /\ phase' = "failed"
      /\ \A s \in Elements(todo)' : s[1] \in {"uninstall", "flush", "destroy"}
  BY <1>1, <1>6, FailedPlan
<1>8. /\ queue /\ Head(todo)[1] \notin Inner
      /\ \A q \in Objects : alive[q] /\ state[q] \in {"inactive", "installed"}
      /\ \A p \in PointIds : point[p] \in {"declared", "installed", "failed"}
  BY <1>1, <1>2, StartingFacts
<1>9. HB!BackendInv' /\ \A d \in Funcs : Guarded(d) /\ d \in leased' => Guarded(d)'
  BY <1>1, <1>3, <1>5, KeptByBackend
<1>10. TypeOK'
  <2>1. active' \in [Objects -> BOOLEAN] /\ route' \in [Lives -> AnyRoute] /\ leased' = holders'[Agent]
    BY <1>1, <1>3, <1>5 DEF AnyRoute
  <2> QED BY <1>1, <1>3, <1>7, <1>9, <2>1 DEF TypeOK
<1>11. ASSUME NEW d \in Funcs, Seen(d) PROVE Keeps(d) /\ (InUse(d)' => InUse(d))
  <2>1. d \in Builtin => ObjectOf(d) # o /\ ObjectOf(d) \in Objects
    BY <1>1, <1>3, <1>11, Names
  <2>2. d # c
    BY <2>1
  <2>3. Keeps(d)
    BY <1>1, <1>3, <1>5, <2>1, <2>2 DEF Keeps
  <2>4. d \in Roles => PointOf(d) \in Lives
    BY Names
  <2>5. d \notin Roles => LifeOf(d) \in Lives
    BY Names
  <2>6. InUse(d)' => InUse(d)
    BY <1>1, <2>4, <2>5 DEF InUse
  <2> QED BY <2>3, <2>6
<1>12. JumpsLead' /\ RoutesBacked' /\ CallsBacked'
  <2>1. RoutesBacked /\ frames' = frames
    BY <1>1 DEF HookInv
  <2>2. ASSUME NEW d \in Funcs, Seen(d)
        PROVE  /\ InUse(d)' => InUse(d) /\ Keeps(d)
               /\ IF d \in Roles THEN slot'[d] # None ELSE state'[ObjectOf(d)] # "inactive"
    BY <1>1, <1>5, <1>11, <2>1, <2>2 DEF RoutesBacked
  <2>3. ASSUME NEW f \in Routed
        PROVE  \/ f.life \in PointIds /\ point'[f.life] = "failed"
               \/ ~RolledPoint(f) /\ Keeps(f.c)
    BY <1>1, <1>3, <1>11, <2>3, CallsKnown DEF RolledPoint
  <2>4. \A d \in jump' : d \in jump /\ thunk'[d] = thunk[d]
    BY <1>1, <1>5
  <2> QED BY <1>5, <1>9, <2>1, <2>2, <2>3, <2>4, CallsStay
<1>13. TeardownFits'
  <2>1. \A q \in Objects : ~Due("finish", q)' /\ ~Due("abandon", q)' /\ state'[q] # "pending"
    BY <1>1, <1>7, <1>8 DEF Due
  <2>2. \A p \in PointIds : point'[p] # "pending"
    BY <1>1, <1>8
  <2> QED BY <1>1, <1>5, <1>8, <2>1, <2>2, TeardownStays
<1>14. AbandonedOnce'
  <2>1. \A d \in Builtin : state'[ObjectOf(d)] # "retired"
    BY <1>1, <1>8, Names
  <2> QED BY <2>1 DEF AbandonedOnce
<1>15. QueueFits'
  BY <1>1, <1>7, <1>8, QueueKept
<1>16. \A s \in Elements(todo)' : s[1] \notin Starting
  BY <1>7 DEF Starting
<1> QED BY <1>7, <1>10, <1>12, <1>13, <1>14, <1>15, <1>16, LaterStep

----------------------------------------------------------------------------
(* Teardown. *)

\* A step of a teardown: no function comes into use, and what is used is kept.
LEMMA TeardownStep ==
  ASSUME HookInv, todo # << >>, Head(todo)[1] \notin Starting, TypeOK', Ordered(todo'),
         \A s \in Elements(todo)' : Inert(s) \/ s \in Elements(todo),
         phase' \in {phase, "abandoned"}, UNCHANGED <<queue, frames, thunk, done>>,
         \A c \in Funcs : Guarded(c) /\ c \in leased' /\ slot'[c] = slot[c] => Guarded(c)',
         jump' \subseteq jump, leased' \subseteq leased, interceptor'[Agent] => interceptor[Agent],
         \A l \in Lives : route'[l] = "record" => route[l] = "record",
         \A q \in PointIds : point[q] = "failed" => point'[q] = "failed",
         \A c \in Funcs : Seen(c) =>
             /\ InUse(c)' => InUse(c) /\ Keeps(c)
             /\ IF c \in Roles THEN slot'[c] = slot[c]
                ELSE state[ObjectOf(c)] # "inactive" => state'[ObjectOf(c)] # "inactive",
         \A f \in Routed : ~RolledPoint(f) => Keeps(f.c),
         TeardownFits',
         \A c \in Builtin : state'[ObjectOf(c)] = "retired" /\ c \in leased' =>
             \/ state[ObjectOf(c)] = "retired"
             \/ /\ Head(todo)[1] = "abandon" /\ Head(todo)[2] = ObjectOf(c)
                /\ \A s \in Elements(todo)' : Inert(s) \/ Follows(Head(todo), s)
  PROVE  HookInv'
<1>1. TypeOK /\ RoutesBacked
  BY DEF HookInv
<1>2. jump' \subseteq Funcs
  BY DEF TypeOK, HB!BackendInv, HB!TypeOK
<1>3. ASSUME NEW c \in Funcs, Seen(c)
      PROVE  /\ InUse(c)' => InUse(c) /\ Keeps(c)
             /\ IF c \in Roles THEN slot'[c] # None ELSE state'[ObjectOf(c)] # "inactive"
  BY <1>1, <1>3 DEF RoutesBacked
<1>4. ASSUME NEW f \in Routed
      PROVE  \/ f.life \in PointIds /\ point'[f.life] = "failed"
             \/ ~RolledPoint(f) /\ Keeps(f.c)
  BY <1>4 DEF RolledPoint
<1>5. \A c \in jump' : c \in jump /\ thunk'[c] = thunk[c]
  OBVIOUS
<1>6. JumpsLead' /\ RoutesBacked' /\ CallsBacked'
  BY <1>2, <1>3, <1>4, <1>5, CallsStay
<1>7. queue' = queue /\ (done' => done) /\ frames' = frames
  OBVIOUS
<1> QED BY <1>6, <1>7, StopStep

\* A step that stores routes and states only.
LEMMA RouteStep ==
  ASSUME HookInv, todo # << >>, Head(todo)[1] \notin Starting, NEW p, Advanced(p),
         \A s \in Elements(p) : Inert(s),
         UNCHANGED <<backend, active, alive, quiescent, flushed, leased, queue, frames, thunk, phase, done>>,
         state' \in [Objects -> {"inactive", "installed", "pending", "retired"}],
         point' \in [PointIds -> {"declared", "installed", "pending", "retired", "failed"}],
         route' \in [Lives -> AnyRoute],
         \A l \in Lives : route'[l] = "record" => route[l] = "record",
         \A o \in Objects : /\ state[o] # "inactive" => state'[o] # "inactive"
                            /\ state'[o] = "retired" => state[o] = "retired",
         \A q \in PointIds : point[q] = "failed" => point'[q] = "failed",
         \A c \in Funcs : Seen(c) /\ InUse(c)' => InUse(c),
         TeardownFits'
  PROVE  HookInv'
<1>1. TypeOK /\ HB!BackendInv /\ leased = holders[Agent]
  BY DEF HookInv, TypeOK
<1>2. UNCHANGED <<holders, slot, jump, interceptor>>
  BY DEF backend
<1>3. HB!BackendInv' /\ \A c \in Funcs : Guarded(c) /\ c \in leased' => Guarded(c)'
  BY <1>1, <1>2, KeptByBackend
<1>4. /\ Elements(todo)' = Elements(p) \cup Elements(Tail(todo))
      /\ Elements(todo) = {Head(todo)} \cup Elements(Tail(todo))
      /\ todo' \in Seq(Steps) /\ Ordered(todo')
  BY DEF Advanced
<1>5. TypeOK'
  BY <1>1, <1>2, <1>3, <1>4 DEF TypeOK
<1>6. \A c \in Funcs : Keeps(c)
  BY <1>2 DEF Keeps
<1>7. \A f \in Routed : Keeps(f.c)
  BY <1>1, <1>6, CallsKnown
<1>8. ASSUME NEW c \in Funcs, Seen(c)
      PROVE  /\ InUse(c)' => InUse(c) /\ Keeps(c)
             /\ IF c \in Roles THEN slot'[c] = slot[c]
                ELSE state[ObjectOf(c)] # "inactive" => state'[ObjectOf(c)] # "inactive"
  BY <1>2, <1>6, <1>8, Names
<1>9. \A c \in Builtin : state'[ObjectOf(c)] = "retired" => state[ObjectOf(c)] = "retired"
  BY Names
<1>10. \A s \in Elements(todo)' : Inert(s) \/ s \in Elements(todo)
  BY <1>4
<1> QED BY <1>2, <1>3, <1>4, <1>5, <1>7, <1>8, <1>9, <1>10, TeardownStep

\* The stores of an uninstallation, one after the other.
LEMMA InnerStays ==
  ASSUME HookInv, todo # << >>, Head(todo)[1] \in Inner, Elements(todo)' = Elements(Tail(todo)),
         UNCHANGED <<state, point, quiescent, flushed>>, leased' \subseteq leased,
         entries'[Agent] \subseteq entries[Agent],
         \A l \in Lives : route[l] = "target" => route'[l] = "target",
         \A o \in Objects : Head(todo)[1] = "target" /\ Head(todo)[2] = o =>
                                \A l \in LivesOf(o) : route'[l] = "target",
         \A p \in PointIds : Head(todo)[1] = "targetPoint" /\ Head(todo)[2] = p => route'[p] = "target",
         \A c \in Builtin : Head(todo)[1] = "revert" /\ Head(todo)[2] = c => c \notin entries'[Agent]
  PROVE  TeardownFits'
<1>1. TeardownFits /\ TypeOK /\ Ordered(todo)
  BY DEF HookInv
<1>2. Elements(todo) = {Head(todo)} \cup Elements(Tail(todo))
  BY <1>1, Rests DEF TypeOK
<1>3. \A k, x : /\ Due(k, x)' => Due(k, x)
                /\ Due(k, x) => Due(k, x)' \/ (Head(todo)[1] = k /\ Head(todo)[2] = x)
  BY <1>2 DEF Due
<1>4. Head(todo)[1] # "uninstall"
  BY DEF Inner
<1>5. ASSUME NEW o \in Objects
      PROVE  /\ Due("finish", o)' => state'[o] = "pending"
             /\ state'[o] = "pending" /\ (\E l \in LivesOf(o) : route'[l] # "target") => Due("target", o)'
             /\ state'[o] = "installed" /\ Due("abandon", o)' => Due("uninstall", o)'
             /\ o \in flushed' => LivesOf(o) \subseteq quiescent'
  <2>1. LivesOf(o) \subseteq Lives
    BY Names
  <2>2. /\ Due("finish", o) => state[o] = "pending"
        /\ state[o] = "pending" /\ (\E l \in LivesOf(o) : route[l] # "target") => Due("target", o)
        /\ state[o] = "installed" /\ Due("abandon", o) => Due("uninstall", o)
        /\ o \in flushed => LivesOf(o) \subseteq quiescent
    BY <1>1 DEF TeardownFits
  <2>3. ASSUME state'[o] = "pending", \E l \in LivesOf(o) : route'[l] # "target" PROVE Due("target", o)'
    <3>1. \E l \in LivesOf(o) : route[l] # "target"
      BY <2>1, <2>3
    <3>2. ~(Head(todo)[1] = "target" /\ Head(todo)[2] = o)
      BY <2>3
    <3> QED BY <1>3, <2>2, <2>3, <3>1, <3>2
  <2>4. state'[o] = "installed" /\ Due("abandon", o)' => Due("uninstall", o)'
    BY <1>3, <1>4, <2>2
  <2> QED BY <1>3, <2>2, <2>3, <2>4
<1>6. ASSUME NEW c \in Builtin, state'[ObjectOf(c)] = "pending", c \in entries'[Agent]
      PROVE  Due("revert", c)'
  <2>1. Due("revert", c)
    BY <1>1, <1>6 DEF TeardownFits
  <2> QED BY <1>3, <1>6, <2>1
<1>7. ASSUME NEW p \in PointIds, point'[p] = "pending", route'[p] # "target" PROVE Due("targetPoint", p)'
  <2>1. route[p] # "target"
    BY <1>7, Names
  <2>2. Due("targetPoint", p)
    BY <1>1, <1>7, <2>1 DEF TeardownFits
  <2> QED BY <1>3, <1>7, <2>2
<1>8. \A l \in quiescent' : Held(l)' = {}
  BY <1>1 DEF TeardownFits, Held
<1> QED BY <1>5, <1>6, <1>7, <1>8 DEF TeardownFits

LEMMA Popped ==
  ASSUME HookInv, todo # << >>, Head(todo)[1] \notin Inner \cup {"uninstall"},
         Elements(todo)' \subseteq Elements(todo), Elements(Tail(todo)) \subseteq Elements(todo)'
  PROVE  \A o \in Objects : /\ Due("finish", o)' => Due("finish", o)
                            /\ state[o] = "installed" /\ Due("abandon", o)' => Due("uninstall", o)'
<1>1. TeardownFits /\ TypeOK /\ Ordered(todo)
  BY DEF HookInv
<1>2. Elements(todo) = {Head(todo)} \cup Elements(Tail(todo))
  BY <1>1, Rests DEF TypeOK
<1>3. \A k, x : Due(k, x)' => Due(k, x)
  BY DEF Due
<1>4. ASSUME NEW o \in Objects, state[o] = "installed", Due("abandon", o)' PROVE Due("uninstall", o)'
  <2>1. Due("uninstall", o)
    BY <1>1, <1>3, <1>4 DEF TeardownFits
  <2>2. PICK s \in Elements(todo) : s[1] = "uninstall" /\ s[2] = o
    BY <2>1 DEF Due
  <2>3. s \in Elements(todo)'
    BY <1>2, <2>2
  <2> QED BY <2>2, <2>3 DEF Due
<1> QED BY <1>3, <1>4

\* Routes that go to the target take nothing into use.
LEMMA TargetUse ==
  ASSUME HookInv, state' = state, point' = point, NEW c \in Funcs,
         \A l \in Lives : route'[l] \in {"target", route[l]}
  PROVE  InUse(c)' => InUse(c)
<1>1. (c \in Roles => PointOf(c) \in Lives) /\ (c \notin Roles => LifeOf(c) \in Lives)
  BY Names
<1> QED BY <1>1 DEF InUse

LEMMA ToTargetKeeps ==
  ASSUME HookInv, (\E o \in Objects : RouteToTarget(o)) \/ (\E p \in PointIds : PointToTarget(p))
  PROVE  HookInv'
<1>1. PICK ls \in SUBSET Lives :
          /\ todo # << >> /\ Head(todo)[1] \in {"target", "targetPoint"}
          /\ \A o \in Objects : Head(todo)[1] = "target" /\ Head(todo)[2] = o => ls = LivesOf(o)
          /\ \A p \in PointIds : Head(todo)[1] = "targetPoint" /\ Head(todo)[2] = p => p \in ls
          /\ Routes(ls, "target") /\ Push(<< >>)
          /\ UNCHANGED <<backend, objects, custom, thunk, queue, frames, phase, done>>
  <2>1. CASE \E o \in Objects : RouteToTarget(o)
    BY <2>1, Names DEF RouteToTarget, Doing
  <2>2. CASE \E p \in PointIds : PointToTarget(p)
    BY <2>2, Names DEF PointToTarget, Doing
  <2> QED BY <2>1, <2>2
<1>2. /\ UNCHANGED <<state, active, alive, quiescent, flushed, leased, point, entries>>
      /\ route' = [l \in Lives |-> IF l \in ls THEN "target" ELSE route[l]]
      /\ todo' = << >> \o Tail(todo)
      /\ Head(todo)[1] \in Inner /\ Head(todo)[1] \notin Starting
  BY <1>1 DEF objects, custom, backend, Routes, Push, Inner, Starting
<1>3. /\ TypeOK /\ Ordered(todo) /\ state \in [Objects -> {"inactive", "installed", "pending", "retired"}]
      /\ point \in [PointIds -> {"declared", "installed", "pending", "retired", "failed"}]
      /\ route \in [Lives -> AnyRoute]
  BY DEF HookInv, TypeOK
<1>4. Advanced(<< >>) /\ Elements(<< >>) = {} /\ Elements(todo)' = Elements(Tail(todo))
  BY <1>1, <1>2, <1>3, PushNone, ElementsOfFew
<1>5. route' \in [Lives -> AnyRoute] /\ \A l \in Lives : route'[l] \in {"target", route[l]}
  BY <1>2, <1>3 DEF AnyRoute
<1>6. TeardownFits'
  <2>1. \A o \in Objects : LivesOf(o) \subseteq Lives
    BY Names
  <2>2. PointIds \subseteq Lives
    BY Names
  <2> QED BY <1>1, <1>2, <1>4, <1>5, <2>1, <2>2, InnerStays
<1>7. \A c \in Funcs : InUse(c)' => InUse(c)
  BY <1>2, <1>5, TargetUse
<1> QED BY <1>1, <1>2, <1>3, <1>4, <1>5, <1>6, <1>7, RouteStep

\* A function is reverted and keeps its lease.
LEMMA RevertKeeps ==
  ASSUME HookInv, NEW k \in {"revert", "revertRoleKept"}, NEW c \in Funcs, Revert(k, c)
  PROVE  HookInv'
<1>1. /\ todo # << >> /\ Head(todo)[1] = k /\ Head(todo)[2] = c
      /\ IF c \in entries[Agent] THEN HB!Uninstall(Agent, c) ELSE UNCHANGED backend
      /\ todo' = << >> \o Tail(todo)
      /\ UNCHANGED <<state, active, alive, quiescent, flushed, leased, point, thunk, route, queue,
                     frames, phase, done>>
  BY DEF Revert, Doing, Push, objects
<1>2. Head(todo)[1] \in Inner /\ Head(todo)[1] \notin Starting /\ Head(todo)[1] \notin {"target", "targetPoint"}
  BY <1>1 DEF Inner, Starting
<1>3. TypeOK /\ Ordered(todo) /\ HB!BackendInv /\ leased = holders[Agent]
  BY DEF HookInv, TypeOK
<1>4. /\ entries'[Agent] = entries[Agent] \ {c} /\ jump' \subseteq jump
      /\ UNCHANGED <<holders, slot, interceptor>> /\ (HB!Next \/ UNCHANGED backend)
  <2>1. CASE c \in entries[Agent]
    BY <1>1, <1>3, <2>1, BackendEffects, BackendMoves
  <2>2. CASE c \notin entries[Agent]
    BY <1>1, <2>2 DEF backend
  <2> QED BY <2>1, <2>2
<1>5. HB!BackendInv' /\ \A d \in Funcs : Guarded(d) /\ d \in leased' => Guarded(d)'
  BY <1>1, <1>3, <1>4, KeptByBackend
<1>6. Advanced(<< >>) /\ Elements(<< >>) = {} /\ Elements(todo)' = Elements(Tail(todo))
  BY <1>1, <1>3, PushNone, ElementsOfFew
<1>7. todo' \in Seq(Steps) /\ Ordered(todo') /\ Elements(todo) = {Head(todo)} \cup Elements(Tail(todo))
  BY <1>6 DEF Advanced
<1>8. TypeOK'
  BY <1>1, <1>3, <1>4, <1>5, <1>7 DEF TypeOK
<1>9. TeardownFits'
  BY <1>1, <1>2, <1>4, <1>6, InnerStays
<1>10. \A d \in Funcs : Keeps(d) /\ (InUse(d)' => InUse(d)) /\ slot'[d] = slot[d]
  BY <1>1, <1>4, SameUse DEF Keeps
<1>11. \A f \in Routed : Keeps(f.c)
  BY <1>3, <1>10, CallsKnown
<1>12. \A d \in Builtin : state'[ObjectOf(d)] = "retired" => state[ObjectOf(d)] = "retired"
  BY <1>1
<1>13. \A s \in Elements(todo)' : s \in Elements(todo)
  BY <1>6, <1>7
<1> QED BY <1>1, <1>2, <1>4, <1>5, <1>7, <1>8, <1>9, <1>10, <1>11, <1>12, <1>13, TeardownStep

LEMMA StopRecordingKeeps ==
  ASSUME HookInv, StopRecording
  PROVE  HookInv'
<1> DEFINE as == {LifeOf(c) : c \in {x \in Builtin : state[ObjectOf(x)] = "installed"}}
           bs == {p \in PointIds : Live(p)}
<1>1. /\ todo # << >> /\ Head(todo)[1] = "original"
      /\ route' = [l \in Lives |-> IF l \in as \cup bs THEN "original" ELSE route[l]]
      /\ todo' = << >> \o Tail(todo)
      /\ UNCHANGED <<backend, state, active, alive, quiescent, flushed, leased, point, thunk, queue,
                     frames, phase, done>>
  BY DEF StopRecording, Doing, Routes, Push, objects, custom
<1>2. /\ Head(todo)[1] \notin Inner \cup {"uninstall"} /\ Head(todo)[1] \notin Starting
      /\ Head(todo)[1] \notin Inner
  BY <1>1 DEF Inner, Starting
<1>3. /\ TypeOK /\ Ordered(todo) /\ state \in [Objects -> {"inactive", "installed", "pending", "retired"}]
      /\ point \in [PointIds -> {"declared", "installed", "pending", "retired", "failed"}]
      /\ route \in [Lives -> AnyRoute] /\ TeardownFits
  BY DEF HookInv, TypeOK
<1>4. Advanced(<< >>) /\ Elements(<< >>) = {} /\ Elements(todo)' = Elements(Tail(todo))
  BY <1>1, <1>3, PushNone, ElementsOfFew
<1>5. Elements(todo) = {Head(todo)} \cup Elements(Tail(todo))
  BY <1>4 DEF Advanced
<1>6. route' \in [Lives -> AnyRoute] /\ \A l \in Lives : route'[l] = "record" => route[l] = "record"
  BY <1>1, <1>3 DEF AnyRoute
<1>7. \A o \in Objects : \A l \in LivesOf(o) : l \in as => state[o] = "installed"
  BY Names
<1>8. /\ \A l \in as : l \notin PointIds
      /\ \A o \in Objects : LivesOf(o) \cap bs = {} /\ LivesOf(o) \subseteq Lives
  BY Names
<1>9. \A l \in bs : point[l] = "installed"
  BY DEF Live
<1>10. bs \subseteq PointIds
  OBVIOUS
<1> HIDE DEF as, bs
<1>11. \A o \in Objects : \A l \in LivesOf(o) : state[o] # "installed" => route'[l] = route[l]
  BY <1>1, <1>7, <1>8
<1>12. \A q \in PointIds : point[q] # "installed" => route'[q] = route[q]
  BY <1>1, <1>8, <1>9, Names
<1>13. ASSUME NEW c \in Funcs, InUse(c)' PROVE InUse(c)
  <2>1. CASE c \in Roles
    <3>1. PointOf(c) \in PointIds
      BY <2>1, Names
    <3> QED BY <1>1, <1>12, <1>13, <2>1, <3>1 DEF InUse
  <2>2. CASE c \notin Roles
    <3>1. ObjectOf(c) \in Objects /\ LifeOf(c) \in LivesOf(ObjectOf(c))
      BY <2>2, Names
    <3> QED BY <1>1, <1>11, <1>13, <2>2, <3>1 DEF InUse
  <2> QED BY <2>1, <2>2
<1>14. TeardownFits'
  <2>1. \A o \in Objects : /\ Due("finish", o)' => Due("finish", o)
                           /\ state[o] = "installed" /\ Due("abandon", o)' => Due("uninstall", o)'
    BY <1>1, <1>2, <1>4, <1>5, Popped
  <2>2. \A o \in Objects : Due("finish", o)' => state'[o] = "pending"
    BY <1>1, <1>3, <2>1 DEF TeardownFits
  <2>3. entries' = entries
    BY <1>1 DEF backend
  <2> QED BY <1>1, <1>2, <1>11, <1>12, <2>1, <2>2, <2>3, TeardownStays
<1> QED BY <1>1, <1>2, <1>3, <1>4, <1>6, <1>13, <1>14, RouteStep

LEMMA AbandonPointsKeeps ==
  ASSUME HookInv, AbandonPoints
  PROVE  HookInv'
<1>1. /\ todo # << >> /\ Head(todo)[1] = "abandonPoints"
      /\ route' = [l \in Lives |-> IF l \in {p \in PointIds : point[p] = "pending"} THEN "target"
                                   ELSE route[l]]
      /\ point' = [p \in PointIds |-> IF point[p] = "pending" THEN "retired" ELSE point[p]]
      /\ todo' = << >> \o Tail(todo)
      /\ UNCHANGED <<backend, state, active, alive, quiescent, flushed, leased, thunk, queue,
                     frames, phase, done>>
  BY DEF AbandonPoints, Doing, Routes, Push, objects
<1>2. /\ Head(todo)[1] \notin Inner \cup {"uninstall"} /\ Head(todo)[1] \notin Starting
      /\ Head(todo)[1] \notin Inner
  BY <1>1 DEF Inner, Starting
<1>3. /\ TypeOK /\ Ordered(todo) /\ state \in [Objects -> {"inactive", "installed", "pending", "retired"}]
      /\ point \in [PointIds -> {"declared", "installed", "pending", "retired", "failed"}]
      /\ route \in [Lives -> AnyRoute] /\ TeardownFits
  BY DEF HookInv, TypeOK
<1>4. Advanced(<< >>) /\ Elements(<< >>) = {} /\ Elements(todo)' = Elements(Tail(todo))
  BY <1>1, <1>3, PushNone, ElementsOfFew
<1>5. Elements(todo) = {Head(todo)} \cup Elements(Tail(todo))
  BY <1>4 DEF Advanced
<1>6. route' \in [Lives -> AnyRoute] /\ \A l \in Lives : route'[l] \in {"target", route[l]}
  BY <1>1, <1>3 DEF AnyRoute
<1>7. /\ point' \in [PointIds -> {"declared", "installed", "pending", "retired", "failed"}]
      /\ \A q \in PointIds : /\ point[q] = "failed" => point'[q] = "failed"
                             /\ point'[q] # "pending" /\ (point'[q] = point[q] \/ route'[q] = "target")
                             /\ point'[q] = point[q] \/ point'[q] = "retired"
                             /\ q \in Lives
  BY <1>1, <1>3, Names
<1>8. ASSUME NEW c \in Funcs, InUse(c)' PROVE InUse(c)
  <2>1. CASE c \in Roles
    <3>1. PointOf(c) \in PointIds
      BY <2>1, Names
    <3> QED BY <1>6, <1>7, <1>8, <2>1, <3>1 DEF InUse
  <2>2. CASE c \notin Roles
    <3>1. LifeOf(c) \in Lives
      BY <2>2, Names
    <3> QED BY <1>1, <1>6, <1>8, <2>2, <3>1 DEF InUse
  <2> QED BY <2>1, <2>2
<1>9. TeardownFits'
  <2>1. \A o \in Objects : /\ Due("finish", o)' => Due("finish", o)
                           /\ state[o] = "installed" /\ Due("abandon", o)' => Due("uninstall", o)'
    BY <1>1, <1>2, <1>4, <1>5, Popped
  <2>2. \A o \in Objects : Due("finish", o)' => state'[o] = "pending"
    BY <1>1, <1>3, <2>1 DEF TeardownFits
  <2>3. entries' = entries
    BY <1>1 DEF backend
  <2>4. \A o \in Objects : \A l \in LivesOf(o) : route[l] = "target" => route'[l] = "target"
    BY <1>6, Names
  <2> QED BY <1>1, <1>2, <1>7, <2>1, <2>2, <2>3, <2>4, TeardownStays
<1>10. \A l \in Lives : route'[l] = "record" => route[l] = "record"
  BY <1>6
<1> QED BY <1>1, <1>2, <1>3, <1>4, <1>6, <1>7, <1>8, <1>9, <1>10, RouteStep

LEMMA InnerFollows ==
  /\ \A h, s, u : Follows(h, u) /\ h[1] \notin Inner /\ s[1] \in Inner \cup {"finish"} => Follows(s, u)
  /\ \A s, u : s[1] \in Inner /\ u[1] \in Inner \cup {"finish"} => Follows(s, u)
  /\ \A s : s[1] \in Inner \cup {"finish"} => Inert(s)
<1>1. ASSUME NEW s, s[1] \in Inner \cup {"finish"}
      PROVE  /\ s[1] \notin Starting \cup {"begin", "queue", "abandon", "destroyHook", "point", "lease", "role",
                                           "live", "activateRole", "uninstall"} \cup Foremost
             /\ ~Final(s)
  BY <1>1 DEF Inner, Starting, Foremost, Final
<1>2. ASSUME NEW h, NEW s, NEW u, Follows(h, u), h[1] \notin Inner, s[1] \in Inner \cup {"finish"}
      PROVE  Follows(s, u)
  <2>1. u[1] = "point" => ~Installs(s, u[2])
    BY <1>1, <1>2 DEF Installs
  <2> QED BY <1>1, <1>2, <2>1 DEF Follows
<1>3. ASSUME NEW s, NEW u, s[1] \in Inner, u[1] \in Inner \cup {"finish"} PROVE Follows(s, u)
  <2>1. /\ ~Final(s) /\ ~Final(u) /\ u[1] \notin Foremost \cup {"point"} /\ s[1] # "begin"
        /\ s[1] \notin {"destroyHook", "abandon"}
    BY <1>1, <1>3
  <2> QED BY <1>3, <2>1 DEF Follows
<1>4. ASSUME NEW s, s[1] \in Inner \cup {"finish"} PROVE Inert(s)
  BY <1>1, <1>4 DEF Inert
<1> QED BY <1>2, <1>3, <1>4

LEMMA InnerOrdered ==
  ASSUME NEW a \in Seq(Steps), \A s \in Elements(a) : s[1] \in Inner
  PROVE  Ordered(a)
<1>1. \A i \in 1 .. Len(a) : a[i][1] \in Inner
  BY DEF Elements
<1> QED BY <1>1, InnerFollows DEF Ordered

\* The stores of an uninstallation take the place of the first step.
LEMMA InnerPlan ==
  ASSUME TypeOK, Ordered(todo), todo # << >>, Head(todo)[1] \notin Inner,
         NEW a \in Seq(Steps), \A s \in Elements(a) : s[1] \in Inner,
         NEW b \in Seq(Steps), Ordered(b), \A s \in Elements(b) : s[1] \in Inner \cup {"finish"},
         todo' = (a \o b) \o Tail(todo)
  PROVE  /\ Advanced(a \o b) /\ Elements(a \o b) = Elements(a) \cup Elements(b)
         /\ \A s \in Elements(a \o b) : Inert(s)
<1>1. Ordered(a)
  BY InnerOrdered
<1>2. /\ a \o b \in Seq(Steps) /\ Ordered(a \o b) /\ Elements(a \o b) = Elements(a) \cup Elements(b)
  BY <1>1, InnerFollows, Joined
<1>3. \A s \in Elements(a \o b) : s[1] \in Inner \cup {"finish"}
  BY <1>2
<1>4. Advanced(a \o b)
  BY <1>2, <1>3, InnerFollows, Pushed
<1> QED BY <1>2, <1>3, <1>4, InnerFollows

\* An installed object is uninstalled.
LEMMA UninstallKeeps ==
  ASSUME HookInv, NEW o \in Objects, Uninstall(o), state[o] = "installed"
  PROVE  HookInv'
<1> DEFINE a == ForEach("revert", Channels(o), "now")
           x == <<"target", o, "now">>
           y == <<"finish", o, Deadline>>
<1>1. /\ todo # << >> /\ Head(todo)[1] = "uninstall" /\ Head(todo)[2] = o
      /\ Head(todo)[1] \notin Inner /\ Head(todo)[1] \notin Starting
  BY DEF Uninstall, Doing, Inner, Starting
<1>2. /\ x \in Steps /\ Step("target", o, "now") = x /\ x[1] = "target" /\ x[2] = o
      /\ y \in Steps /\ Step("finish", o, Deadline) = y /\ y[1] = "finish" /\ y[2] = o
  BY <1>1, Heading, StepsOf, KnownKinds DEF Named
<1>3. /\ state' = [state EXCEPT ![o] = "pending"]
      /\ route' = [l \in Lives |-> IF l \in {m \in LivesOf(o) : route[m] # "target"} THEN "original" ELSE route[l]]
      /\ todo' = (a \o << x, y >>) \o Tail(todo)
      /\ UNCHANGED <<backend, active, alive, quiescent, flushed, leased, point, thunk, queue,
                     frames, phase, done>>
  BY <1>2 DEF Uninstall, Push, Routes, custom
<1>4. /\ TypeOK /\ Ordered(todo) /\ state \in [Objects -> {"inactive", "installed", "pending", "retired"}]
      /\ point \in [PointIds -> {"declared", "installed", "pending", "retired", "failed"}]
      /\ route \in [Lives -> AnyRoute] /\ TeardownFits
  BY DEF HookInv, TypeOK
<1>5. /\ a \in Seq(Steps) /\ \A u \in Elements(a) : u[1] = "revert"
      /\ \A c \in Elements(Channels(o)) : <<"revert", c, "now">> \in Elements(a)
  <2>1. Channels(o) \in Seq(Elements(Channels(o))) /\ Elements(Channels(o)) \subseteq Named
    BY NameSeqs
  <2> QED BY <2>1, EachStep, KnownKinds
<1> HIDE DEF a, x, y
<1>6. << x, y >> \in Seq(Steps) /\ Elements(<< x, y >>) = {x, y} /\ Ordered(<< x, y >>)
  <2>1. Follows(x, y)
    BY <1>2, InnerFollows DEF Inner
  <2> QED BY <1>2, <2>1, TwoSteps
<1>7. /\ Advanced(a \o << x, y >>) /\ Elements(a \o << x, y >>) = Elements(a) \cup {x, y}
      /\ \A s \in Elements(a \o << x, y >>) : Inert(s)
  <2>1. /\ \A u \in Elements(a) : u[1] \in Inner
        /\ \A u \in Elements(<< x, y >>) : u[1] \in Inner \cup {"finish"}
    BY <1>2, <1>5, <1>6 DEF Inner
  <2> QED BY <1>1, <1>3, <1>4, <1>5, <1>6, <2>1, InnerPlan
<1>8. /\ Elements(todo)' = Elements(a) \cup {x, y} \cup Elements(Tail(todo))
      /\ Elements(todo) = {Head(todo)} \cup Elements(Tail(todo))
  BY <1>7 DEF Advanced
<1>9. /\ \A s \in Elements(Tail(todo)) : s[1] # "finish"
      /\ \A q \in Objects : state[q] = "pending" => \A l \in LivesOf(q) : route[l] = "target"
      /\ \A c \in Builtin : state[ObjectOf(c)] = "pending" => c \notin entries[Agent]
      /\ \A p \in PointIds : point[p] = "pending" => route[p] = "target"
  BY <1>1, NoneInner
<1>10. /\ state'[o] = "pending" /\ \A q \in Objects : q # o => state'[q] = state[q]
       /\ state' \in [Objects -> {"inactive", "installed", "pending", "retired"}]
  BY <1>3, <1>4
<1>11. /\ route' \in [Lives -> AnyRoute] /\ \A l \in Lives : route'[l] = "record" => route[l] = "record"
       /\ \A l \in Lives : route[l] = "target" => route'[l] = "target"
       /\ \A l \in Lives : l \notin LivesOf(o) => route'[l] = route[l]
  BY <1>3, <1>4 DEF AnyRoute
<1>12. ASSUME NEW c \in Funcs, InUse(c)' PROVE InUse(c)
  <2>1. CASE c \in Roles
    <3>1. PointOf(c) \in Lives /\ PointOf(c) \notin LivesOf(o)
      BY <2>1, Names
    <3> QED BY <1>3, <1>11, <1>12, <2>1, <3>1 DEF InUse
  <2>2. CASE c \notin Roles /\ ObjectOf(c) = o
    BY <2>2 DEF InUse
  <2>3. CASE c \notin Roles /\ ObjectOf(c) # o
    <3>1. ObjectOf(c) \in Objects /\ LifeOf(c) \in Lives /\ LifeOf(c) \notin LivesOf(o)
      BY <2>3, Names
    <3> QED BY <1>10, <1>11, <1>12, <2>3, <3>1 DEF InUse
  <2> QED BY <2>1, <2>2, <2>3
<1>13. TeardownFits'
  <2>1. ASSUME NEW q \in Objects
        PROVE  /\ Due("finish", q)' => state'[q] = "pending"
               /\ state'[q] = "pending" /\ (\E l \in LivesOf(q) : route'[l] # "target") => Due("target", q)'
               /\ state'[q] = "installed" /\ Due("abandon", q)' => Due("uninstall", q)'
               /\ q \in flushed' => LivesOf(q) \subseteq quiescent'
    <3>1. Due("finish", q)' => q = o
      BY <1>2, <1>5, <1>8, <1>9 DEF Due
    <3>2. Due("target", o)'
      BY <1>2, <1>8 DEF Due
    <3>3. q # o /\ state'[q] = "pending" => \A l \in LivesOf(q) : route'[l] = "target"
      BY <1>9, <1>10, <1>11, Names
    <3>4. ASSUME state'[q] = "installed", Due("abandon", q)' PROVE Due("uninstall", q)'
      <4>1. q # o /\ state[q] = "installed"
        BY <1>10, <3>4
      <4>2. Due("abandon", q)
        BY <1>2, <1>5, <1>8, <3>4 DEF Due
      <4>3. PICK s \in Elements(todo) : s[1] = "uninstall" /\ s[2] = q
        BY <1>4, <4>1, <4>2 DEF TeardownFits, Due
      <4>4. s \in Elements(Tail(todo))
        BY <1>1, <1>8, <4>1, <4>3
      <4> QED BY <1>8, <4>3, <4>4 DEF Due
    <3>5. q \in flushed' => LivesOf(q) \subseteq quiescent'
      BY <1>3, <1>4 DEF TeardownFits
    <3> QED BY <1>10, <3>1, <3>2, <3>3, <3>4, <3>5
  <2>2. ASSUME NEW c \in Builtin, state'[ObjectOf(c)] = "pending", c \in entries'[Agent]
        PROVE  Due("revert", c)'
    <3>1. entries' = entries
      BY <1>3 DEF backend
    <3>2. ObjectOf(c) = o
      BY <1>9, <1>10, <2>2, <3>1, Names
    <3>3. <<"revert", c, "now">> \in Elements(todo)'
      BY <1>5, <1>8, <3>2, Names
    <3> QED BY <3>3 DEF Due
  <2>3. \A p \in PointIds : point'[p] = "pending" => route'[p] = "target"
    BY <1>3, <1>9, <1>11, Names
  <2>4. \A l \in quiescent' : Held(l)' = {}
    BY <1>3, <1>4 DEF TeardownFits, Held
  <2> QED BY <2>1, <2>2, <2>3, <2>4 DEF TeardownFits
<1>14. \A q \in Objects : /\ state[q] # "inactive" => state'[q] # "inactive"
                          /\ state'[q] = "retired" => state[q] = "retired"
  BY <1>10
<1> HIDE DEF a, x, y
<1>15. todo # << >> /\ Head(todo)[1] \notin Starting
  BY <1>1
<1> QED BY <1>3, <1>4, <1>7, <1>10, <1>11, <1>12, <1>13, <1>14, <1>15, RouteStep

\* A live point is retired.
LEMMA RetireKeeps ==
  ASSUME HookInv, NEW p \in PointIds, RetirePoint(p), Live(p)
  PROVE  HookInv'
<1> DEFINE a == ForEach("revertRoleKept", RolesOf(p), "now")
           x == <<"targetPoint", p, "now">>
<1>1. /\ todo # << >> /\ Head(todo)[1] = "retire" /\ Head(todo)[1] \notin Inner \cup {"uninstall"}
      /\ Head(todo)[1] \notin Inner /\ Head(todo)[1] \notin Starting
  BY DEF RetirePoint, Doing, Inner, Starting
<1>2. x \in Steps /\ Step("targetPoint", p, "now") = x /\ x[1] = "targetPoint" /\ x[2] = p
  BY <1>1, StepsOf, KnownKinds DEF Named
<1>3. /\ point' = [point EXCEPT ![p] = "pending"]
      /\ route' = [l \in Lives |-> IF l = p THEN "original" ELSE route[l]]
      /\ todo' = (a \o << x >>) \o Tail(todo) /\ point[p] = "installed"
      /\ UNCHANGED <<backend, state, active, alive, quiescent, flushed, leased, thunk, queue,
                     frames, phase, done>>
  BY <1>2 DEF RetirePoint, Push, Routes, objects, Live
<1>4. /\ TypeOK /\ Ordered(todo) /\ state \in [Objects -> {"inactive", "installed", "pending", "retired"}]
      /\ point \in [PointIds -> {"declared", "installed", "pending", "retired", "failed"}]
      /\ route \in [Lives -> AnyRoute] /\ TeardownFits
  BY DEF HookInv, TypeOK
<1>5. a \in Seq(Steps) /\ \A u \in Elements(a) : u[1] = "revertRoleKept"
  <2>1. RolesOf(p) \in Seq(Elements(RolesOf(p))) /\ Elements(RolesOf(p)) \subseteq Named
    BY NameSeqs
  <2> QED BY <2>1, EachStep, KnownKinds
<1> HIDE DEF a, x
<1>6. << x >> \in Seq(Steps) /\ Elements(<< x >>) = {x} /\ Ordered(<< x >>)
  BY <1>2, TwoSteps
<1>7. /\ Advanced(a \o << x >>) /\ Elements(a \o << x >>) = Elements(a) \cup {x}
      /\ \A s \in Elements(a \o << x >>) : Inert(s)
  <2>1. /\ \A u \in Elements(a) : u[1] \in Inner
        /\ \A u \in Elements(<< x >>) : u[1] \in Inner \cup {"finish"}
    BY <1>2, <1>5, <1>6 DEF Inner
  <2>2. TypeOK /\ Ordered(todo) /\ todo # << >> /\ Head(todo)[1] \notin Inner
    BY <1>1, <1>4
  <2>3. todo' = (a \o << x >>) \o Tail(todo)
    BY <1>3
  <2> QED BY <1>5, <1>6, <2>1, <2>2, <2>3, InnerPlan
<1>8. /\ Elements(todo)' = Elements(a) \cup {x} \cup Elements(Tail(todo))
      /\ Elements(todo) = {Head(todo)} \cup Elements(Tail(todo))
  BY <1>7 DEF Advanced
<1>9. /\ \A s \in Elements(Tail(todo)) : s[1] # "finish"
      /\ \A q \in Objects : state[q] = "pending" => \A l \in LivesOf(q) : route[l] = "target"
      /\ \A c \in Builtin : state[ObjectOf(c)] = "pending" => c \notin entries[Agent]
      /\ \A q \in PointIds : point[q] = "pending" => route[q] = "target"
  BY <1>1, NoneInner
<1>10. /\ point'[p] = "pending" /\ \A q \in PointIds : q # p => point'[q] = point[q]
       /\ point' \in [PointIds -> {"declared", "installed", "pending", "retired", "failed"}]
  BY <1>3, <1>4
<1>11. p \in Lives /\ \A q \in Objects : p \notin LivesOf(q) /\ LivesOf(q) \subseteq Lives
  BY Names
<1>12. /\ route' \in [Lives -> AnyRoute] /\ \A l \in Lives : route'[l] = "record" => route[l] = "record"
       /\ \A l \in Lives : l # p => route'[l] = route[l]
  BY <1>3, <1>4 DEF AnyRoute
<1>13. ASSUME NEW c \in Funcs, InUse(c)' PROVE InUse(c)
  <2>1. CASE c \in Roles /\ PointOf(c) = p
    BY <1>3, <2>1 DEF InUse
  <2>2. CASE c \in Roles /\ PointOf(c) # p
    <3>1. PointOf(c) \in Lives /\ PointOf(c) \in PointIds
      BY <2>2, Names
    <3> QED BY <1>10, <1>12, <1>13, <2>2, <3>1 DEF InUse
  <2>3. CASE c \notin Roles
    <3>1. LifeOf(c) \in Lives /\ LifeOf(c) # p
      BY <2>3, Names
    <3> QED BY <1>3, <1>12, <1>13, <2>3, <3>1 DEF InUse
  <2> QED BY <2>1, <2>2, <2>3
<1>14. TeardownFits'
  <2>1. ASSUME NEW q \in Objects
        PROVE  /\ Due("finish", q)' => state'[q] = "pending"
               /\ ~(state'[q] = "pending" /\ \E l \in LivesOf(q) : route'[l] # "target")
               /\ state'[q] = "installed" /\ Due("abandon", q)' => Due("uninstall", q)'
               /\ q \in flushed' => LivesOf(q) \subseteq quiescent'
    <3>1. ~Due("finish", q)'
      BY <1>2, <1>5, <1>8, <1>9 DEF Due
    <3>2. state'[q] = "pending" => \A l \in LivesOf(q) : route'[l] = "target"
      BY <1>3, <1>9, <1>11, <1>12
    <3>3. ASSUME state'[q] = "installed", Due("abandon", q)' PROVE Due("uninstall", q)'
      <4>1. Due("abandon", q)
        BY <1>2, <1>5, <1>8, <3>3 DEF Due
      <4>2. PICK s \in Elements(todo) : s[1] = "uninstall" /\ s[2] = q
        BY <1>3, <1>4, <3>3, <4>1 DEF TeardownFits, Due
      <4>3. s \in Elements(Tail(todo))
        BY <1>1, <1>8, <4>2
      <4> QED BY <1>8, <4>2, <4>3 DEF Due
    <3>4. q \in flushed' => LivesOf(q) \subseteq quiescent'
      BY <1>3, <1>4 DEF TeardownFits
    <3> QED BY <3>1, <3>2, <3>3, <3>4
  <2>2. \A c \in Builtin : ~(state'[ObjectOf(c)] = "pending" /\ c \in entries'[Agent])
    <3>1. entries' = entries
      BY <1>3 DEF backend
    <3> QED BY <1>3, <1>9, <3>1
  <2>3. ASSUME NEW q \in PointIds, point'[q] = "pending", route'[q] # "target" PROVE Due("targetPoint", q)'
    <3>1. q = p
      BY <1>9, <1>10, <1>12, <2>3, Names
    <3> QED BY <1>2, <1>8, <3>1 DEF Due
  <2>4. \A l \in quiescent' : Held(l)' = {}
    BY <1>3, <1>4 DEF TeardownFits, Held
  <2> QED BY <2>1, <2>2, <2>3, <2>4 DEF TeardownFits
<1>15. /\ todo # << >> /\ Head(todo)[1] \notin Starting
       /\ \A q \in PointIds : point[q] = "failed" => point'[q] = "failed"
  BY <1>1, <1>3, <1>10
<1> QED BY <1>3, <1>4, <1>7, <1>10, <1>12, <1>13, <1>14, <1>15, RouteStep

\* A call that is inside with another route than the target's is counted.
LEMMA RoutedCounted ==
  ASSUME TypeOK, JumpsLead, NEW f \in Routed
  PROVE  /\ Counted(Lifecycle(f.c), AnyRoute) /\ f.c \in Funcs /\ Seen(f.c) /\ f.life = Lifecycle(f.c)
         /\ f.route = "record" => Counted(Lifecycle(f.c), {"record"})
<1>1. f \in Calls /\ f.at \in {"entered", "calling"} /\ f.c \in Funcs /\ Seen(f.c)
  BY CallsKnown DEF Routed
<1>2. PICK t \in Threads : frames[t] # None /\ f = frames[t]
  BY <1>1 DEF Calls
<1>3. f \in Calling
  BY <1>2 DEF TypeOK
<1>4. f.route \in AnyRoute
  BY <1>3 DEF Calling
<1>5. f.life = Lifecycle(f.c)
  BY <1>1 DEF JumpsLead
<1> QED BY <1>1, <1>2, <1>4, <1>5 DEF Counted, Inside

\* A step of the wait for a quiescent teardown: what it releases is not in use.
LEMMA SettledStep ==
  ASSUME HookInv, todo # << >>, Head(todo)[1] \in {"finish", "customFinish"},
         UNCHANGED <<state, active, alive, flushed, thunk, route, queue, frames, todo, phase, done>>,
         quiescent' \subseteq Lives, quiescent \subseteq quiescent',
         \A l \in quiescent' : l \in quiescent \/ Held(l) = {},
         point' \in [PointIds -> {"declared", "installed", "pending", "retired", "failed"}],
         \A q \in PointIds : point'[q] # point[q] => point[q] = "pending" /\ point'[q] = "retired",
         NEW X \in SUBSET Funcs, leased' = leased \ X,
         \/ X = {} /\ UNCHANGED backend
         \/ \E c \in Funcs : X = {c} /\ HB!Release(Agent, c),
         \A c \in X : ~InUse(c)' /\ ~Counted(Lifecycle(c), AnyRoute)
  PROVE  HookInv'
<1>1. /\ TypeOK /\ Ordered(todo) /\ HB!BackendInv /\ leased = holders[Agent] /\ TeardownFits /\ JumpsLead
      /\ point \in [PointIds -> {"declared", "installed", "pending", "retired", "failed"}]
  BY DEF HookInv, TypeOK
<1>2. Head(todo)[1] \notin Inner /\ Head(todo)[1] \notin Starting
  BY DEF Inner, Starting
<1>3. /\ leased' = holders'[Agent] /\ UNCHANGED <<entries, jump, slot, interceptor>>
      /\ HB!Next \/ UNCHANGED backend
  <2>1. CASE X = {} /\ UNCHANGED backend
    BY <1>1, <2>1 DEF backend
  <2>2. CASE \E c \in Funcs : X = {c} /\ HB!Release(Agent, c)
    BY <1>1, <2>2, BackendEffects, BackendMoves
  <2> QED BY <2>1, <2>2
<1>4. HB!BackendInv' /\ \A c \in Funcs : Guarded(c) /\ c \in leased' => Guarded(c)'
  BY <1>1, <1>3, KeptByBackend
<1>5. TypeOK'
  BY <1>1, <1>3, <1>4 DEF TypeOK
<1>6. \A c \in Funcs : c \notin X => Keeps(c)
  BY <1>3 DEF Keeps
<1>7. \A p \in PointIds : point[p] = "pending" => route[p] = "target"
  BY <1>2, NoneInner
<1>8. ASSUME NEW c \in Funcs
      PROVE  /\ InUse(c)' => InUse(c) /\ Keeps(c)
             /\ IF c \in Roles THEN slot'[c] = slot[c]
                ELSE state[ObjectOf(c)] # "inactive" => state'[ObjectOf(c)] # "inactive"
  <2>1. InUse(c)' => InUse(c)
    <3>1. CASE c \in Roles
      <4>1. PointOf(c) \in PointIds
        BY <3>1, Names
      <4> QED BY <1>7, <3>1, <4>1 DEF InUse
    <3>2. CASE c \notin Roles
      BY <3>2 DEF InUse
    <3> QED BY <3>1, <3>2
  <2> QED BY <1>3, <1>6, <2>1
<1>9. \A f \in Routed : Keeps(f.c)
  BY <1>1, <1>6, RoutedCounted
<1>10. TeardownFits'
  <2>1. \A k, x : Due(k, x)' <=> Due(k, x)
    BY DEF Due, Elements
  <2>2. \A o \in Objects : /\ Due("finish", o) => state[o] = "pending"
                           /\ state[o] = "installed" /\ Due("abandon", o) => Due("uninstall", o)
    BY <1>1 DEF TeardownFits
  <2> QED BY <1>2, <1>3, <2>1, <2>2, TeardownStays
<1>11. Elements(todo)' = Elements(todo) /\ Ordered(todo')
  BY <1>1 DEF Elements, Ordered
<1>12. /\ jump' \subseteq jump /\ leased' \subseteq leased /\ (interceptor'[Agent] => interceptor[Agent])
       /\ \A q \in PointIds : point[q] = "failed" => point'[q] = "failed"
  BY <1>3
<1> QED BY <1>2, <1>4, <1>5, <1>8, <1>9, <1>10, <1>11, <1>12, TeardownStep

LEMMA SettleKeeps ==
  ASSUME HookInv, NEW o \in Objects, Settle(o)
  PROVE  HookInv'
<1>1. /\ todo # << >> /\ Head(todo)[1] = "finish" /\ Head(todo)[2] = o
      /\ UNCHANGED <<state, active, alive, flushed, point, thunk, route, queue, frames, todo, phase, done>>
  BY DEF Settle, Doing, control, custom
<1>2. PICK l \in LivesOf(o) :
          /\ ~Counted(l, AnyRoute)
          /\ IF Held(l) = {} THEN quiescent' = quiescent \cup {l} /\ UNCHANGED <<backend, leased>>
             ELSE \E c \in Held(l) : HB!Release(Agent, c) /\ leased' = leased \ {c}
                                     /\ UNCHANGED quiescent
  BY DEF Settle, Unsettled
<1>3. /\ TypeOK /\ TeardownFits /\ quiescent \subseteq Lives
      /\ point \in [PointIds -> {"declared", "installed", "pending", "retired", "failed"}]
  BY DEF HookInv, TypeOK
<1>4. Head(todo)[1] \notin Inner /\ Due("finish", o)
  BY <1>1, Heading DEF Inner, Due
<1>5. state[o] = "pending" /\ route[l] = "target"
  BY <1>1, <1>3, <1>4, NoneInner DEF TeardownFits
<1>6. l \in Lives
  BY Names
<1>7. CASE Held(l) = {}
  <2>1. quiescent' = quiescent \cup {l} /\ UNCHANGED <<backend, leased>> /\ leased' = leased \ {}
    BY <1>2, <1>7
  <2>2. \A m \in quiescent' : m \in quiescent \/ Held(m) = {}
    BY <1>7, <2>1
  <2> QED BY <1>1, <1>3, <1>6, <2>1, <2>2, SettledStep
<1>8. CASE Held(l) # {}
  <2>1. PICK c \in Held(l) : HB!Release(Agent, c) /\ leased' = leased \ {c} /\ UNCHANGED quiescent
    BY <1>2, <1>8
  <2>2. c \in Builtin /\ LifeOf(c) = l
    BY DEF Held
  <2>3. c \in Funcs /\ c \notin Roles /\ ObjectOf(c) = o /\ Lifecycle(c) = l
    BY <2>2, Names
  <2>4. ~InUse(c)'
    BY <1>1, <1>5, <2>2, <2>3 DEF InUse
  <2> QED BY <1>1, <1>2, <1>3, <2>1, <2>3, <2>4, SettledStep
<1> QED BY <1>7, <1>8

LEMMA SettlePointKeeps ==
  ASSUME HookInv, NEW p \in PointIds, SettlePoint(p)
  PROVE  HookInv'
<1> DEFINE mine == hooked \cap Elements(RolesOf(p))
<1>1. /\ todo # << >> /\ Head(todo)[1] = "customFinish" /\ point[p] = "pending" /\ ~Counted(p, AnyRoute)
      /\ UNCHANGED <<state, active, alive, flushed, quiescent, thunk, route, queue, frames, todo, phase, done>>
      /\ IF mine = {} THEN point' = [point EXCEPT ![p] = "retired"] /\ UNCHANGED <<backend, leased>>
         ELSE \E r \in mine : HB!Release(Agent, r) /\ leased' = leased \ {r} /\ UNCHANGED point
  BY DEF SettlePoint, control
<1>2. /\ TypeOK /\ quiescent \subseteq Lives
      /\ point \in [PointIds -> {"declared", "installed", "pending", "retired", "failed"}]
  BY DEF HookInv, TypeOK
<1>3. Head(todo)[1] \notin Inner
  BY <1>1 DEF Inner
<1>4. route[p] = "target"
  BY <1>1, <1>3, NoneInner
<1>5. CASE mine = {}
  <2>1. leased' = leased \ {} /\ UNCHANGED backend /\ point' = [point EXCEPT ![p] = "retired"]
    BY <1>1, <1>5
  <2>2. /\ point' \in [PointIds -> {"declared", "installed", "pending", "retired", "failed"}]
        /\ \A q \in PointIds : point'[q] # point[q] => point[q] = "pending" /\ point'[q] = "retired"
    BY <1>1, <1>2, <2>1
  <2> QED BY <1>1, <1>2, <2>1, <2>2, SettledStep
<1>6. CASE mine # {}
  <2>1. PICK r \in mine : HB!Release(Agent, r) /\ leased' = leased \ {r} /\ UNCHANGED point
    BY <1>1, <1>6
  <2>2. r \in Roles /\ PointOf(r) = p /\ r \in Funcs /\ Lifecycle(r) = p
    BY Names
  <2>3. ~InUse(r)'
    BY <1>1, <1>4, <2>1, <2>2 DEF InUse
  <2> QED BY <1>1, <1>2, <2>1, <2>2, <2>3, SettledStep
<1> QED BY <1>5, <1>6

LEMMA FlushBackendKeeps ==
  ASSUME HookInv, NEW x \in Objects \cup {None}, FlushBackend(x)
  PROVE  HookInv'
<1>1. /\ todo # << >> /\ Head(todo)[1] \in {"finish", "customFinish"}
      /\ x # None => Unsettled(x) = {}
      /\ UNCHANGED <<state, active, alive, quiescent, leased, point, thunk, route, queue, frames, phase>>
      /\ \/ HB!Flush(Agent) /\ flushed' = flushed \cup {x} /\ UNCHANGED <<todo, done>>
         \/ GiveUp /\ UNCHANGED <<backend, flushed, custom>>
  BY DEF FlushBackend, Doing, FinishStep, custom
<1>2. CASE GiveUp /\ UNCHANGED <<backend, flushed, custom>>
  <2>1. UNCHANGED <<backend, objects, custom, thunk, route, queue, frames, phase>>
    BY <1>1, <1>2 DEF objects
  <2> QED BY <1>1, <1>2, <2>1, GaveUp
<1>3. CASE HB!Flush(Agent) /\ flushed' = flushed \cup {x} /\ UNCHANGED <<todo, done>>
  <2>1. /\ TypeOK /\ Ordered(todo) /\ HB!BackendInv /\ leased = holders[Agent] /\ TeardownFits
    BY DEF HookInv, TypeOK
  <2>2. Head(todo)[1] \notin Inner /\ Head(todo)[1] \notin Starting
    BY <1>1 DEF Inner, Starting
  <2>3. UNCHANGED <<entries, jump, holders, slot, interceptor>> /\ HB!Next
    BY <1>3, <2>1, BackendEffects, BackendMoves
  <2>4. HB!BackendInv' /\ \A c \in Funcs : Guarded(c) /\ c \in leased' => Guarded(c)'
    BY <1>1, <2>1, <2>3, KeptByBackend
  <2>5. TypeOK'
    BY <1>1, <1>3, <2>1, <2>3, <2>4 DEF TypeOK
  <2>6. \A c \in Funcs : Keeps(c) /\ (InUse(c)' <=> InUse(c)) /\ slot'[c] = slot[c]
    BY <1>1, <2>3 DEF Keeps, InUse
  <2>7. \A f \in Routed : Keeps(f.c)
    BY <2>1, <2>6, CallsKnown
  <2>8. TeardownFits'
    <3>1. \A k, y : Due(k, y)' <=> Due(k, y)
      BY <1>3 DEF Due, Elements
    <3>2. \A o \in Objects : /\ Due("finish", o) => state[o] = "pending"
                             /\ state[o] = "installed" /\ Due("abandon", o) => Due("uninstall", o)
                             /\ o \in flushed => LivesOf(o) \subseteq quiescent
      BY <2>1 DEF TeardownFits
    <3>3. \A o \in Objects : o \in flushed' => o \in flushed \/ LivesOf(o) \subseteq quiescent
      <4>1. None \notin Objects
        BY WindowsHooksAssumption
      <4> QED BY <1>1, <1>3, <4>1 DEF Unsettled
    <3> QED BY <1>1, <2>2, <2>3, <3>1, <3>2, <3>3, TeardownStays
  <2>9. Elements(todo)' = Elements(todo) /\ Ordered(todo')
    BY <1>3, <2>1 DEF Elements, Ordered
  <2>10. UNCHANGED <<queue, frames, thunk, done>> /\ phase' = phase
    BY <1>1, <1>3
  <2> QED BY <1>1, <2>2, <2>3, <2>4, <2>5, <2>6, <2>7, <2>8, <2>9, <2>10, TeardownStep
<1> QED BY <1>1, <1>2, <1>3


\* The slots of functions that are not installed may be cleared.
LEMMA SlotsCleared ==
  ASSUME HB!BackendInv, NEW X, \A c \in X : c \notin entries[Agent],
         slot' = [c \in Funcs |-> IF c \in X THEN None ELSE slot[c]],
         UNCHANGED <<interceptor, stopping, leases, pending, entries, installing, jump, original,
                     contents, free, retained, holders, guard>>
  PROVE  /\ HB!BackendInv'
         /\ \A c \in Funcs : HB!Callable(c, slot[c], c) /\ slot'[c] = slot[c] => HB!Callable(c, slot[c], c)'
<1>1. HB!TypeOK /\ HB!LeasesCounted /\ HB!GuardedIsPending /\ HB!ContextsMatchEntries
  BY DEF HB!BackendInv
<1>2. slot' \in [Funcs -> Slices \cup {None}]
  BY <1>1 DEF HB!TypeOK
<1>3. HB!TypeOK'
  BY <1>1, <1>2 DEF HB!TypeOK
<1>4. HB!LeasesCounted' /\ HB!GuardedIsPending'
  BY <1>1 DEF HB!LeasesCounted, HB!GuardedIsPending
<1>5. HB!ContextsMatchEntries'
  <2>1. \A x \in Funcs : original[x] # None => x \in entries[Agent]
    BY <1>1 DEF HB!ContextsMatchEntries
  <2>2. \A x \in Funcs : original[x] # None => slot'[x] = slot[x]
    BY <2>1
  <2>3. \A x \in Funcs : original[x] # None =>
            original[x] \notin free /\ contents[original[x]] = x /\ slot'[x] = original[x]
    BY <1>1, <2>2 DEF HB!ContextsMatchEntries
  <2> QED BY <1>1, <2>3 DEF HB!ContextsMatchEntries
<1>6. ASSUME NEW c \in Funcs, HB!Callable(c, slot[c], c), slot'[c] = slot[c]
      PROVE  HB!Callable(c, slot[c], c)'
  BY <1>6 DEF HB!Callable
<1> QED BY <1>3, <1>4, <1>5, <1>6 DEF HB!BackendInv

\* The teardown of an object is finished.
LEMMA FinishKeeps ==
  ASSUME HookInv, NEW o \in Objects, Finish(o)
  PROVE  HookInv'
<1>1. /\ todo # << >> /\ Head(todo)[1] = "finish" /\ Head(todo)[2] = o /\ o \in flushed
      /\ slot' = [c \in Funcs |-> IF c \in Elements(Channels(o)) THEN None ELSE slot[c]]
      /\ state' = [state EXCEPT ![o] = "retired"] /\ active' = [active EXCEPT ![o] = FALSE]
      /\ todo' = << >> \o Tail(todo)
      /\ UNCHANGED <<interceptor, stopping, leases, pending, entries, installing, jump, original,
                     contents, free, retained, holders, guard, alive, quiescent, flushed, leased,
                     point, thunk, route, queue, frames, phase, done>>
  BY DEF Finish, Doing, Push, custom
<1>2. /\ TypeOK /\ Ordered(todo) /\ HB!BackendInv /\ leased = holders[Agent] /\ TeardownFits
      /\ JumpsLead /\ CallsBacked
      /\ state \in [Objects -> {"inactive", "installed", "pending", "retired"}]
      /\ active \in [Objects -> BOOLEAN]
  BY DEF HookInv, TypeOK
<1>3. Head(todo)[1] \notin Inner /\ Head(todo)[1] \notin Starting /\ Due("finish", o)
      /\ Head(todo)[1] \notin Inner \cup {"uninstall"}
  BY <1>1, Heading DEF Inner, Starting, Due
<1>4. /\ state[o] = "pending" /\ \A l \in LivesOf(o) : route[l] = "target"
      /\ \A c \in Elements(Channels(o)) : c \notin entries[Agent] /\ c \notin leased
  <2>1. state[o] = "pending" /\ \A l \in LivesOf(o) : route[l] = "target" /\ Held(l) = {}
    BY <1>1, <1>2, <1>3, NoneInner DEF TeardownFits
  <2>2. ASSUME NEW c \in Elements(Channels(o)) PROVE c \notin entries[Agent] /\ c \notin leased
    <3>1. c \in Builtin /\ ObjectOf(c) = o /\ LifeOf(c) \in LivesOf(o)
      BY Names
    <3> QED BY <1>3, <2>1, <3>1, NoneInner DEF Held
  <2> QED BY <2>1, <2>2
<1>5. /\ HB!BackendInv'
      /\ \A c \in Funcs : HB!Callable(c, slot[c], c) /\ slot'[c] = slot[c] => HB!Callable(c, slot[c], c)'
  BY <1>1, <1>2, <1>4, SlotsCleared
<1>6. ASSUME NEW c \in Funcs, Guarded(c), c \in leased', slot'[c] = slot[c] PROVE Guarded(c)'
  BY <1>5, <1>6 DEF Guarded
<1>7. /\ state'[o] = "retired" /\ \A q \in Objects : q # o => state'[q] = state[q] /\ active'[q] = active[q]
      /\ state' \in [Objects -> {"inactive", "installed", "pending", "retired"}]
      /\ active' \in [Objects -> BOOLEAN]
  BY <1>1, <1>2
<1>8. Advanced(<< >>) /\ Elements(todo)' = Elements(Tail(todo))
  BY <1>1, <1>2, PushNone
<1>9. todo' \in Seq(Steps) /\ Ordered(todo') /\ Elements(todo) = {Head(todo)} \cup Elements(Tail(todo))
  BY <1>8 DEF Advanced
<1>10. TypeOK'
  BY <1>1, <1>2, <1>5, <1>7, <1>9 DEF TypeOK
<1>11. ASSUME NEW c \in Funcs, c \in Roles \/ ObjectOf(c) # o PROVE Keeps(c) /\ (InUse(c)' <=> InUse(c))
  <2>1. CASE c \in Roles
    <3>1. c \notin Builtin /\ c \notin Elements(Channels(o))
      BY <2>1, Names
    <3> QED BY <1>1, <2>1, <3>1 DEF Keeps, InUse
  <2>2. CASE c \notin Roles
    <3>1. c \notin Elements(Channels(o)) /\ ObjectOf(c) # o /\ ObjectOf(c) \in Objects
      BY <1>11, <2>2, Names
    <3> QED BY <1>1, <1>7, <2>2, <3>1 DEF Keeps, InUse
  <2> QED BY <2>1, <2>2
<1>12. ASSUME NEW c \in Funcs, c \notin Roles, ObjectOf(c) = o PROVE ~InUse(c)' /\ c \notin leased
  <2>1. c \in Builtin /\ LifeOf(c) \in LivesOf(o) /\ c \in Elements(Channels(o))
    BY <1>12, Names
  <2> QED BY <1>1, <1>4, <1>7, <1>12, <2>1 DEF InUse
<1>13. ASSUME NEW c \in Funcs
       PROVE  /\ InUse(c)' => InUse(c) /\ Keeps(c)
              /\ IF c \in Roles THEN slot'[c] = slot[c]
                 ELSE state[ObjectOf(c)] # "inactive" => state'[ObjectOf(c)] # "inactive"
  <2>1. InUse(c)' => InUse(c) /\ Keeps(c)
    BY <1>11, <1>12
  <2>2. c \in Roles => slot'[c] = slot[c]
    BY <1>11 DEF Keeps
  <2>3. c \notin Roles => ObjectOf(c) \in Objects
    BY Names
  <2> QED BY <1>7, <2>1, <2>2, <2>3
<1>14. ASSUME NEW f \in Routed, ~RolledPoint(f) PROVE Keeps(f.c)
  <2>1. f.c \in Funcs /\ Backed(f.c)
    BY <1>2, <1>14, RoutedCounted DEF CallsBacked
  <2>2. f.c \in leased
    BY <2>1 DEF Backed, Guarded
  <2> QED BY <1>11, <1>12, <2>1, <2>2
<1>15. TeardownFits'
  <2>1. /\ Elements(todo)' \subseteq Elements(todo) /\ Elements(Tail(todo)) \subseteq Elements(todo)'
    BY <1>8, <1>9
  <2>2. \A q \in Objects : /\ ~Due("finish", q)'
                           /\ state[q] = "installed" /\ Due("abandon", q)' => Due("uninstall", q)'
    <3>1. \A s \in Elements(Tail(todo)) : s[1] # "finish"
      BY <1>1, <1>3, NoneInner
    <3>2. \A q \in Objects : ~Due("finish", q)'
      BY <1>8, <3>1 DEF Due
    <3> QED BY <1>1, <1>3, <2>1, <3>2, Popped
  <2>3. \A q \in Objects : /\ state'[q] = "pending" => state[q] = "pending"
                           /\ state'[q] = "installed" => state[q] = "installed"
    BY <1>7
  <2> QED BY <1>1, <1>3, <2>2, <2>3, TeardownStays
<1>16. \A c \in Builtin : state'[ObjectOf(c)] = "retired" /\ c \in leased' => state[ObjectOf(c)] = "retired"
  <2>1. \A c \in Builtin : c \in Funcs /\ c \notin Roles /\ ObjectOf(c) \in Objects
    BY Names
  <2> QED BY <1>1, <1>7, <1>12, <2>1
<1>17. /\ todo # << >> /\ UNCHANGED <<queue, frames, thunk, done>> /\ jump' \subseteq jump
       /\ leased' \subseteq leased /\ (interceptor'[Agent] => interceptor[Agent]) /\ phase' = phase
       /\ \A l \in Lives : route'[l] = "record" => route[l] = "record"
       /\ \A q \in PointIds : point[q] = "failed" => point'[q] = "failed"
       /\ \A s \in Elements(todo)' : s \in Elements(todo)
  BY <1>1, <1>8, <1>9
<1> QED BY <1>3, <1>6, <1>9, <1>10, <1>13, <1>14, <1>15, <1>16, <1>17, TeardownStep


\* The destructor of a hook leaves what is still pending to the process.
LEMMA AbandonKeeps ==
  ASSUME HookInv, NEW o \in Objects, Abandon(o)
  PROVE  HookInv'
<1> DEFINE held == state[o] = "pending" /\ \E c \in Elements(Channels(o)) : c \in leased
           gone == IF state[o] = "pending" THEN LivesOf(o) ELSE {}
<1>1. /\ todo # << >> /\ Head(todo)[1] = "abandon" /\ Head(todo)[2] = o
      /\ alive' = [alive EXCEPT ![o] = held] /\ active' = [active EXCEPT ![o] = @ /\ held]
      /\ route' = [l \in Lives |-> IF l \in gone THEN "target" ELSE route[l]]
      /\ state' = [state EXCEPT ![o] = IF @ = "pending" THEN "retired" ELSE @]
      /\ todo' = << >> \o Tail(todo)
      /\ UNCHANGED <<backend, quiescent, flushed, leased, point, thunk, queue, frames, phase, done>>
  BY DEF Abandon, Doing, Push, custom, Routes
<1>2. /\ TypeOK /\ Ordered(todo) /\ HB!BackendInv /\ leased = holders[Agent] /\ TeardownFits
      /\ JumpsLead /\ CallsBacked /\ RoutesBacked /\ AbandonedOnce
      /\ state \in [Objects -> {"inactive", "installed", "pending", "retired"}]
      /\ active \in [Objects -> BOOLEAN] /\ alive \in [Objects -> BOOLEAN] /\ route \in [Lives -> AnyRoute]
  BY DEF HookInv, TypeOK
<1>3. Head(todo)[1] \notin Inner /\ Head(todo)[1] \notin Starting /\ Due("abandon", o)
      /\ Head(todo)[1] \notin Inner \cup {"uninstall"}
  BY <1>1, Heading DEF Inner, Starting, Due
<1>4. Advanced(<< >>) /\ Elements(todo)' = Elements(Tail(todo))
  BY <1>1, <1>2, PushNone
<1>5. /\ todo' \in Seq(Steps) /\ Ordered(todo') /\ Elements(todo) = {Head(todo)} \cup Elements(Tail(todo))
      /\ \A u \in Elements(Tail(todo)) : Follows(Head(todo), u)
  BY <1>4 DEF Advanced
<1>6. state[o] # "installed"
  <2>1. SUFFICES ASSUME state[o] = "installed" PROVE FALSE
    OBVIOUS
  <2>2. PICK u \in Elements(todo) : u[1] = "uninstall" /\ u[2] = o
    BY <1>2, <1>3, <2>1 DEF TeardownFits, Due
  <2>3. u \in Elements(Tail(todo))
    BY <1>1, <1>5, <2>2
  <2> QED BY <1>1, <1>5, <2>2, <2>3 DEF Follows
<1>7. /\ held \in BOOLEAN /\ alive'[o] = held /\ active'[o] = (active[o] /\ held)
      /\ alive' \in [Objects -> BOOLEAN] /\ active' \in [Objects -> BOOLEAN]
      /\ \A q \in Objects : q # o => alive'[q] = alive[q] /\ active'[q] = active[q]
  BY <1>1, <1>2, Zenon
<1>8. /\ state'[o] = (IF state[o] = "pending" THEN "retired" ELSE state[o])
      /\ state' \in [Objects -> {"inactive", "installed", "pending", "retired"}]
      /\ \A q \in Objects : q # o => state'[q] = state[q]
  BY <1>1, <1>2
<1>9. state[o] = "pending" => \A l \in LivesOf(o) : route[l] = "target"
  BY <1>3, NoneInner
<1>10. gone \subseteq LivesOf(o) /\ \A l \in gone : route[l] = "target"
  BY <1>9
<1>11. route' \in [Lives -> AnyRoute] /\ \A l \in Lives : route'[l] = route[l]
  BY <1>1, <1>2, <1>10 DEF AnyRoute
<1> HIDE DEF held, gone
<1>12. UNCHANGED <<slot, jump, entries, interceptor, holders>>
  BY <1>1 DEF backend
<1>13. /\ HB!BackendInv' /\ \A c \in Funcs : Guarded(c) /\ c \in leased' => Guarded(c)'
  BY <1>1, <1>2, <1>12, KeptByBackend
<1>14. TypeOK'
  BY <1>1, <1>2, <1>5, <1>7, <1>8, <1>11, <1>12, <1>13 DEF TypeOK
<1>15. ASSUME NEW c \in Funcs, c \in Roles \/ ObjectOf(c) # o PROVE Keeps(c) /\ (InUse(c)' <=> InUse(c))
  <2>1. CASE c \in Roles
    <3>1. c \notin Builtin /\ PointOf(c) \in Lives
      BY <2>1, Names
    <3> QED BY <1>1, <1>11, <1>12, <2>1, <3>1 DEF Keeps, InUse
  <2>2. CASE c \notin Roles
    <3>1. ObjectOf(c) # o /\ ObjectOf(c) \in Objects /\ LifeOf(c) \in Lives
      BY <1>15, <2>2, Names
    <3> QED BY <1>1, <1>7, <1>8, <1>11, <1>12, <2>2, <3>1 DEF Keeps, InUse
  <2> QED BY <2>1, <2>2
<1>16. ASSUME NEW c \in Funcs, c \notin Roles, ObjectOf(c) = o, Seen(c)
       PROVE  ~InUse(c)' /\ (c \in leased => Keeps(c)) /\ state[o] # "inactive"
  <2>1. c \in Builtin /\ LifeOf(c) \in LivesOf(o) /\ c \in Elements(Channels(o)) /\ LifeOf(c) \in Lives
    BY <1>16, Names
  <2>2. state[o] # "inactive" /\ (InUse(c) => Backed(c))
    BY <1>2, <1>16 DEF RoutesBacked
  <2>3. CASE state[o] = "pending"
    <3>1. ~InUse(c)'
      BY <1>8, <1>9, <1>11, <1>16, <2>1, <2>3 DEF InUse
    <3>2. ASSUME c \in leased PROVE Keeps(c)
      <4>1. held
        BY <2>1, <2>3, <3>2 DEF held
      <4>2. alive'[o] /\ (active[o] => active'[o])
        BY <1>7, <4>1, Zenon
      <4> QED BY <1>1, <1>12, <1>16, <4>2 DEF Keeps
    <3> QED BY <2>2, <3>1, <3>2
  <2>4. CASE state[o] = "retired"
    <3>1. c \notin leased
      BY <1>2, <1>3, <1>16, <2>1, <2>4 DEF AbandonedOnce
    <3>2. ~InUse(c)
      BY <2>2, <3>1 DEF Backed, Guarded
    <3>3. ~InUse(c)'
      BY <1>8, <1>11, <1>16, <2>1, <2>4, <3>2 DEF InUse
    <3> QED BY <2>2, <3>1, <3>3
  <2>5. state[o] \in {"inactive", "installed", "pending", "retired"}
    BY <1>2
  <2> QED BY <1>6, <2>2, <2>3, <2>4, <2>5
<1>17. ASSUME NEW c \in Funcs, Seen(c)
       PROVE  /\ InUse(c)' => InUse(c) /\ Keeps(c)
              /\ IF c \in Roles THEN slot'[c] = slot[c]
                 ELSE state[ObjectOf(c)] # "inactive" => state'[ObjectOf(c)] # "inactive"
  <2>1. InUse(c)' => InUse(c) /\ Keeps(c)
    BY <1>15, <1>16, <1>17
  <2>2. c \notin Roles => ObjectOf(c) \in Objects
    BY Names
  <2> QED BY <1>8, <1>12, <2>1, <2>2
<1>18. ASSUME NEW f \in Routed, ~RolledPoint(f) PROVE Keeps(f.c)
  <2>1. f.c \in Funcs /\ Backed(f.c) /\ Seen(f.c)
    BY <1>2, <1>18, RoutedCounted DEF CallsBacked
  <2>2. f.c \in leased
    BY <2>1 DEF Backed, Guarded
  <2> QED BY <1>15, <1>16, <2>1, <2>2
<1>19. TeardownFits'
  <2>1. /\ Elements(todo)' \subseteq Elements(todo) /\ Elements(Tail(todo)) \subseteq Elements(todo)'
    BY <1>4, <1>5
  <2>2. \A q \in Objects : /\ ~Due("finish", q)'
                           /\ state[q] = "installed" /\ Due("abandon", q)' => Due("uninstall", q)'
    <3>1. \A s \in Elements(Tail(todo)) : s[1] # "finish"
      BY <1>1, <1>3, NoneInner
    <3>2. \A q \in Objects : ~Due("finish", q)'
      BY <1>4, <3>1 DEF Due
    <3> QED BY <1>1, <1>3, <2>1, <3>2, Popped
  <2>3. \A q \in Objects : /\ state'[q] = "pending" => state[q] = "pending"
                           /\ state'[q] = "installed" => state[q] = "installed"
    BY <1>8
  <2>4. /\ \A q \in Objects : \A l \in LivesOf(q) : route[l] = "target" => route'[l] = "target"
        /\ \A p \in PointIds : route[p] = "target" => route'[p] = "target"
    BY <1>11, Names
  <2> QED BY <1>1, <1>3, <1>12, <2>2, <2>3, <2>4, TeardownStays
<1>20. ASSUME NEW c \in Builtin, state'[ObjectOf(c)] = "retired", c \in leased'
       PROVE  \/ state[ObjectOf(c)] = "retired"
              \/ /\ Head(todo)[1] = "abandon" /\ Head(todo)[2] = ObjectOf(c)
                 /\ \A s \in Elements(todo)' : Follows(Head(todo), s)
  <2>1. ObjectOf(c) \in Objects
    BY Names
  <2> QED BY <1>1, <1>4, <1>5, <1>8, <1>20, <2>1
<1>21. /\ todo # << >> /\ UNCHANGED <<queue, frames, thunk, done>> /\ jump' \subseteq jump
       /\ leased' \subseteq leased /\ (interceptor'[Agent] => interceptor[Agent]) /\ phase' = phase
       /\ \A l \in Lives : route'[l] = "record" => route[l] = "record"
       /\ \A q \in PointIds : point[q] = "failed" => point'[q] = "failed"
       /\ \A s \in Elements(todo)' : s \in Elements(todo)
  BY <1>1, <1>4, <1>5, <1>11, <1>12
<1> QED BY <1>3, <1>5, <1>13, <1>14, <1>17, <1>18, <1>19, <1>20, <1>21, TeardownStep

\* The backend goes with what is still installed.
LEMMA BackendGone ==
  ASSUME HookInv, todo # << >>, Head(todo)[1] \notin Inner \cup {"uninstall"}, Head(todo)[1] \notin Starting,
         HB!Next \/ UNCHANGED backend, todo' = << >> \o Tail(todo), phase' \in {phase, "abandoned"},
         jump' \subseteq jump, entries'[Agent] \subseteq entries[Agent], UNCHANGED <<holders, slot>>,
         interceptor'[Agent] => interceptor[Agent],
         UNCHANGED <<objects, custom, thunk, route, queue, frames, done>>
  PROVE  HookInv'
<1>1. /\ TypeOK /\ Ordered(todo) /\ HB!BackendInv /\ leased = holders[Agent] /\ TeardownFits
  BY DEF HookInv, TypeOK
<1>2. UNCHANGED <<state, active, alive, quiescent, flushed, leased, point>>
  BY DEF objects, custom
<1>3. Advanced(<< >>) /\ Elements(todo)' = Elements(Tail(todo))
  BY <1>1, PushNone
<1>4. /\ todo' \in Seq(Steps) /\ Ordered(todo') /\ Elements(todo) = {Head(todo)} \cup Elements(Tail(todo))
  BY <1>3 DEF Advanced
<1>5. /\ HB!BackendInv' /\ leased' = holders'[Agent]
      /\ \A c \in Funcs : Guarded(c) /\ c \in leased' => Guarded(c)'
  BY <1>1, <1>2, KeptByBackend
<1>6. TypeOK'
  BY <1>1, <1>2, <1>4, <1>5 DEF TypeOK
<1>7. \A c \in Funcs : Keeps(c) /\ (InUse(c)' <=> InUse(c)) /\ slot'[c] = slot[c]
  BY <1>2 DEF Keeps, InUse
<1>8. \A f \in Routed : Keeps(f.c)
  BY <1>1, <1>7, CallsKnown
<1>9. TeardownFits'
  <2>1. /\ Elements(todo)' \subseteq Elements(todo) /\ Elements(Tail(todo)) \subseteq Elements(todo)'
    BY <1>3, <1>4
  <2>2. \A o \in Objects : /\ Due("finish", o)' => Due("finish", o)
                           /\ state[o] = "installed" /\ Due("abandon", o)' => Due("uninstall", o)'
    BY <2>1, Popped
  <2>3. \A o \in Objects : Due("finish", o) => state[o] = "pending"
    BY <1>1 DEF TeardownFits
  <2> QED BY <1>2, <2>2, <2>3, TeardownStays
<1>10. \A s \in Elements(todo)' : s \in Elements(todo)
  BY <1>3, <1>4
<1> QED BY <1>2, <1>4, <1>5, <1>6, <1>7, <1>8, <1>9, <1>10, TeardownStep

LEMMA DestroyBackendKeeps ==
  ASSUME HookInv, DestroyBackend
  PROVE  HookInv'
<1>1. /\ todo # << >> /\ Head(todo)[1] = "destroy" /\ todo' = << >> \o Tail(todo)
      /\ IF interceptor[Agent] THEN HB!Destroy(Agent) ELSE UNCHANGED backend
      /\ UNCHANGED <<objects, custom, thunk, route, queue, frames, phase, done>>
  BY DEF DestroyBackend, Doing, Push
<1>2. HB!BackendInv
  BY DEF HookInv, TypeOK
<1>3. Head(todo)[1] \notin Inner \cup {"uninstall"} /\ Head(todo)[1] \notin Starting
  BY <1>1 DEF Inner, Starting
<1>4. CASE HB!Destroy(Agent)
  <2>1. /\ HB!Next /\ jump' \subseteq jump /\ entries'[Agent] \subseteq entries[Agent]
        /\ UNCHANGED <<holders, slot>> /\ (interceptor'[Agent] => interceptor[Agent])
    BY <1>2, <1>4, BackendMoves, BackendEffects
  <2> QED BY <1>1, <1>3, <2>1, BackendGone
<1>5. CASE UNCHANGED backend
  <2>1. /\ jump' \subseteq jump /\ entries'[Agent] \subseteq entries[Agent]
        /\ UNCHANGED <<holders, slot>> /\ (interceptor'[Agent] => interceptor[Agent])
    BY <1>5 DEF backend
  <2> QED BY <1>1, <1>3, <1>5, <2>1, BackendGone
<1> QED BY <1>1, <1>4, <1>5


\* finalize(): the hooks stay, or the backend has been shut down.
LEMMA FinalizeKeeps ==
  ASSUME HookInv, Finalize
  PROVE  HookInv'
<1>1. /\ todo # << >> /\ Head(todo)[1] = "finalize"
      /\ UNCHANGED <<objects, custom, thunk, route, queue, frames, done>>
      /\ \/ phase' = "abandoned" /\ Push(<< >>) /\ UNCHANGED backend
         \/ HB!Shutdown(Agent, FALSE) /\ phase' = "abandoned" /\ Push(<< >>)
         \/ HB!Shutdown(Agent, TRUE) /\ phase' = "finalized" /\ Push(<< Step("drained", None, "late") >>)
  BY DEF Finalize, Doing
<1>2. /\ TypeOK /\ Ordered(todo) /\ HB!BackendInv /\ leased = holders[Agent] /\ TeardownFits
      /\ RoutesBacked
  BY DEF HookInv, TypeOK
<1>3. /\ Head(todo)[1] \notin Inner \cup {"uninstall"} /\ Head(todo)[1] \notin Starting
      /\ Head(todo)[1] \notin Starting \cup Inner /\ Final(Head(todo)) /\ done' \in BOOLEAN
  BY <1>1, <1>2 DEF Inner, Starting, Final, TypeOK
<1>4. CASE phase' = "abandoned" /\ Push(<< >>) /\ UNCHANGED backend
  <2>1. done' => done
    BY <1>1
  <2>2. Head(todo)[1] = "uninstall" => state[Head(todo)[2]] # "installed"
    BY <1>3
  <2> QED BY <1>1, <1>3, <1>4, <2>1, <2>2, QuietNone
<1>5. CASE HB!Shutdown(Agent, FALSE) /\ phase' = "abandoned" /\ Push(<< >>)
  <2>1. /\ HB!Next /\ jump' \subseteq jump /\ entries'[Agent] \subseteq entries[Agent]
        /\ UNCHANGED <<holders, slot>> /\ (interceptor'[Agent] => interceptor[Agent])
    BY <1>2, <1>5, BackendMoves, BackendEffects
  <2>2. todo' = << >> \o Tail(todo) /\ phase' \in {phase, "abandoned"}
    BY <1>5 DEF Push
  <2> QED BY <1>1, <1>3, <2>1, <2>2, BackendGone
<1>6. CASE HB!Shutdown(Agent, TRUE) /\ phase' = "finalized" /\ Push(<< Step("drained", None, "late") >>)
  <2> DEFINE x == <<"drained", None, "late">>
  <2>1. /\ HB!Next /\ jump' = {} /\ entries'[Agent] \subseteq entries[Agent] /\ holders[Agent] = {}
        /\ UNCHANGED <<holders, slot>> /\ ~interceptor'[Agent]
    BY <1>2, <1>6, BackendMoves, BackendEffects
  <2>2. UNCHANGED <<state, active, alive, quiescent, flushed, leased, point>>
    BY <1>1 DEF objects, custom
  <2>3. x \in Steps /\ Final(x) /\ x[1] = "drained" /\ todo' = << x >> \o Tail(todo)
    BY <1>6, NamedSteps, KnownKinds DEF Push
  <2> HIDE DEF x
  <2>4. Advanced(<< x >>) /\ Elements(todo)' = {x} \cup Elements(Tail(todo))
    BY <1>1, <1>2, <1>3, <2>3, FinalFollows, PushOne
  <2>5. todo' \in Seq(Steps) /\ Ordered(todo')
    BY <2>4 DEF Advanced
  <2>6. \A u \in Elements(todo)' :
            /\ u[1] \notin Starting \cup {"finish", "abandon"} /\ u[1] # "members"
            /\ u[1] = "queue" => u \in Elements(todo)
    <3>1. x[1] \notin Starting \cup {"finish", "abandon", "members", "queue"}
      BY <2>3 DEF Starting
    <3>2. \A u \in Elements(Tail(todo)) : u[1] # "members"
      BY <1>1, <1>3, FinalRest DEF Final
    <3> QED BY <1>1, <1>3, <2>4, <3>1, <3>2, FinalRest
  <2>7. /\ HB!BackendInv' /\ leased' = holders'[Agent] /\ leased' = {}
        /\ \A c \in Funcs : Guarded(c) /\ c \in leased' => Guarded(c)'
    BY <1>2, <2>1, <2>2, KeptByBackend
  <2>8. TypeOK'
    BY <1>1, <1>2, <2>2, <2>5, <2>7 DEF TypeOK
  <2>9. \A c \in Funcs : Keeps(c) /\ (InUse(c)' <=> InUse(c)) /\ slot'[c] = slot[c]
    BY <1>1, <2>1, <2>2 DEF Keeps, InUse
  <2>10. JumpsLead' /\ RoutesBacked' /\ CallsBacked'
    <3>1. \A c \in Funcs : Seen(c) =>
              IF c \in Roles THEN slot'[c] # None ELSE state'[ObjectOf(c)] # "inactive"
      BY <1>2, <2>2, <2>9 DEF RoutesBacked
    <3>2. \A f \in Routed : \/ f.life \in PointIds /\ point'[f.life] = "failed"
                            \/ ~RolledPoint(f) /\ Keeps(f.c)
      BY <1>2, <2>2, <2>9, CallsKnown DEF RolledPoint
    <3> QED BY <1>1, <2>1, <2>7, <2>9, <3>1, <3>2, CallsStay
  <2>11. TeardownFits'
    <3>1. \A o : ~Due("finish", o)' /\ ~Due("abandon", o)'
      BY <2>6 DEF Due
    <3> QED BY <1>1, <1>3, <2>1, <2>2, <3>1, TeardownStays
  <2>12. AbandonedOnce'
    BY <2>7 DEF AbandonedOnce
  <2>13. QueueFits'
    <3>1. (Due("queue", None)' => Due("queue", None)) /\ ~Due("members", None)'
      BY <2>6 DEF Due
    <3> QED BY <1>1, <3>1, QueueFollows
  <2>14. \A s \in Elements(todo)' : s[1] \notin Starting
    BY <2>6
  <2> QED BY <1>6, <2>1, <2>5, <2>7, <2>8, <2>10, <2>11, <2>12, <2>13, <2>14, LaterStep
<1> QED BY <1>1, <1>4, <1>5, <1>6

----------------------------------------------------------------------------
(* The target threads. *)

\* One thread goes on, and nothing else changes.
LEMMA OtherCalls ==
  ASSUME TypeOK, NEW t \in Threads, NEW f, Go(t, f)
  PROVE  /\ \A g \in Calls' : g \in Calls \/ (g = f /\ f # None)
         /\ \A u \in Threads : u # t => frames'[u] = frames[u]
         /\ frames'[t] = f
<1>1. frames \in [Threads -> Calling \cup {None}]
  BY DEF TypeOK
<1>2. frames'[t] = f /\ \A u \in Threads : u # t => frames'[u] = frames[u]
  BY <1>1 DEF Go
<1>3. ASSUME NEW g \in Calls' PROVE g \in Calls \/ (g = f /\ f # None)
  <2>1. PICK u \in Threads : frames'[u] # None /\ g = frames'[u]
    BY <1>3 DEF Calls
  <2> QED BY <1>2, <2>1 DEF Calls
<1> QED BY <1>2, <1>3

LEMMA CallStep ==
  ASSUME HookInv, NEW t \in Threads, NEW f, Go(t, f), TargetStep,
         f = None \/ (f \in Calling /\ f.c \in Funcs /\ Seen(f.c) /\ f.life = Lifecycle(f.c)),
         f # None /\ f.at \in {"entered", "calling"} /\ f.route # "target" /\ ~RolledPoint(f) =>
             Backed(f.c) /\ (f.at = "calling" => f.orig = slot[f.c]),
         f # None /\ f.at \in {"entered", "calling"} /\ f.route = "record" =>
             route[f.life] = "record" \/ Counted(f.life, {"record"})
  PROVE  HookInv'
<1>1. /\ TypeOK /\ Ordered(todo) /\ PhaseFits /\ JumpsLead /\ RoutesBacked /\ CallsBacked
      /\ InstallFits /\ TeardownFits /\ AbandonedOnce /\ QueueFits
      /\ frames \in [Threads -> Calling \cup {None}]
  BY DEF HookInv, TypeOK
<1>2. /\ \A g \in Calls' : g \in Calls \/ (g = f /\ f # None)
      /\ \A u \in Threads : u # t => frames'[u] = frames[u]
      /\ frames'[t] = f
  BY <1>1, OtherCalls
<1>3. UNCHANGED <<backend, objects, custom, thunk, route, queue, gate, control>>
  BY DEF TargetStep
<1>4. /\ UNCHANGED <<state, active, alive, quiescent, flushed, leased, point, todo, phase, done>>
      /\ UNCHANGED <<jump, slot, entries, interceptor, holders>>
  BY <1>3 DEF objects, custom, control, backend
<1>5. HB!BackendInv' /\ \A c \in Funcs : Guarded(c) <=> Guarded(c)'
  <2>1. HB!BackendInv'
    BY <1>1, <1>3, <1>4, KeptByBackend DEF TypeOK
  <2>2. \A c \in Funcs : Guarded(c) <=> Guarded(c)'
    BY <1>3, <1>4 DEF Guarded, HB!Callable, backend
  <2> QED BY <2>1, <2>2
<1>6. TypeOK'
  <2>1. frames' \in [Threads -> Calling \cup {None}]
    BY <1>1 DEF Go
  <2> QED BY <1>1, <1>3, <1>4, <1>5, <2>1 DEF TypeOK
<1>7. \A c \in Funcs : /\ Seen(c)' => Seen(c)
                       /\ Backed(c)' <=> Backed(c)
                       /\ InUse(c)' <=> InUse(c)
  <2>1. \A c \in Funcs : Seen(c)' => Seen(c)
    BY <1>2, <1>4 DEF Seen
  <2>2. \A c \in Funcs : (Backed(c)' <=> Backed(c)) /\ (InUse(c)' <=> InUse(c))
    BY <1>3, <1>4, <1>5 DEF Backed, InUse
  <2> QED BY <2>1, <2>2
<1>8. Ordered(todo)' /\ PhaseFits' /\ TeardownFits' /\ AbandonedOnce'
  <2>1. Elements(todo)' = Elements(todo) /\ \A k, x : Due(k, x)' <=> Due(k, x)
    BY <1>4 DEF Due, Elements
  <2>2. Ordered(todo)' /\ PhaseFits'
    BY <1>1, <1>3, <1>4, <2>1 DEF Ordered, PhaseFits
  <2>3. TeardownFits'
    BY <1>1, <1>3, <1>4, <2>1 DEF TeardownFits, Held
  <2>4. AbandonedOnce'
    BY <1>1, <1>3, <1>4, <2>1 DEF AbandonedOnce
  <2> QED BY <2>2, <2>3, <2>4
<1>9. JumpsLead'
  BY <1>1, <1>2, <1>3, <1>4 DEF JumpsLead
<1>10. RoutesBacked'
  BY <1>1, <1>4, <1>7 DEF RoutesBacked
<1>11. CallsBacked'
  <2>1. SUFFICES ASSUME NEW g \in Routed', ~RolledPoint(g)'
                 PROVE  Backed(g.c)' /\ (g.at = "calling" => g.orig = slot'[g.c])
    BY DEF CallsBacked
  <2>2. g \in Calls' /\ g.at \in {"entered", "calling"} /\ g.route # "target" /\ ~RolledPoint(g)
    BY <1>4, <2>1 DEF Routed, RolledPoint
  <2>3. CASE g \in Calls
    <3>1. g \in Routed /\ g.c \in Funcs
      BY <1>1, <2>2, <2>3, CallsKnown DEF Routed
    <3> QED BY <1>1, <1>4, <1>7, <2>2, <3>1 DEF CallsBacked
  <2>4. CASE g = f /\ f # None
    BY <1>4, <1>7, <2>2, <2>4
  <2> QED BY <1>2, <2>2, <2>3, <2>4
<1>12. InstallFits'
  <2>1. Elements(todo)' = Elements(todo) /\ \A k, x : Due(k, x)' <=> Due(k, x)
    BY <1>4 DEF Due, Elements
  <2>2. Builtin \subseteq Funcs /\ Roles \subseteq Funcs
    BY DEF Funcs
  <2> QED BY <1>1, <1>3, <1>4, <1>5, <1>7, <2>1, <2>2 DEF InstallFits
<1>13. QueueFits'
  <2>1. Recording' => Recording
    <3>1. SUFFICES ASSUME NEW l \in Lives, route'[l] = "record" \/ Counted(l, {"record"})' PROVE Recording
      BY DEF Recording
    <3>2. CASE route'[l] = "record"
      BY <1>3, <3>2 DEF Recording
    <3>3. CASE Counted(l, {"record"})'
      <4>1. PICK u \in Threads : /\ frames'[u] # None /\ frames'[u].at \in {"entered", "calling"}
                                 /\ frames'[u].life = l /\ frames'[u].route = "record"
        BY <3>3 DEF Counted, Inside
      <4>2. CASE u # t
        BY <1>2, <4>1, <4>2 DEF Recording, Counted, Inside
      <4>3. CASE u = t
        BY <1>2, <4>1, <4>3 DEF Recording
      <4> QED BY <4>2, <4>3
    <3> QED BY <3>1, <3>2, <3>3
  <2>2. \A k, x : Due(k, x)' <=> Due(k, x)
    BY <1>4 DEF Due, Elements
  <2> QED BY <1>1, <1>3, <1>4, <2>1, <2>2 DEF QueueFits
<1> QED BY <1>6, <1>8, <1>9, <1>10, <1>11, <1>12, <1>13 DEF HookInv


LEMMA ThreadKeeps ==
  ASSUME HookInv, NEW t \in Threads, Thread(t)
  PROVE  HookInv'
<1>1. /\ TypeOK /\ JumpsLead /\ RoutesBacked /\ CallsBacked
      /\ frames \in [Threads -> Calling \cup {None}] /\ route \in [Lives -> AnyRoute]
      /\ HB!BackendInv
  BY DEF HookInv, TypeOK
<1>2. \A f \in Calls : f.c \in Funcs /\ f.life \in Lives /\ Seen(f.c) /\ f.life = Lifecycle(f.c)
  BY <1>1, CallsKnown DEF JumpsLead
<1>3. ASSUME NEW at, Inside(t, at) PROVE frames[t] \in Calling /\ frames[t] \in Calls /\ frames[t].at = at
  BY <1>1, <1>3 DEF Inside, Calls
<1>4. ASSUME NEW c \in Funcs, Arrive(t, c) PROVE HookInv'
  <2> DEFINE f == [c |-> c, at |-> "arrived", life |-> thunk[c], route |-> "target", orig |-> None]
  <2>1. c \in jump /\ Go(t, f) /\ TargetStep
    BY <1>4 DEF Arrive
  <2>2. thunk[c] = Lifecycle(c) /\ Lifecycle(c) \in Lives
    BY <1>1, <2>1, Names DEF JumpsLead
  <2>3. f \in Calling /\ f.c = c /\ f.at = "arrived" /\ f.life = Lifecycle(f.c)
    BY <2>2 DEF Calling, AnyRoute
  <2>4. Seen(f.c)
    BY <2>1, <2>3 DEF Seen
  <2> HIDE DEF f
  <2> QED BY <2>1, <2>3, <2>4, CallStep
<1>5. ASSUME Enter(t) PROVE HookInv'
  <2>1. /\ frames[t] \in Calling /\ frames[t] \in Calls /\ frames[t].at \in {"arrived", "parked"}
        /\ TargetStep
    BY <1>3, <1>5 DEF Enter
  <2>2. /\ frames[t].c \in Funcs /\ frames[t].life \in Lives /\ Seen(frames[t].c)
        /\ frames[t].life = Lifecycle(frames[t].c)
    BY <1>2, <2>1
  <2>3. CASE gate = "closed"
    <3> DEFINE f == [frames[t] EXCEPT !.at = "parked"]
    <3>1. Go(t, f)
      BY <1>5, <2>3 DEF Enter
    <3>2. /\ f \in Calling /\ f.c = frames[t].c /\ f.at = "parked" /\ f.life = frames[t].life
      BY <2>1 DEF Calling
    <3> HIDE DEF f
    <3> QED BY <2>1, <2>2, <3>1, <3>2, CallStep
  <2>4. CASE gate # "closed"
    <3> DEFINE r == route[frames[t].life]
               f == [frames[t] EXCEPT !.route = r, !.at = IF r = "target" THEN "calling" ELSE "entered"]
    <3>1. Go(t, f)
      BY <1>5, <2>4 DEF Enter
    <3>2. r \in AnyRoute
      BY <1>1, <2>2
    <3>3. /\ f \in Calling /\ f.c = frames[t].c /\ f.life = frames[t].life /\ f.route = r
          /\ f.at = IF r = "target" THEN "calling" ELSE "entered"
      BY <2>1, <3>2 DEF Calling
    <3>4. ASSUME r # "target", ~RolledPoint(f) PROVE Backed(f.c) /\ f.at # "calling"
      <4>1. InUse(f.c)
        <5>1. CASE f.c \in Roles
          <6>1. f.life = PointOf(f.c) /\ PointOf(f.c) \in PointIds
            BY <2>2, <3>3, <5>1, Names
          <6> QED BY <3>3, <3>4, <5>1, <6>1 DEF InUse, RolledPoint
        <5>2. CASE f.c \notin Roles
          <6>1. f.life = LifeOf(f.c)
            BY <2>2, <3>3, <5>2, Names
          <6> QED BY <3>3, <3>4, <5>2, <6>1 DEF InUse
        <5> QED BY <5>1, <5>2
      <4> QED BY <1>1, <2>2, <3>3, <3>4, <4>1 DEF RoutesBacked
    <3>5. f.route = "record" => route[f.life] = "record"
      BY <3>3
    <3>6. f \in Calling /\ f.c \in Funcs /\ Seen(f.c) /\ f.life = Lifecycle(f.c)
      BY <2>2, <3>3
    <3>7. f.route # "target" /\ ~RolledPoint(f) => Backed(f.c) /\ (f.at = "calling" => f.orig = slot[f.c])
      BY <3>3, <3>4
    <3> HIDE DEF f, r
    <3> QED BY <2>1, <3>1, <3>5, <3>6, <3>7, CallStep
  <2> QED BY <2>3, <2>4
<1>6. ASSUME LoadOriginal(t) PROVE HookInv'
  <2> DEFINE f == [frames[t] EXCEPT !.at = "calling", !.orig = slot[frames[t].c]]
  <2>1. /\ frames[t] \in Calling /\ frames[t] \in Calls /\ frames[t].at = "entered"
        /\ TargetStep /\ Go(t, f)
    BY <1>3, <1>6 DEF LoadOriginal
  <2>2. /\ frames[t].c \in Funcs /\ frames[t].life \in Lives /\ Seen(frames[t].c)
        /\ frames[t].life = Lifecycle(frames[t].c)
    BY <1>2, <2>1
  <2>3. slot[frames[t].c] \in Slices \cup {None}
    BY <1>1, <2>2 DEF HB!BackendInv, HB!TypeOK
  <2>4. /\ f \in Calling /\ f.c = frames[t].c /\ f.life = frames[t].life /\ f.route = frames[t].route
        /\ f.at = "calling" /\ f.orig = slot[frames[t].c]
    BY <2>1, <2>3 DEF Calling
  <2>5. ASSUME f.route # "target", ~RolledPoint(f) PROVE Backed(f.c)
    <3>1. frames[t] \in Routed /\ ~RolledPoint(frames[t])
      BY <2>1, <2>4, <2>5 DEF Routed, RolledPoint
    <3> QED BY <1>1, <2>4, <3>1 DEF CallsBacked
  <2>6. f.route = "record" => Counted(f.life, {"record"})
    <3>1. frames[t] # None
      BY <1>6 DEF LoadOriginal, Inside
    <3> QED BY <2>1, <2>4, <3>1 DEF Counted, Inside
  <2> HIDE DEF f
  <2> QED BY <2>1, <2>2, <2>4, <2>5, <2>6, CallStep
<1>7. ASSUME Leave(t) PROVE HookInv'
  BY <1>7, CallStep DEF Leave
<1> QED BY <1>4, <1>5, <1>6, <1>7 DEF Thread


----------------------------------------------------------------------------
(* The start. *)

LEMMA InstallPlan ==
  /\ InstallAll \in Seq(Steps) /\ Ordered(InstallAll)
  /\ \A s \in Elements(InstallAll) : s[1] \in {"arm", "point", "begin"}
<1> DEFINE s == RtlHooks \o VmChannels
           a == ForEach("arm", s, "late")
           b == ForEach("point", PointSeq, "late")
           x == <<"begin", None, "late">>
<1>1. s \in Seq(Elements(s)) /\ Elements(s) \subseteq Named
  <2>1. /\ RtlHooks \in Seq(Elements(RtlHooks)) /\ VmChannels \in Seq(Elements(VmChannels))
        /\ Elements(RtlHooks) \cup Elements(VmChannels) \subseteq Builtin
    BY NameSeqs
  <2>2. RtlHooks \in Seq(Builtin) /\ VmChannels \in Seq(Builtin)
    BY <2>1
  <2>3. s \in Seq(Builtin) /\ Elements(s) = Elements(RtlHooks) \cup Elements(VmChannels)
    BY <2>2, ElementsOfConcat
  <2>4. s \in Seq(Elements(s))
    <3> HIDE DEF s
    <3>1. Len(s) \in Nat /\ s \in [1 .. Len(s) -> Builtin]
      BY <2>3
    <3>2. s \in [1 .. Len(s) -> Elements(s)]
      BY <3>1 DEF Elements
    <3> QED BY <3>1, <3>2
  <2>5. Builtin \subseteq Named
    BY DEF Named, Funcs
  <2> QED BY <2>1, <2>3, <2>4, <2>5
<1> HIDE DEF s
<1>2. a \in Seq(Steps) /\ \A u \in Elements(a) : u[1] = "arm"
  BY <1>1, EachStep, KnownKinds
<1>3. b \in Seq(Steps) /\ \A u \in Elements(b) : u[1] = "point"
  <2>1. PointSeq \in Seq(Elements(PointSeq)) /\ Elements(PointSeq) \subseteq Named
    BY NameSeqs
  <2> QED BY <2>1, EachStep, KnownKinds
<1>4. x \in Steps /\ x[1] = "begin" /\ Step("begin", None, "late") = x
  BY NamedSteps, KnownKinds
<1>5. /\ \A u, v : /\ u[1] = "arm" /\ v[1] \in {"arm", "point"} => Follows(u, v)
                   /\ u[1] \in {"arm", "point"} /\ v[1] = "begin" => Follows(u, v)
                   /\ u[1] = "point" /\ v[1] = "point" /\ u[2] # v[2] => Follows(u, v)
  BY DEF Follows, Foremost, Inner, Final, Installs
<1>6. Ordered(b)
  <2>1. Declares(PointSeq)
    BY WindowsHooksAssumption
  <2>2. \A y, z \in Elements(PointSeq) : y # z => Follows(<<"point", y, "late">>, <<"point", z, "late">>)
    BY <1>5
  <2> QED BY <2>1, <2>2, OrderedEach
<1> HIDE DEF a, b, x
<1>7. Ordered(a)
  <2>1. \A i \in 1 .. Len(a) : a[i][1] = "arm"
    BY <1>2 DEF Elements
  <2> QED BY <1>5, <2>1 DEF Ordered
<1>8. << x >> \in Seq(Steps) /\ Elements(<< x >>) = {x} /\ Ordered(<< x >>)
  BY <1>4, TwoSteps
<1>9. a \o b \in Seq(Steps) /\ Ordered(a \o b) /\ Elements(a \o b) = Elements(a) \cup Elements(b)
  BY <1>2, <1>3, <1>5, <1>6, <1>7, Joined
<1>10. /\ (a \o b) \o << x >> \in Seq(Steps) /\ Ordered((a \o b) \o << x >>)
       /\ Elements((a \o b) \o << x >>) = Elements(a \o b) \cup {x}
  <2> DEFINE ab == a \o b
  <2>1. /\ ab \in Seq(Steps) /\ Ordered(ab) /\ \A u \in Elements(ab) : u[1] \in {"arm", "point"}
    BY <1>2, <1>3, <1>9
  <2> HIDE DEF ab
  <2>2. \A u \in Elements(ab), v \in Elements(<< x >>) : Follows(u, v)
    BY <1>4, <1>5, <1>8, <2>1
  <2>3. ab \o << x >> \in Seq(Steps) /\ Ordered(ab \o << x >>) /\ Elements(ab \o << x >>) = Elements(ab) \cup {x}
    BY <1>8, <2>1, <2>2, Joined
  <2> QED BY <2>3 DEF ab
<1>11. InstallAll = (a \o b) \o << x >>
  BY <1>4 DEF InstallAll, a, b, s
<1> QED BY <1>2, <1>3, <1>4, <1>9, <1>10, <1>11

LEMMA HookStarts ==
  ASSUME Init
  PROVE  HookInv
<1>1. /\ todo \in Seq(Steps) /\ Ordered(todo) /\ \A s \in Elements(todo) : s[1] \in {"arm", "point", "begin"}
  BY InstallPlan DEF Init
<1>2. /\ \A k, x : Due(k, x) => k \in {"arm", "point", "begin"}
      /\ \A s \in Elements(todo) : s[1] \in Starting
  BY <1>1 DEF Due, Starting
<1>3. HB!BackendInv /\ holders = [b \in {Agent} |-> {}] /\ jump = {} /\ slot = [x \in Funcs |-> None]
  BY BackendStarts DEF Init, HB!Init
<1>4. /\ Calls = {} /\ Routed = {} /\ \A c : ~Seen(c)
  <2>1. Calls = {}
    BY DEF Calls, Init
  <2> QED BY <1>3, <2>1 DEF Routed, Seen
<1>5. TypeOK
  BY <1>1, <1>3 DEF TypeOK, Init, AnyRoute
<1>6. PhaseFits
  BY <1>2 DEF PhaseFits, Init
<1>7. JumpsLead /\ RoutesBacked /\ CallsBacked
  BY <1>3, <1>4 DEF JumpsLead, RoutesBacked, CallsBacked
<1>8. InstallFits
  <2>1. \A p \in PointIds : point[p] = "declared"
    BY DEF Init
  <2> QED BY <1>2, <2>1 DEF InstallFits
<1>9. TeardownFits /\ AbandonedOnce
  <2>1. /\ \A o \in Objects : state[o] = "inactive" /\ o \notin flushed
        /\ \A c \in Builtin : state[ObjectOf(c)] = "inactive"
        /\ \A p \in PointIds : point[p] = "declared"
        /\ quiescent = {}
    BY Names DEF Init
  <2>2. TeardownFits
    BY <1>2, <2>1 DEF TeardownFits
  <2>3. AbandonedOnce
    BY <2>1 DEF AbandonedOnce
  <2> QED BY <2>2, <2>3
<1>10. QueueFits
  BY <1>2 DEF QueueFits, Init
<1> QED BY <1>1, <1>5, <1>6, <1>7, <1>8, <1>9, <1>10 DEF HookInv

----------------------------------------------------------------------------
(* Every step. *)

LEMMA StartKeeps ==
  ASSUME HookInv,
         \/ \E c \in Builtin : Arm(c) \/ Patch(c) \/ Activate(c) \/ PatchFails(c)
                               \/ LaterPatchFails(c) \/ Revert("revert", c)
         \/ \E r \in Roles : LeaseRole(r) \/ PatchRole(r) \/ ActivateRole(r) \/ RoleFails(r)
                             \/ DropLease(r) \/ Revert("revertRole", r)
                             \/ Revert("revertRoleKept", r)
  PROVE  HookInv'
<1>1. ASSUME NEW c \in Builtin, Arm(c) \/ Patch(c) \/ Activate(c) \/ PatchFails(c)
                                \/ LaterPatchFails(c) \/ Revert("revert", c)
      PROVE  HookInv'
  <2>1. c \in Funcs /\ "revert" \in {"revert", "revertRoleKept"}
    BY Names
  <2> QED BY <1>1, <2>1, ArmKeeps, PatchKeeps, ActivateKeeps, PatchFailsKeeps,
             LaterPatchFailsKeeps, RevertKeeps
<1>2. ASSUME NEW r \in Roles, LeaseRole(r) \/ PatchRole(r) \/ ActivateRole(r) \/ RoleFails(r)
                              \/ DropLease(r) \/ Revert("revertRole", r) \/ Revert("revertRoleKept", r)
      PROVE  HookInv'
  <2>1. r \in Funcs /\ "revertRoleKept" \in {"revert", "revertRoleKept"}
    BY Names
  <2> QED BY <1>2, <2>1, LeaseRoleKeeps, PatchRoleKeeps, ActivateRoleKeeps, RoleFailsKeeps,
             RollBackKeeps, RevertKeeps
<1> QED BY <1>1, <1>2

LEMMA PointsKeep ==
  ASSUME HookInv, NEW p \in PointIds,
         Unresolved(p) \/ InstallPoint(p) \/ RolledBack(p) \/ PointLive(p)
         \/ RetirePoint(p) \/ PointToTarget(p) \/ SettlePoint(p)
  PROVE  HookInv'
BY PointSettledKeeps, PointRoutedKeeps, RetireKeeps, RetireAgainKeeps, ToTargetKeeps, SettlePointKeeps

LEMMA ObjectsKeep ==
  ASSUME HookInv,
         \/ \E o \in Objects : Uninstall(o) \/ RouteToTarget(o) \/ Flush(o) \/ Settle(o)
                               \/ SettleExpires(o) \/ Finish(o) \/ DestroyHook(o) \/ Abandon(o)
         \/ \E x \in Objects \cup {None} : FlushBackend(x) \/ EvacuationFails(x)
  PROVE  HookInv'
<1>1. ASSUME NEW o \in Objects, Uninstall(o) \/ RouteToTarget(o) \/ Flush(o) \/ Settle(o)
                                \/ SettleExpires(o) \/ Finish(o) \/ DestroyHook(o) \/ Abandon(o)
      PROVE  HookInv'
  BY <1>1, UninstallKeeps, UninstallAgainKeeps, ToTargetKeeps, FlushKeeps, SettleKeeps, GivesUpKeeps,
     FinishKeeps, DestroyHookKeeps, AbandonKeeps
<1>2. ASSUME NEW x \in Objects \cup {None}, FlushBackend(x) \/ EvacuationFails(x)
      PROVE  HookInv'
  BY <1>2, FlushBackendKeeps, GivesUpKeeps
<1> QED BY <1>1, <1>2

LEMMA HookStep ==
  ASSUME HookInv, [Next]_vars
  PROVE  HookInv'
<1>1. CASE UNCHANGED vars
  <2>1. UNCHANGED <<interceptor, stopping, leases, pending, entries, installing, jump, original,
                    contents, free, retained, slot, holders, guard>>
    BY <1>1 DEF vars, backend
  <2>2. UNCHANGED backend /\ UNCHANGED <<objects, custom, thunk, route, queue, frames, todo, phase, done>>
    BY <1>1, <2>1 DEF vars, control, backend
  <2>3. UNCHANGED <<state, active, alive, quiescent, flushed, leased, point>>
    BY <2>2 DEF objects, custom
  <2>4. /\ TypeOK /\ Ordered(todo) /\ PhaseFits /\ InstallFits /\ TeardownFits /\ AbandonedOnce /\ QueueFits
    BY DEF HookInv
  <2>5. JumpsLead' /\ RoutesBacked' /\ CallsBacked' /\ HB!BackendInv'
    BY <2>2, QuietCalls
  <2>6. /\ Elements(todo)' = Elements(todo) /\ \A k, x : Due(k, x)' <=> Due(k, x)
    BY <2>2 DEF Due, Elements
  <2>7. TypeOK'
    BY <2>1, <2>2, <2>3, <2>4, <2>5 DEF TypeOK
  <2>8. Ordered(todo)' /\ PhaseFits'
    BY <2>1, <2>2, <2>3, <2>4, <2>6 DEF Ordered, PhaseFits
  <2>9. InstallFits'
    <3>1. \A c \in Funcs : (Seen(c)' <=> Seen(c)) /\ (Guarded(c)' <=> Guarded(c))
      BY <2>1, <2>2, <2>3 DEF Seen, Calls, Guarded, HB!Callable
    <3>2. Builtin \subseteq Funcs /\ Roles \subseteq Funcs
      BY DEF Funcs
    <3> QED BY <2>2, <2>3, <2>4, <2>6, <3>1, <3>2 DEF InstallFits
  <2>10. TeardownFits' /\ AbandonedOnce'
    BY <2>1, <2>2, <2>3, <2>4, <2>6 DEF TeardownFits, Held, AbandonedOnce
  <2>11. QueueFits'
    <3>1. Recording' <=> Recording
      BY <2>2 DEF Recording, Counted, Inside
    <3> QED BY <2>2, <2>4, <2>6, <3>1 DEF QueueFits
  <2> QED BY <2>5, <2>7, <2>8, <2>9, <2>10, <2>11 DEF HookInv
<1>2. ASSUME Control PROVE HookInv'
  <2>1. CASE \/ \E c \in Builtin : Arm(c) \/ Patch(c) \/ Activate(c) \/ PatchFails(c)
                                   \/ LaterPatchFails(c) \/ Revert("revert", c)
             \/ \E r \in Roles : LeaseRole(r) \/ PatchRole(r) \/ ActivateRole(r) \/ RoleFails(r)
                                 \/ DropLease(r) \/ Revert("revertRole", r)
                                 \/ Revert("revertRoleKept", r)
    BY <2>1, StartKeeps
  <2>2. CASE \E p \in PointIds : Unresolved(p) \/ InstallPoint(p) \/ RolledBack(p) \/ PointLive(p)
                                 \/ RetirePoint(p) \/ PointToTarget(p) \/ SettlePoint(p)
    BY <2>2, PointsKeep
  <2>3. CASE \/ \E o \in Objects : Uninstall(o) \/ RouteToTarget(o) \/ Flush(o) \/ Settle(o)
                                   \/ SettleExpires(o) \/ Finish(o) \/ DestroyHook(o) \/ Abandon(o)
             \/ \E x \in Objects \cup {None} : FlushBackend(x) \/ EvacuationFails(x)
    BY <2>3, ObjectsKeep
  <2>4. CASE \/ BeginCapture \/ Stop \/ CloseGate \/ CloseTimesOut \/ OpenGate \/ StopRecording
             \/ CustomUninstall \/ CustomExpires \/ CustomFinish
    BY <2>4, BeginCaptureKeeps, StopKeeps, PopsKeep, CloseTimesOutKeeps, StopRecordingKeeps,
       CustomUninstallKeeps, GivesUpKeeps
  <2>5. CASE \/ Finalize \/ Drained \/ DestroyHooks \/ Attempt \/ DestroyMembers \/ DestroyCustom
             \/ FlushCustom \/ AbandonPoints \/ FreeQueue \/ DestroyBackend
    BY <2>5, FinalizeKeeps, DrainedKeeps, DestroyHooksKeeps, AttemptKeeps, DestroyMembersKeeps,
       DestroyCustomKeeps, FlushCustomKeeps, AbandonPointsKeeps, FreeQueueKeeps, DestroyBackendKeeps
  <2> QED BY <1>2, <2>1, <2>2, <2>3, <2>4, <2>5 DEF Control
<1>3. ASSUME NEW t \in Threads, Thread(t) PROVE HookInv'
  BY <1>3, ThreadKeeps
<1> QED BY <1>1, <1>2, <1>3 DEF Next


----------------------------------------------------------------------------
(* The theorems. *)

LEMMA RoutesHoldFollows == HookInv => RoutesHold
<1>1. SUFFICES ASSUME HookInv, NEW f \in Routed
               PROVE  /\ f.at = "entered" => slot[f.c] # None
                      /\ f.life \notin PointIds => /\ alive[ObjectOf(f.c)]
                                                   /\ f.at = "entered" => active[ObjectOf(f.c)]
                      /\ f.route = "record" => queue
  BY DEF RoutesHold
<1>2. /\ TypeOK /\ JumpsLead /\ RoutesBacked /\ CallsBacked /\ QueueFits /\ HB!BackendInv
  BY <1>1 DEF HookInv, TypeOK
<1>3. /\ f.c \in Funcs /\ Seen(f.c) /\ f.life = Lifecycle(f.c)
      /\ f.route = "record" => Counted(Lifecycle(f.c), {"record"})
  BY <1>2, RoutedCounted
<1>4. f.route = "record" => queue
  <2>1. Lifecycle(f.c) \in Lives
    BY <1>3, Names
  <2> QED BY <1>2, <1>3, <2>1 DEF QueueFits, Recording
<1>5. f.c \notin Roles <=> f.life \notin PointIds
  BY <1>3, Names
<1>6. CASE RolledPoint(f)
  <2>1. f.c \in Roles
    BY <1>5, <1>6 DEF RolledPoint
  <2> QED BY <1>2, <1>3, <1>4, <1>5, <2>1 DEF RoutesBacked
<1>7. CASE ~RolledPoint(f)
  <2>1. Backed(f.c)
    BY <1>2, <1>7 DEF CallsBacked
  <2>2. None \notin Slices
    BY WindowsHooksAssumption
  <2>3. slot[f.c] # None
    BY <2>1, <2>2 DEF Backed, Guarded, HB!Callable
  <2>4. f.c \notin Roles => f.c \in Builtin
    BY <1>3, Names
  <2> QED BY <1>4, <1>5, <2>1, <2>3, <2>4 DEF Backed
<1> QED BY <1>6, <1>7

LEMMA OriginalsFollow == HookInv => OriginalsUsable
<1>1. SUFFICES ASSUME HookInv, NEW f \in Routed, f.at = "calling", ~RolledPoint(f)
               PROVE  contents[f.orig] = f.c
  BY DEF OriginalsUsable
<1>2. Backed(f.c) /\ f.orig = slot[f.c]
  BY <1>1 DEF HookInv, CallsBacked
<1> QED BY <1>2 DEF Backed, Guarded, HB!Callable

LEMMA FinalizedFollows == HookInv => FinalizedLeavesNothing
<1>1. SUFFICES ASSUME HookInv, phase = "finalized"
               PROVE  /\ jump = {} /\ leases[Agent] = 0 /\ ~interceptor[Agent]
                      /\ \A f \in Calls : ~RolledPoint(f) => route[f.life] = "target"
  BY DEF FinalizedLeavesNothing
<1>2. /\ TypeOK /\ JumpsLead /\ RoutesBacked /\ HB!BackendInv /\ leased = holders[Agent]
      /\ jump = {} /\ leased = {} /\ ~interceptor[Agent]
  BY <1>1 DEF HookInv, TypeOK, PhaseFits
<1>3. leases[Agent] = 0
  <2>1. leases[Agent] = Cardinality(holders[Agent])
    BY <1>2 DEF HB!BackendInv, HB!LeasesCounted, HB!Cardinality, Cardinality
  <2> QED BY <1>2, <2>1, FS_EmptySet
<1>4. ASSUME NEW f \in Calls, ~RolledPoint(f) PROVE route[f.life] = "target"
  <2>1. f.c \in Funcs /\ Seen(f.c) /\ f.life = Lifecycle(f.c)
    BY <1>2, CallsKnown DEF JumpsLead
  <2>2. ~InUse(f.c)
    BY <1>2, <2>1 DEF RoutesBacked, Backed, Guarded
  <2>3. CASE f.c \in Roles
    <3>1. f.life = PointOf(f.c) /\ f.life \in PointIds
      BY <2>1, <2>3, Names
    <3> QED BY <1>4, <2>2, <2>3, <3>1 DEF InUse, RolledPoint
  <2>4. CASE f.c \notin Roles
    <3>1. f.life = LifeOf(f.c)
      BY <2>1, <2>4, Names
    <3> QED BY <2>2, <2>4, <3>1 DEF InUse
  <2> QED BY <2>3, <2>4
<1> QED BY <1>2, <1>3, <1>4

\* HookInv holds in every state: what is still to be done, the records of the objects
\* and points, the leases, trampolines and jumps, and the calls inside agree at every
\* step of a start, a rollback, a stop or a destruction, for all functions and threads.
THEOREM WindowsHookInvariant == Spec => []HookInv
<1>1. Init => HookInv
  BY HookStarts
<1>2. HookInv /\ [Next]_vars => HookInv'
  BY HookStep
<1> QED BY <1>1, <1>2, PTL DEF Spec

\* No replacement reaches fail_broken_replacement_route, a freed hook state or a
\* freed queue.
THEOREM WindowsRoutesHold == Spec => []RoutesHold
BY WindowsHookInvariant, RoutesHoldFollows, PTL

\* A replacement that has loaded its original calls its own trampoline, whatever is
\* reverted, flushed, finalized or destroyed before it returns; rolled back points
\* excepted.
THEOREM WindowsOriginalsUsable == Spec => []OriginalsUsable
BY WindowsHookInvariant, OriginalsFollow, PTL

\* kFinalized is reported only with no jump, no lease, no interceptor, and with every
\* parked thread bound for the target route.
THEOREM WindowsFinalizedLeavesNothing == Spec => []FinalizedLeavesNothing
BY WindowsHookInvariant, FinalizedFollows, PTL

=============================================================================
