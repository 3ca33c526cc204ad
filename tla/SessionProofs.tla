--------------------------- MODULE SessionProofs ---------------------------
(***************************************************************************)
(* Proofs about Session, for any requests, pods, messages and scenes, and  *)
(* about Summaries, for any transcripts, runs and mishaps.                 *)
(***************************************************************************)
EXTENDS Session, Summaries, TLAPS, WellFoundedInduction, SequenceTheorems

(* Maxima and sequences *)

\* A bounded, non-empty set of integers that are at least -1 has a maximum.
LEMMA MaxOf ==
    ASSUME NEW S, NEW n \in Nat, S # {}, \A x \in S : x \in Int /\ -1 <= x /\ x <= n
    PROVE  Max(S) \in S /\ \A y \in S : Max(S) >= y
<1> DEFINE T == {n - x : x \in S}
<1>1. T \in SUBSET Nat /\ T # {}
  OBVIOUS
<1> HIDE DEF T
<1>2. PICK t \in T : \A u \in T : <<u, t>> \notin OpToRel(<, Nat)
  BY <1>1, WFMin, NatLessThanWellFounded, Zenon
<1>3. \A u \in T : ~(u < t)
  BY <1>1, <1>2, Zenon DEF OpToRel
<1>4. PICK x \in S : t = n - x
  BY <1>2 DEF T
<1>5. \A y \in S : x >= y
  <2>1. ASSUME NEW y \in S PROVE x >= y
    <3>1. n - y \in T
      BY DEF T
    <3>2. ~(n - y < t)
      BY <1>3, <3>1
    <3> QED
      BY <1>4, <3>2
  <2> QED
    BY <2>1
<1> QED
  BY <1>5, Zenon DEF Max

\* What RemoveAt leaves.
LEMMA RemovedAt ==
    ASSUME NEW S, NEW s \in Seq(S), NEW i \in 1..Len(s)
    PROVE  /\ RemoveAt(s, i) \in Seq(S)
           /\ Len(RemoveAt(s, i)) = Len(s) - 1
           /\ \A j \in 1..(Len(s) - 1) :
                RemoveAt(s, i)[j] = IF j < i THEN s[j] ELSE s[j + 1]
<1> DEFINE a == SubSeq(s, 1, i - 1)
           b == SubSeq(s, i + 1, Len(s))
<1>1. /\ a \in Seq(S) /\ Len(a) = i - 1
      /\ \A j \in 1..(i - 1) : a[j] = s[j]
  OBVIOUS
<1>2. /\ b \in Seq(S) /\ Len(b) = Len(s) - i
      /\ \A j \in 1..(Len(s) - i) : b[j] = s[i + j]
  OBVIOUS
<1> HIDE DEF a, b
<1> DEFINE c == a \o b
<1>3. c \in Seq(S) /\ Len(c) = Len(s) - 1
  <2>1. c \in Seq(S) /\ Len(c) = Len(a) + Len(b)
    <3>1. c \in Seq(S)
      BY <1>1, <1>2
    <3>2. Len(c) = Len(a) + Len(b)
      BY <1>1, <1>2, ConcatProperties
    <3> QED
      BY <3>1, <3>2
  <2> HIDE DEF c
  <2> QED
    BY <1>1, <1>2, <2>1
<1>4. ASSUME NEW j \in 1..(Len(s) - 1)
      PROVE  c[j] = IF j < i THEN s[j] ELSE s[j + 1]
  <2>1. CASE j < i
    <3>1. c[j] = a[j]
      BY <1>1, <1>2, <2>1
    <3> QED
      BY <1>1, <2>1, <3>1
  <2>2. CASE ~(j < i)
    <3>1. c[j] = b[j - (i - 1)]
      BY <1>1, <1>2, <2>2
    <3>2. b[j - (i - 1)] = s[i + (j - (i - 1))]
      BY <1>2, <2>2
    <3>3. i + (j - (i - 1)) = j + 1
      OBVIOUS
    <3> QED
      BY <2>2, <3>1, <3>2, <3>3
  <2> HIDE DEF c
  <2> QED
    BY <2>1, <2>2
<1>5. RemoveAt(s, i) = c
  BY Zenon DEF RemoveAt, a, b
<1> HIDE DEF c
<1> QED
  BY <1>3, <1>4, <1>5

\* Of a list without repetitions RemoveFirst takes the key and nothing else.
LEMMA Removed ==
    ASSUME NEW S, NEW s \in Seq(S), IsInjective(s), NEW k
    PROVE  LET t == RemoveFirst(s, k) IN
           /\ t \in Seq(S) /\ IsInjective(t)
           /\ ToSet(t) = ToSet(s) \ {k}
           /\ s # <<>> /\ Head(s) # k => t # <<>> /\ Head(t) = Head(s)
<1>1. CASE ~ \E i \in 1..Len(s) : s[i] = k
  <2>1. RemoveFirst(s, k) = s
    BY <1>1, Zenon DEF RemoveFirst
  <2>2. k \notin ToSet(s)
    BY <1>1 DEF ToSet
  <2> QED
    BY <2>1, <2>2
<1>2. ASSUME NEW i \in 1..Len(s), s[i] = k
      PROVE  LET t == RemoveFirst(s, k) IN
             /\ t \in Seq(S) /\ IsInjective(t)
             /\ ToSet(t) = ToSet(s) \ {k}
             /\ s # <<>> /\ Head(s) # k => t # <<>> /\ Head(t) = Head(s)
  <2> DEFINE t == RemoveAt(s, i)
  <2>a. \A j \in 1..Len(s) : s[j] = k => j = i
    BY <1>2 DEF IsInjective
  <2>b. {j \in 1..Len(s) : s[j] = k} = {i}
    BY <1>2, <2>a
  <2>c. SelectInSeq(s, LAMBDA v : v = k) = Min({i})
    BY <2>b DEF SelectInSeq
  <2>d. Min({i}) = i
    BY DEF Min
  <2>1. RemoveFirst(s, k) = t
    BY <1>2, <2>c, <2>d DEF RemoveFirst
  <2>2. /\ t \in Seq(S) /\ Len(t) = Len(s) - 1
        /\ \A j \in 1..(Len(s) - 1) : t[j] = IF j < i THEN s[j] ELSE s[j + 1]
    BY RemovedAt
  <2> HIDE DEF t
  <2>3. \A j \in 1..Len(t) : \E l \in 1..Len(s) :
          l # i /\ t[j] = s[l] /\ l = IF j < i THEN j ELSE j + 1
    <3>1. ASSUME NEW j \in 1..Len(t)
          PROVE  \E l \in 1..Len(s) :
                   l # i /\ t[j] = s[l] /\ l = IF j < i THEN j ELSE j + 1
      <4>1. CASE j < i
        BY <2>2, <4>1
      <4>2. CASE ~(j < i)
        BY <2>2, <4>2
      <4> QED
        BY <4>1, <4>2
    <3> QED
      BY <3>1
  <2>4. IsInjective(t)
    <3>1. ASSUME NEW a \in 1..Len(t), NEW b \in 1..Len(t), t[a] = t[b] PROVE a = b
      <4>1. PICK c \in 1..Len(s) : t[a] = s[c] /\ c = IF a < i THEN a ELSE a + 1
        BY <2>3
      <4>2. PICK d \in 1..Len(s) : t[b] = s[d] /\ d = IF b < i THEN b ELSE b + 1
        BY <2>3
      <4>3. s[c] = s[d]
        BY <3>1, <4>1, <4>2, Zenon
      <4>a. DOMAIN s = 1..Len(s)
        OBVIOUS
      <4>4. c = d
        BY <4>3, <4>a, Zenon DEF IsInjective
      <4> QED
        BY <2>2, <4>1, <4>2, <4>4
    <3>2. DOMAIN t = 1..Len(t)
      BY <2>2
    <3> QED
      BY <3>1, <3>2, Zenon DEF IsInjective
  <2>5. ASSUME NEW x \in ToSet(t) PROVE x \in ToSet(s) \ {k}
    <3>1. PICK j \in 1..Len(t) : x = t[j]
      BY <2>2 DEF ToSet
    <3>2. PICK l \in 1..Len(s) : l # i /\ t[j] = s[l]
      BY <2>3, Zenon
    <3>3. s[l] # k
      BY <2>a, <3>2, Zenon
    <3> QED
      BY <3>1, <3>2, <3>3 DEF ToSet
  <2>6. ASSUME NEW x \in ToSet(s) \ {k} PROVE x \in ToSet(t)
    <3>1. PICK j \in 1..Len(s) : s[j] = x
      BY <2>6 DEF ToSet
    <3>2. CASE j < i
      <4>1. j \in 1..Len(t) /\ t[j] = x
        BY <2>2, <3>1, <3>2
      <4> QED
        BY <2>2, <4>1 DEF ToSet
    <3>3. CASE j > i
      <4>1. j - 1 \in 1..Len(t) /\ t[j - 1] = x
        BY <2>2, <3>1, <3>3
      <4> QED
        BY <2>2, <4>1 DEF ToSet
    <3> QED
      BY <1>2, <2>6, <3>1, <3>2, <3>3
  <2>7. ASSUME s # <<>>, Head(s) # k PROVE t # <<>> /\ Head(t) = Head(s)
    <3>1. i # 1 /\ 1 < i /\ Len(s) > 1
      BY <1>2, <2>7
    <3>2. Len(t) >= 1 /\ t[1] = s[1]
      BY <2>2, <3>1
    <3> QED
      BY <2>2, <2>7, <3>2
  <2>8. ToSet(t) = ToSet(s) \ {k}
    BY <2>5, <2>6
  <2> QED
    BY <2>1, <2>2, <2>4, <2>7, <2>8
<1> QED
  BY <1>1, <1>2
-----------------------------------------------------------------------------
(* Scripts: which access may come after which, and at which a script ends. *)

Follows(a, b) ==
    \/ a = "resolve" /\ b = "load"
    \/ a = "load" /\ b = "install"
    \/ /\ a = "install"
       /\ b \in {"resolve", "load", "user", "ask", "lastUser", "hasSnap", "setMode", "open"}
    \/ a \in {"user", "reply"} /\ b = "number"
    \/ a = "number" /\ b = "insert"
    \/ a = "insert" /\ b \in {"ask", "reply"}
    \/ a = "lastUser" /\ b = "snapshot"
    \/ a = "hasSnap" /\ b = "lastTurn"
    \/ a \in {"ask", "snapshot", "lastTurn"} /\ b = "replace"
    \/ a \in {"replace", "restore"} /\ b \in {"reply", "resolve"}
    \/ a \in {"setMode", "publish"} /\ b = "resolve"
    \/ a = "open" /\ b = "publish"
    \/ a = "drop" /\ b = "purge"
    \/ a = "purge" /\ b = "deleteRow"

Ends == {"start", "install", "insert", "deleteRow"}

Chain(s) ==
    s \in Seq(Ops) /\ \A i \in 1..Len(s) : i < Len(s) => Follows(s[i], s[i + 1])

\* What is left of a script.
Path(s) == Chain(s) /\ (s # <<>> => s[Len(s)] \in Ends)

\* The accesses from a to z.
Piece(s, a, z) == Chain(s) /\ s # <<>> /\ s[1] = a /\ s[Len(s)] = z

\* Two pieces that fit make one.
LEMMA Joined ==
    ASSUME NEW s, NEW t, NEW a, NEW b, NEW y, NEW z,
           Piece(s, a, y), Piece(t, b, z), Follows(y, b)
    PROVE  Piece(s \o t, a, z)
<1> DEFINE u == s \o t
<1>1. s \in Seq(Ops) /\ t \in Seq(Ops) /\ Len(s) > 0 /\ Len(t) > 0
  BY DEF Piece, Chain
<1>2. /\ u \in Seq(Ops) /\ Len(u) = Len(s) + Len(t)
      /\ \A i \in 1..(Len(s) + Len(t)) : u[i] = IF i <= Len(s) THEN s[i] ELSE t[i - Len(s)]
  BY <1>1, ConcatProperties
<1> HIDE DEF u
<1>3. ASSUME NEW i \in 1..Len(u), i < Len(u) PROVE Follows(u[i], u[i + 1])
  <2>1. CASE i < Len(s)
    <3>1. u[i] = s[i] /\ u[i + 1] = s[i + 1]
      BY <1>1, <1>2, <2>1
    <3> QED
      BY <1>1, <2>1, <3>1 DEF Piece, Chain
  <2>2. CASE i = Len(s)
    <3>1. u[i] = s[Len(s)] /\ u[i + 1] = t[1]
      BY <1>1, <1>2, <2>2
    <3> QED
      BY <3>1, <2>2, Zenon DEF Piece
  <2>3. CASE i > Len(s)
    <3> DEFINE j == i - Len(s)
    <3>1. j \in 1..Len(t) /\ j < Len(t) /\ u[i] = t[j] /\ u[i + 1] = t[j + 1]
      BY <1>1, <1>2, <1>3, <2>3
    <3> HIDE DEF j
    <3> QED
      BY <3>1, Zenon DEF Piece, Chain
  <2> QED
    BY <1>1, <1>2, <2>1, <2>2, <2>3
<1>4. u # <<>> /\ u[1] = a /\ u[Len(u)] = z
  BY <1>1, <1>2 DEF Piece
<1> QED
  BY <1>2, <1>3, <1>4, Zenon DEF Piece, Chain, u

\* The pieces that the scripts are made of.
LEMMA Pieces ==
    /\ Piece(GetByKey, "load", "install")
    /\ Piece(Get, "resolve", "install")
    /\ \A m \in {"user", "reply"} : Piece(Say(m), m, "insert")
    /\ Piece(<<"ask", "replace">>, "ask", "replace")
    /\ Piece(<<"lastUser", "snapshot", "replace">>, "lastUser", "replace")
    /\ Piece(<<"hasSnap", "lastTurn", "replace">>, "hasSnap", "replace")
    /\ Piece(<<"setMode">>, "setMode", "setMode")
    /\ Piece(<<"open", "publish">>, "open", "publish")
    /\ Piece(<<"drop", "purge", "deleteRow">>, "drop", "deleteRow")
<1> USE DEF Piece, Chain, Follows, Ops
<1>1. Piece(GetByKey, "load", "install")
  BY DEF GetByKey
<1>2. Piece(<<"resolve">>, "resolve", "resolve")
  OBVIOUS
<1>3. Piece(Get, "resolve", "install")
  <2>1. Follows("resolve", "load")
    OBVIOUS
  <2> HIDE DEF Piece, Follows
  <2> QED
    BY <1>1, <1>2, <2>1, Joined, Zenon DEF Get
<1>4. \A m \in {"user", "reply"} : Piece(Say(m), m, "insert")
  BY DEF Say
<1>5. /\ Piece(<<"ask", "replace">>, "ask", "replace")
      /\ Piece(<<"setMode">>, "setMode", "setMode")
      /\ Piece(<<"open", "publish">>, "open", "publish")
  OBVIOUS
<1>6. Piece(<<"lastUser", "snapshot", "replace">>, "lastUser", "replace")
  OBVIOUS
<1>7. Piece(<<"hasSnap", "lastTurn", "replace">>, "hasSnap", "replace")
  OBVIOUS
<1>8. Piece(<<"drop", "purge", "deleteRow">>, "drop", "deleteRow")
  OBVIOUS
<1> QED
  BY <1>1, <1>3, <1>4, <1>5, <1>6, <1>7, <1>8, Zenon

\* A command of slash.go.
LEMMA Slashed ==
    ASSUME NEW s, NEW a, NEW z, Piece(s, a, z), Follows("install", a), Follows(z, "resolve")
    PROVE  Piece(Slash(s), "resolve", "insert")
<1>1. Follows("install", "user") /\ Follows("insert", "reply")
  BY DEF Follows
<1>2. Piece(Get \o s, "resolve", z)
  BY Pieces, Joined, Zenon
<1>3. Piece((Get \o s) \o Get, "resolve", "install")
  BY <1>2, Pieces, Joined, Zenon
<1>4. Piece(((Get \o s) \o Get) \o Say("user"), "resolve", "insert")
  BY <1>1, <1>3, Pieces, Joined, Zenon
<1>5. Piece((((Get \o s) \o Get) \o Say("user")) \o Say("reply"), "resolve", "insert")
  BY <1>1, <1>4, Pieces, Joined, Zenon
<1> QED
  BY <1>5, Zenon DEF Slash

\* Every script is a path, which begins as its kind says.
LEMMA Scripts ==
    ASSUME NEW k \in Kinds
    PROVE  /\ Path(Script(k)) /\ Script(k) # <<>>
           /\ Head(Script(k)) = IF k = "delete" THEN "drop" ELSE "resolve"
<1> DEFINE first == IF k = "delete" THEN "drop" ELSE "resolve"
<1>c. ASSUME NEW z \in Ends, Piece(Script(k), first, z)
      PROVE  Path(Script(k)) /\ Script(k) # <<>> /\ Head(Script(k)) = first
  <2>1. Head(Script(k)) = Script(k)[1]
    BY <1>c DEF Piece, Chain
  <2> QED
    BY <1>c, <2>1, Zenon DEF Piece, Path
<1>d. SUFFICES \E z \in Ends : Piece(Script(k), first, z)
  BY <1>c, Zenon
<1>a. /\ Follows("install", "resolve") /\ Follows("install", "user") /\ Follows("install", "ask")
      /\ Follows("insert", "ask") /\ Follows("replace", "reply") /\ Follows("replace", "resolve")
      /\ Follows("install", "lastUser") /\ Follows("install", "hasSnap")
      /\ Follows("install", "setMode") /\ Follows("setMode", "resolve")
      /\ Follows("install", "load") /\ Follows("install", "open") /\ Follows("publish", "resolve")
  BY DEF Follows
<1>b. "install" \in Ends /\ "insert" \in Ends /\ "deleteRow" \in Ends
  BY DEF Ends
<1>1. CASE k = "turn"
  <2>1. Piece(Get \o Get, "resolve", "install")
    BY <1>a, Pieces, Joined, Zenon
  <2>2. Piece((Get \o Get) \o Say("user"), "resolve", "insert")
    BY <1>a, <2>1, Pieces, Joined, Zenon
  <2>3. Piece(((Get \o Get) \o Say("user")) \o <<"ask", "replace">>, "resolve", "replace")
    BY <1>a, <2>2, Pieces, Joined, Zenon
  <2>4. Piece((((Get \o Get) \o Say("user")) \o <<"ask", "replace">>) \o Say("reply"),
              "resolve", "insert")
    BY <1>a, <2>3, Pieces, Joined, Zenon
  <2>5. Script(k) = (((Get \o Get) \o Say("user")) \o <<"ask", "replace">>) \o Say("reply")
    BY <1>1 DEF Script
  <2>6. k # "delete"
    BY <1>1
  <2> QED
    BY <1>b, <2>4, <2>5, <2>6, Zenon
<1>2. CASE k = "peek"
  <2>1. Script(k) = Get /\ k # "delete"
    BY <1>2 DEF Script
  <2> QED
    BY <1>b, <2>1, Pieces, Zenon
<1>3. CASE k = "inject"
  <2>1. Script(k) = Get \o Say("user") /\ k # "delete"
    BY <1>3 DEF Script
  <2>2. Piece(Get \o Say("user"), "resolve", "insert")
    BY <1>a, Pieces, Joined, Zenon
  <2> QED
    BY <1>b, <2>1, <2>2, Zenon
<1>4. CASE k = "retry"
  <2>1. Script(k) = Slash(Get \o <<"lastUser", "snapshot", "replace">>) /\ k # "delete"
    BY <1>4 DEF Script
  <2>2. Piece(Get \o <<"lastUser", "snapshot", "replace">>, "resolve", "replace")
    BY <1>a, Pieces, Joined, Zenon
  <2> QED
    BY <1>a, <1>b, <2>1, <2>2, Slashed, Zenon
<1>5. CASE k = "undo"
  <2>1. Script(k) = Slash(Get \o <<"hasSnap", "lastTurn", "replace">>) /\ k # "delete"
    BY <1>5 DEF Script
  <2>2. Piece(Get \o <<"hasSnap", "lastTurn", "replace">>, "resolve", "replace")
    BY <1>a, Pieces, Joined, Zenon
  <2> QED
    BY <1>a, <1>b, <2>1, <2>2, Slashed, Zenon
<1>6. CASE k = "compact"
  <2>1. Script(k) = Slash(Get \o <<"ask", "replace">>) /\ k # "delete"
    BY <1>6 DEF Script
  <2>2. Piece(Get \o <<"ask", "replace">>, "resolve", "replace")
    BY <1>a, Pieces, Joined, Zenon
  <2> QED
    BY <1>a, <1>b, <2>1, <2>2, Slashed, Zenon
<1>7. CASE k = "yolo"
  <2>1. Script(k) = Slash(Get \o <<"setMode">>) /\ k # "delete"
    BY <1>7 DEF Script
  <2>2. Piece(Get \o <<"setMode">>, "resolve", "setMode")
    BY <1>a, Pieces, Joined, Zenon
  <2> QED
    BY <1>a, <1>b, <2>1, <2>2, Slashed, Zenon
<1>8. CASE k = "new"
  <2>1. Script(k) = Slash((Get \o GetByKey) \o <<"open", "publish">>) /\ k # "delete"
    BY <1>8 DEF Script
  <2>2. Piece(Get \o GetByKey, "resolve", "install")
    BY <1>a, Pieces, Joined, Zenon
  <2>3. Piece((Get \o GetByKey) \o <<"open", "publish">>, "resolve", "publish")
    BY <1>a, <2>2, Pieces, Joined, Zenon
  <2> QED
    BY <1>a, <1>b, <2>1, <2>3, Slashed, Zenon
<1>9. CASE k = "delete"
  <2>1. Script(k) = <<"drop", "purge", "deleteRow">>
    BY <1>9 DEF Script
  <2> QED
    BY <1>9, <1>b, <2>1, Pieces, Zenon
<1> QED
  BY <1>1, <1>2, <1>3, <1>4, <1>5, <1>6, <1>7, <1>8, <1>9, Zenon DEF Kinds

\* A step goes to the next access.
LEMMA PathTail ==
    ASSUME NEW s, Path(s), s # <<>>
    PROVE  /\ Head(s) \in Ops
           /\ Path(Tail(s))
           /\ Tail(s) # <<>> => Follows(Head(s), Head(Tail(s)))
           /\ Head(s) \notin Ends => Tail(s) # <<>>
<1>1. s \in Seq(Ops) /\ Len(s) > 0 /\ Head(s) = s[1]
  BY DEF Path, Chain
<1> DEFINE t == Tail(s)
<1>2. t \in Seq(Ops) /\ Len(t) = Len(s) - 1 /\ \A i \in 1..Len(t) : t[i] = s[i + 1]
  BY <1>1
<1> HIDE DEF t
<1>3. ASSUME NEW i \in 1..Len(t), i < Len(t) PROVE Follows(t[i], t[i + 1])
  <2>1. t[i] = s[i + 1] /\ t[i + 1] = s[(i + 1) + 1]
    BY <1>2, <1>3
  <2>2. i + 1 \in 1..Len(s) /\ i + 1 < Len(s)
    BY <1>1, <1>2, <1>3
  <2> QED
    BY <2>1, <2>2 DEF Path, Chain
<1>4. t # <<>> => t[Len(t)] = s[Len(s)]
  BY <1>1, <1>2
<1>5. ASSUME t # <<>> PROVE Follows(Head(s), Head(t))
  <2>1. Head(t) = s[1 + 1] /\ 1 \in 1..Len(s) /\ 1 < Len(s)
    BY <1>1, <1>2, <1>5
  <2> QED
    BY <1>1, <2>1, Zenon DEF Path, Chain
<1>6. ASSUME t = <<>> PROVE s[1] = s[Len(s)]
  <2>1. Len(t) = 0
    BY <1>6
  <2>2. Len(s) = 1
    BY <1>1, <1>2, <2>1
  <2> QED
    BY <2>2, Zenon
<1>7. Path(t)
  BY <1>2, <1>3, <1>4, Zenon DEF Path, Chain
<1>8. Head(s) \in Ops
  BY <1>1
<1> QED
  BY <1>1, <1>5, <1>6, <1>7, <1>8, Zenon DEF Path, t

\* The accesses that a step can skip to.
LEMMA PathSkips ==
    ASSUME NEW s, Path(s), s # <<>>
    PROVE  /\ Head(s) \in {"ask", "lastTurn"} =>
                LET t == SubSeq(s, 2 + 1, Len(s))
                IN  Path(t) /\ t # <<>> /\ Head(t) \in {"reply", "resolve"}
           /\ Head(s) = "lastUser" =>
                LET t == SubSeq(s, 3 + 1, Len(s))
                IN  Path(t) /\ t # <<>> /\ Head(t) \in {"reply", "resolve"}
           /\ Head(s) = "hasSnap" => Path(<<"restore">> \o SubSeq(s, 4, Len(s)))
<1> DEFINE t == Tail(s)
           u == Tail(t)
           v == Tail(u)
<1>1. s \in Seq(Ops)
  BY Zenon DEF Path, Chain
<1>2. CASE Head(s) \in {"ask", "lastTurn"}
  <2>1. t # <<>> /\ Head(t) = "replace" /\ Path(t)
    BY <1>2, PathTail DEF Follows, Ends
  <2>2. u # <<>> /\ Head(u) \in {"reply", "resolve"} /\ Path(u)
    BY <2>1, PathTail DEF Follows, Ends
  <2>3. u = SubSeq(s, 2 + 1, Len(s))
    BY <1>1, <2>1, <2>2
  <2> QED
    BY <1>2, <2>2, <2>3
<1>3. CASE Head(s) \in {"lastUser", "hasSnap"}
  <2>1. t # <<>> /\ Head(t) \in {"snapshot", "lastTurn"} /\ Path(t)
    BY <1>3, PathTail DEF Follows, Ends
  <2>2. u # <<>> /\ Head(u) = "replace" /\ Path(u)
    BY <2>1, PathTail DEF Follows, Ends
  <2>3. v # <<>> /\ Head(v) \in {"reply", "resolve"} /\ Path(v)
    BY <2>2, PathTail DEF Follows, Ends
  <2>4. v = SubSeq(s, 4, Len(s))
    BY <1>1, <2>1, <2>2, <2>3
  <2> HIDE DEF v
  <2>5. Path(<<"restore">> \o v)
    <3>1. Piece(<<"restore">>, "restore", "restore")
      BY DEF Piece, Chain, Ops
    <3>2. PICK b \in {"reply", "resolve"}, z \in Ends : Piece(v, b, z)
      BY <2>3 DEF Piece, Path, Chain
    <3>3. Follows("restore", b)
      BY DEF Follows
    <3>4. Piece(<<"restore">> \o v, "restore", z)
      BY <3>1, <3>2, <3>3, Joined, Zenon
    <3> QED
      BY <3>4, Zenon DEF Piece, Path
  <2> QED
    BY <1>3, <2>3, <2>4, <2>5
<1> QED
  BY <1>2, <1>3
-----------------------------------------------------------------------------
(* Types, and the object that a request works on *)

Tables ==
    /\ recent \in Seq(Keys) /\ IsInjective(recent)
    /\ row \in [Keys -> Seq(Messages)]
    /\ archive \in [Keys -> SUBSET (Nat \X Messages)]
    /\ \A k \in Keys : \E n \in Nat : \A e \in archive[k] : e[1] <= n
    /\ minted \in 0..MaxKey

Maps ==
    /\ objs \in [Pods -> [Keys -> Seq(Object)]]
    /\ cur \in [Pods -> [Keys -> Nat]]
    /\ \A p \in Pods, k \in Keys : cur[p][k] <= Len(objs[p][k])

Locals ==
    /\ kind \in [Requests -> Kinds] /\ key \in [Requests -> Keys]
    /\ idx \in [Requests -> Nat] /\ num \in [Requests -> Nat]
    /\ got \in [Requests -> Seq(Messages) \cup {NoRow}]

Paths == todo \in [Requests -> Seq(Ops)] /\ \A r \in Requests : Path(todo[r])

Histories ==
    /\ scene \in Scenes /\ opened \in 0..MaxKey /\ stale \subseteq Keys
    /\ seen \in [Requests -> Seq(Messages)]

\* The accesses to a Session object, and those that follow its computation.
ObjOps == {"user", "reply", "number", "insert", "ask", "replace", "lastUser",
           "snapshot", "hasSnap", "lastTurn", "restore", "setMode"}
GotOps == {"snapshot", "replace"}
LockOps == {"number", "insert"}

Objects(r) == objs[PodOf(r)][key[r]]

Ready(r) ==
    todo[r] # <<>> =>
        /\ Head(todo[r]) \in ObjOps => idx[r] \in 1..Len(Objects(r))
        /\ Head(todo[r]) \in GotOps => got[r] \in Seq(Messages)
        /\ Head(todo[r]) \in LockOps => Obj(r).msgs # <<>>

State ==
    /\ Tables /\ Maps /\ Locals /\ Paths /\ Histories
    /\ \A r \in Requests : Ready(r)

\* A request is on a pod; the object of an access is there.
LEMMA Mine ==
    ASSUME State, NEW r \in Requests
    PROVE  /\ PodOf(r) \in Pods /\ key[r] \in Keys /\ Objects(r) \in Seq(Object)
           /\ \A op \in ObjOps : At(r, op) =>
                /\ idx[r] \in 1..Len(Objects(r))
                /\ Obj(r) \in Object /\ Obj(r).msgs \in Seq(Messages)
           /\ \A op \in GotOps : At(r, op) => got[r] \in Seq(Messages)
           /\ \A op \in LockOps : At(r, op) => Obj(r).msgs # <<>>
<1>1. PodOf(r) \in Pods
  BY SessionAssumption DEF State, Histories, PodOf, Scene
<1>2. key[r] \in Keys
  BY DEF State, Locals
<1>3. Objects(r) \in Seq(Object)
  BY <1>1, <1>2 DEF State, Maps, Objects
<1>4. ASSUME NEW op \in ObjOps, At(r, op)
      PROVE  /\ idx[r] \in 1..Len(Objects(r))
             /\ Obj(r) \in Object /\ Obj(r).msgs \in Seq(Messages)
  <2>1. idx[r] \in 1..Len(Objects(r))
    BY <1>4, Zenon DEF At, State, Ready
  <2>2. Obj(r) = Objects(r)[idx[r]]
    BY Zenon DEF Obj, Objects
  <2>3. Obj(r) \in Object
    BY <1>3, <2>1, <2>2
  <2> QED
    BY <2>1, <2>3 DEF Object
<1>5. ASSUME NEW op \in GotOps, At(r, op) PROVE got[r] \in Seq(Messages)
  BY <1>5, Zenon DEF At, State, Ready
<1>6. ASSUME NEW op \in LockOps, At(r, op) PROVE Obj(r).msgs # <<>>
  BY <1>6, Zenon DEF At, State, Ready
<1> QED
  BY <1>1, <1>2, <1>3, <1>4, <1>5, <1>6, Zenon

\* A request takes its next access.
LEMMA Advance ==
    ASSUME State, NEW r \in Requests, NEW op, At(r, op), Next1(r)
    PROVE  /\ Paths' /\ op \in Ops
           /\ \A q \in Requests \ {r} : todo'[q] = todo[q]
           /\ todo'[r] = Tail(todo[r])
           /\ todo'[r] # <<>> => Follows(op, Head(todo'[r]))
           /\ op \notin Ends => todo'[r] # <<>>
<1>1. todo \in [Requests -> Seq(Ops)] /\ Path(todo[r]) /\ todo[r] # <<>> /\ Head(todo[r]) = op
  BY Zenon DEF State, Paths, At
<1>2. todo' = [todo EXCEPT ![r] = Tail(@)]
  BY Zenon DEF Next1
<1>3. todo'[r] = Tail(todo[r]) /\ \A q \in Requests \ {r} : todo'[q] = todo[q]
  BY <1>1, <1>2, Zenon
<1>4. Path(todo'[r]) /\ op \in Ops
      /\ (todo'[r] # <<>> => Follows(op, Head(todo'[r])))
      /\ (op \notin Ends => todo'[r] # <<>>)
  BY <1>1, <1>3, PathTail, Zenon
<1>5. \A q \in Requests : Path(todo'[q])
  BY <1>3, <1>4, Zenon DEF State, Paths
<1>6. todo' \in [Requests -> Seq(Ops)]
  BY <1>1, <1>2
<1> QED
  BY <1>3, <1>4, <1>5, <1>6, Zenon DEF Paths

\* A request is sent to what is left of its script.
LEMMA Jump ==
    ASSUME State, NEW r \in Requests, NEW t, Path(t), todo' = [todo EXCEPT ![r] = t]
    PROVE  /\ Paths' /\ todo'[r] = t
           /\ \A q \in Requests \ {r} : todo'[q] = todo[q]
<1>1. todo \in [Requests -> Seq(Ops)] /\ t \in Seq(Ops)
  BY Zenon DEF State, Paths, Path, Chain
<1>2. todo'[r] = t /\ \A q \in Requests \ {r} : todo'[q] = todo[q]
  BY <1>1, Zenon
<1>3. \A q \in Requests : Path(todo'[q])
  BY <1>2, Zenon DEF State, Paths
<1>4. todo' \in [Requests -> Seq(Ops)]
  BY <1>1
<1> QED
  BY <1>2, <1>3, <1>4, Zenon DEF Paths

\* What a step leaves to the others, whose objects stay where they are, and as
\* they are while they hold their locks.
Locking(r) == todo[r] # <<>> /\ Head(todo[r]) \in LockOps

Alone(r) ==
    \A q \in Requests \ {r} :
         /\ todo'[q] = todo[q] /\ kind'[q] = kind[q] /\ key'[q] = key[q]
         /\ idx'[q] = idx[q] /\ got'[q] = got[q] /\ num'[q] = num[q]

Apart(r) ==
    /\ scene' = scene /\ Alone(r)
    /\ \A p \in Pods, k \in Keys : Len(objs[p][k]) <= Len(objs'[p][k])
    /\ \A q \in Requests \ {r} :
         Locking(q) => objs'[PodOf(q)][key[q]][idx[q]].msgs = Obj(q).msgs

\* A step that leaves the maps alone is apart from the others.
LEMMA QuietApart ==
    ASSUME State, NEW r \in Requests, UNCHANGED <<pods, scene>>, Alone(r)
    PROVE  Apart(r)
<1>1. objs' = objs
  BY Zenon DEF pods
<1>2. \A p \in Pods, k \in Keys : Len(objs[p][k]) <= Len(objs'[p][k])
  BY <1>1 DEF State, Maps
<1> QED
  BY <1>1, <1>2, Zenon DEF Apart, Obj

LEMMA OthersReady ==
    ASSUME State, NEW r \in Requests, Maps', Apart(r), Ready(r)'
    PROVE  \A q \in Requests : Ready(q)'
<1>1. ASSUME NEW q \in Requests \ {r} PROVE Ready(q)'
  <2>1. PodOf(q) \in Pods /\ key[q] \in Keys
    BY Mine, Zenon
  <2>2. Len(objs[PodOf(q)][key[q]]) \in Nat /\ Len(objs'[PodOf(q)][key[q]]) \in Nat
    BY <2>1 DEF State, Maps
  <2>3. PodOf(q)' = PodOf(q) /\ key'[q] = key[q]
    BY Zenon DEF PodOf, Apart, Alone
  <2>4. Len(Objects(q)) <= Len(Objects(q)')
    BY <2>1, <2>3, Zenon DEF Objects, Apart
  <2>5. Len(Objects(q)) \in Nat /\ Len(Objects(q)') \in Nat
    BY <2>2, <2>3, Zenon DEF Objects
  <2>6. idx[q] \in 1..Len(Objects(q)) => idx[q] \in 1..Len(Objects(q)')
    BY <2>4, <2>5
  <2>7. /\ todo'[q] = todo[q] /\ idx'[q] = idx[q] /\ got'[q] = got[q]
        /\ Ready(q)
    BY Zenon DEF State, Apart, Alone
  <2>8. Obj(q)' = objs'[PodOf(q)][key[q]][idx[q]]
    BY <2>3, <2>7, Zenon DEF Obj
  <2>9. Locking(q) => Obj(q)'.msgs = Obj(q).msgs
    BY <2>8, Zenon DEF Apart
  <2> QED
    BY <2>6, <2>7, <2>9, Zenon DEF Ready, Locking
<1> QED
  BY <1>1, Zenon

\* A key becomes the freshest.
LEMMA Touched ==
    ASSUME Tables, NEW k \in Keys, Touch(k)
    PROVE  /\ recent' \in Seq(Keys) /\ IsInjective(recent')
           /\ recent' # <<>> /\ Head(recent') = k /\ Rows' = Rows \cup {k}
<1> DEFINE t == RemoveFirst(recent, k)
<1>1. /\ t \in Seq(Keys) /\ IsInjective(t) /\ ToSet(t) = ToSet(recent) \ {k}
  BY Removed DEF Tables
<1>2. recent' = <<k>> \o t
  BY Zenon DEF Touch
<1> HIDE DEF t
<1>3. <<k>> \in Seq(Keys) /\ Len(<<k>>) = 1 /\ <<k>>[1] = k
  OBVIOUS
<1>4. /\ recent' \in Seq(Keys) /\ Len(recent') = 1 + Len(t)
      /\ \A i \in 1..(1 + Len(t)) : recent'[i] = IF i <= 1 THEN k ELSE t[i - 1]
  BY <1>1, <1>2, <1>3, ConcatProperties
<1>5. recent'[1] = k /\ \A i \in 1..Len(t) : recent'[i + 1] = t[i]
  BY <1>1, <1>4
<1>6. \A i \in 1..Len(recent') : i = 1 \/ \E j \in 1..Len(t) : i = j + 1 /\ recent'[i] = t[j]
  <2>1. ASSUME NEW i \in 1..Len(recent'), i # 1
        PROVE  \E j \in 1..Len(t) : i = j + 1 /\ recent'[i] = t[j]
    <3>1. i - 1 \in 1..Len(t) /\ i = (i - 1) + 1
      BY <1>1, <1>4, <2>1
    <3> QED
      BY <1>5, <3>1
  <2> QED
    BY <2>1
<1>7. \A j \in 1..Len(t) : t[j] # k /\ t[j] \in ToSet(recent)
  <2>1. \A j \in 1..Len(t) : t[j] \in ToSet(t)
    BY <1>1 DEF ToSet
  <2> QED
    BY <1>1, <2>1
<1>8. \A i, j \in 1..Len(t) : t[i] = t[j] => i = j
  BY <1>1 DEF IsInjective
<1>9. IsInjective(recent')
  <2>1. ASSUME NEW a \in 1..Len(recent'), NEW b \in 1..Len(recent'), recent'[a] = recent'[b]
        PROVE  a = b
    <3>1. CASE a = 1 \/ b = 1
      BY <1>5, <1>6, <1>7, <2>1, <3>1, Zenon
    <3>2. CASE a # 1 /\ b # 1
      <4>1. PICK i \in 1..Len(t) : a = i + 1 /\ recent'[a] = t[i]
        BY <1>6, <3>2, Zenon
      <4>2. PICK j \in 1..Len(t) : b = j + 1 /\ recent'[b] = t[j]
        BY <1>6, <3>2, Zenon
      <4>3. i = j
        BY <1>8, <2>1, <4>1, <4>2, Zenon
      <4> QED
        BY <4>1, <4>2, <4>3, Zenon
    <3> QED
      BY <3>1, <3>2, Zenon
  <2>2. DOMAIN recent' = 1..Len(recent')
    BY <1>4
  <2> QED
    BY <2>1, <2>2, Zenon DEF IsInjective
<1>10. ToSet(recent') = ToSet(recent) \cup {k}
  <2>1. \A x \in ToSet(recent') : x \in ToSet(recent) \cup {k}
    <3>1. ASSUME NEW i \in 1..Len(recent') PROVE recent'[i] \in ToSet(recent) \cup {k}
      BY <1>5, <1>6, <1>7, Zenon
    <3> QED
      BY <1>4, <3>1 DEF ToSet
  <2>2. \A x \in ToSet(t) : x \in ToSet(recent')
    <3>1. ASSUME NEW i \in 1..Len(t) PROVE t[i] \in ToSet(recent')
      <4>1. i + 1 \in DOMAIN recent' /\ recent'[i + 1] = t[i]
        BY <1>1, <1>4, <1>5
      <4> QED
        BY <4>1 DEF ToSet
    <3> QED
      BY <1>1, <3>1 DEF ToSet
  <2>3. k \in ToSet(recent')
    <3>1. 1 \in DOMAIN recent'
      BY <1>1, <1>4
    <3> QED
      BY <1>5, <3>1 DEF ToSet
  <2> QED
    BY <1>1, <2>1, <2>2, <2>3
<1>11. recent' # <<>> /\ Head(recent') = k
  BY <1>1, <1>4, <1>5
<1> QED
  BY <1>4, <1>9, <1>10, <1>11, Zenon DEF Rows

\* Rows of the tables: the whole array is saved.
LEMMA Saved ==
    ASSUME Tables, NEW k \in Keys, NEW ms \in Seq(Messages), SaveSession(k, ms)
    PROVE  /\ recent' \in Seq(Keys) /\ IsInjective(recent')
           /\ row' \in [Keys -> Seq(Messages)]
           /\ recent' # <<>> /\ Head(recent') = k /\ Rows' = Rows \cup {k}
<1>1. row' \in [Keys -> Seq(Messages)]
  BY DEF SaveSession, Tables
<1> QED
  BY <1>1, Touched, Zenon DEF SaveSession
-----------------------------------------------------------------------------
(* Every step keeps the types; one lemma for the steps of a kind. *)

\* An object has changed, and nothing else in the maps.
Swapped(p, k, i, o) ==
    /\ \A q \in Pods, l \in Keys : Len(objs'[q][l]) = Len(objs[q][l])
    /\ objs'[p][k][i] = o
    /\ \A q \in Pods, l \in Keys : q # p \/ l # k => objs'[q][l] = objs[q][l]
    /\ \A j \in 1..Len(objs[p][k]) : j # i => objs'[p][k][j] = objs[p][k][j]

\* An object has come into the map.
Grown(p, k, o) ==
    /\ \A q \in Pods, l \in Keys : Len(objs[q][l]) <= Len(objs'[q][l])
    /\ Len(objs'[p][k]) = Len(objs[p][k]) + 1
    /\ \A q \in Pods, l \in Keys : q # p \/ l # k => objs'[q][l] = objs[q][l]
    /\ \A i \in 1..Len(objs[p][k]) : objs'[p][k][i] = objs[p][k][i]
    /\ objs'[p][k][Len(objs[p][k]) + 1] = o
    /\ \A q \in Pods, l \in Keys : q # p \/ l # k => cur'[q][l] = cur[q][l]
    /\ cur'[p][k] = Len(objs[p][k]) + 1

\* The pods' maps after an object has changed.
LEMMA Changed ==
    ASSUME Maps, NEW p \in Pods, NEW k \in Keys, NEW i \in 1..Len(objs[p][k]),
           NEW o \in Object, objs' = [objs EXCEPT ![p][k][i] = o], cur' = cur
    PROVE  Maps' /\ Swapped(p, k, i, o)
<1>1. objs[p] \in [Keys -> Seq(Object)] /\ objs[p][k] \in Seq(Object)
  BY DEF Maps
<1> DEFINE s == [objs[p][k] EXCEPT ![i] = o]
<1>2. s \in Seq(Object) /\ Len(s) = Len(objs[p][k])
  BY <1>1
<1>a. s[i] = o /\ \A j \in 1..Len(objs[p][k]) : j # i => s[j] = objs[p][k][j]
  BY <1>1
<1>3. objs' = [objs EXCEPT ![p] = [@ EXCEPT ![k] = s]]
  OBVIOUS
<1> HIDE DEF s
<1>b. objs'[p][k] = s /\ \A q \in Pods, l \in Keys : q # p \/ l # k => objs'[q][l] = objs[q][l]
  BY <1>1, <1>3 DEF Maps
<1>4. objs' \in [Pods -> [Keys -> Seq(Object)]]
  BY <1>1, <1>2, <1>3 DEF Maps
<1>5. \A q \in Pods, l \in Keys : Len(objs'[q][l]) = Len(objs[q][l])
  BY <1>1, <1>2, <1>3 DEF Maps
<1> QED
  BY <1>4, <1>5, <1>a, <1>b DEF Maps, Swapped

\* The pods' maps after an object has been created and put into the map.
LEMMA Created ==
    ASSUME Maps, NEW p \in Pods, NEW k \in Keys, NEW o \in Object,
           objs' = [objs EXCEPT ![p][k] = Append(@, o)],
           cur' = [cur EXCEPT ![p][k] = Len(objs[p][k]) + 1]
    PROVE  Maps' /\ Grown(p, k, o)
<1>1. /\ objs[p] \in [Keys -> Seq(Object)] /\ objs[p][k] \in Seq(Object)
      /\ cur[p] \in [Keys -> Nat]
  BY DEF Maps
<1> DEFINE s == Append(objs[p][k], o)
           n == Len(objs[p][k]) + 1
<1>2. s \in Seq(Object) /\ Len(s) = n /\ n \in Nat
  BY <1>1
<1>b. s[n] = o /\ \A i \in 1..Len(objs[p][k]) : s[i] = objs[p][k][i]
  BY <1>1
<1>3. /\ objs' = [objs EXCEPT ![p] = [@ EXCEPT ![k] = s]]
      /\ cur' = [cur EXCEPT ![p] = [@ EXCEPT ![k] = n]]
  OBVIOUS
<1>a. n = Len(objs[p][k]) + 1
  OBVIOUS
<1> HIDE DEF s, n
<1>4. objs' \in [Pods -> [Keys -> Seq(Object)]] /\ cur' \in [Pods -> [Keys -> Nat]]
  BY <1>1, <1>2, <1>3 DEF Maps
<1>5. \A q \in Pods, l \in Keys :
        /\ objs'[q][l] = IF q = p /\ l = k THEN s ELSE objs[q][l]
        /\ cur'[q][l] = IF q = p /\ l = k THEN n ELSE cur[q][l]
  <2>1. /\ objs'[p] = [objs[p] EXCEPT ![k] = s] /\ cur'[p] = [cur[p] EXCEPT ![k] = n]
        /\ \A q \in Pods \ {p} : objs'[q] = objs[q] /\ cur'[q] = cur[q]
    BY <1>3 DEF Maps
  <2>2. /\ objs'[p][k] = s /\ cur'[p][k] = n
        /\ \A l \in Keys \ {k} : objs'[p][l] = objs[p][l] /\ cur'[p][l] = cur[p][l]
    BY <1>1, <2>1
  <2> SUFFICES ASSUME NEW q \in Pods, NEW l \in Keys
               PROVE  /\ objs'[q][l] = IF q = p /\ l = k THEN s ELSE objs[q][l]
                      /\ cur'[q][l] = IF q = p /\ l = k THEN n ELSE cur[q][l]
    BY Zenon
  <2>3. CASE q # p
    BY <2>1, <2>3
  <2>4. CASE q = p
    <3>1. CASE l = k
      BY <2>2, <2>4, <3>1
    <3>2. CASE l # k
      BY <2>2, <2>4, <3>2
    <3> QED
      BY <3>1, <3>2
  <2> QED
    BY <2>3, <2>4
<1>6. \A q \in Pods, l \in Keys : Len(objs[q][l]) \in Nat
  BY DEF Maps
<1>7. \A q \in Pods, l \in Keys : Len(objs[q][l]) <= Len(objs'[q][l])
  BY <1>2, <1>5, <1>6, <1>a
<1>8. \A q \in Pods, l \in Keys : cur'[q][l] <= Len(objs'[q][l])
  BY <1>2, <1>5 DEF Maps
<1> QED
  BY <1>2, <1>4, <1>5, <1>7, <1>8, <1>a, <1>b, Zenon DEF Maps, Grown

\* Types: a step that neither changes the tables nor the maps.
LEMMA QuietState ==
    ASSUME State, NEW r \in Requests,
           UNCHANGED <<db, pods>>, Locals', Paths', Histories', Apart(r),
           todo'[r] # <<>> =>
             /\ Head(todo'[r]) \in ObjOps => idx[r] \in 1..Len(Objects(r)) /\ key'[r] = key[r]
                                             /\ idx'[r] = idx[r]
             /\ Head(todo'[r]) \in GotOps => got'[r] \in Seq(Messages)
             /\ Head(todo'[r]) \in LockOps => Obj(r).msgs # <<>>
    PROVE  State'
<1>1. Tables' /\ Maps'
  BY Zenon DEF State, Tables, Maps, db, pods
<1>2. objs' = objs /\ PodOf(r)' = PodOf(r)
  BY Zenon DEF pods, Apart, PodOf
<1>3. key'[r] = key[r] => Objects(r)' = Objects(r)
  BY <1>2, Zenon DEF Objects
<1>4. key'[r] = key[r] /\ idx'[r] = idx[r] => Obj(r)' = Obj(r)
  BY <1>2, Zenon DEF Obj
<1>5. LockOps \subseteq ObjOps
  BY DEF LockOps, ObjOps
<1>6. Ready(r)'
  BY <1>3, <1>4, <1>5, Zenon DEF Ready
<1> QED
  BY <1>1, <1>6, OthersReady, Zenon DEF State

\* Where a step leads.
LEMMA Nexts ==
    ASSUME NEW b
    PROVE  /\ Follows("resolve", b) => b = "load"
           /\ Follows("load", b) => b = "install"
           /\ Follows("install", b) =>
                b \in {"resolve", "load", "user", "ask", "lastUser", "hasSnap", "setMode", "open"}
           /\ Follows("user", b) => b = "number"
           /\ Follows("reply", b) => b = "number"
           /\ Follows("number", b) => b = "insert"
           /\ Follows("insert", b) => b \in {"ask", "reply"}
           /\ Follows("ask", b) => b = "replace"
           /\ Follows("lastUser", b) => b = "snapshot"
           /\ Follows("snapshot", b) => b = "replace"
           /\ Follows("hasSnap", b) => b = "lastTurn"
           /\ Follows("lastTurn", b) => b = "replace"
           /\ Follows("replace", b) => b \in {"reply", "resolve"}
           /\ Follows("restore", b) => b \in {"reply", "resolve"}
           /\ Follows("setMode", b) => b = "resolve"
           /\ Follows("publish", b) => b = "resolve"
           /\ Follows("open", b) => b = "publish"
           /\ Follows("drop", b) => b = "purge"
           /\ Follows("purge", b) => b = "deleteRow"
           /\ ~Follows("deleteRow", b)
BY DEF Follows

\* Types: Manager.Get up to the read of the row.
LEMMA ResolveState ==
    ASSUME State, NEW r \in Requests, ResolveOrMintKey(r) PROVE State'
<1>1. /\ Paths' /\ \A q \in Requests \ {r} : todo'[q] = todo[q]
      /\ todo'[r] # <<>> => Head(todo'[r]) = "load"
  BY Advance, Nexts, Zenon DEF ResolveOrMintKey
<1>2. Head(recent) \in Keys \/ recent = <<>>
  BY DEF State, Tables
<1>3. minted < MaxKey => minted + 1 \in Keys /\ minted + 1 \in 0..MaxKey
  BY SessionAssumption DEF State, Tables, Keys
<1>4. Tables' /\ Locals'
  BY <1>2, <1>3 DEF ResolveOrMintKey, State, Tables, Locals
<1>5. Maps' /\ Histories'
  BY Zenon DEF ResolveOrMintKey, State, Maps, Histories, pods, hist
<1>6. Apart(r)
  <2>1. Alone(r) /\ UNCHANGED <<pods, scene>>
    BY <1>1 DEF ResolveOrMintKey, Alone, State, Locals, hist
  <2> QED
    BY <2>1, QuietApart, Zenon
<1>7. Ready(r)'
  BY <1>1 DEF Ready, ObjOps, GotOps, LockOps
<1> QED
  BY <1>1, <1>4, <1>5, <1>6, <1>7, OthersReady, Zenon DEF State

LEMMA LoadState ==
    ASSUME State, NEW r \in Requests, Load(r) PROVE State'
<1>1. /\ Paths' /\ \A q \in Requests \ {r} : todo'[q] = todo[q]
      /\ todo'[r] # <<>> => Head(todo'[r]) = "install"
  BY Advance, Nexts, Zenon DEF Load
<1>2. row[key[r]] \in Seq(Messages)
  BY Mine DEF State, Tables
<1>3. Locals'
  BY <1>2 DEF Load, State, Locals
<1>4. Histories'
  BY <1>2 DEF Load, State, Histories
<1>5. Apart(r)
  <2>1. Alone(r) /\ UNCHANGED <<pods, scene>>
    BY <1>1 DEF Load, Alone, State, Locals
  <2> QED
    BY <2>1, QuietApart, Zenon
<1>6. UNCHANGED <<db, pods>>
  BY Zenon DEF Load
<1> QED
  BY <1>1, <1>3, <1>4, <1>5, <1>6, QuietState DEF ObjOps, GotOps, LockOps

\* Types: getByKey, an object of the map or a new one.
LEMMA InstallState ==
    ASSUME State, NEW r \in Requests, Install(r) PROVE State'
<1> DEFINE p == PodOf(r)
           k == key[r]
           c == cur[p][k]
           read == IF got[r] = NoRow THEN <<>> ELSE got[r]
           new == [Blank EXCEPT !.msgs = read]
           n == Len(objs[p][k]) + 1
<1>1. p \in Pods /\ k \in Keys /\ objs[p][k] \in Seq(Object) /\ PodOf(r)' = p
  BY Mine DEF Objects, Install, PodOf, pods
<1>2. read \in Seq(Messages) /\ new \in Object
  <2>1. read \in Seq(Messages)
    BY DEF State, Locals
  <2> HIDE DEF read
  <2> QED
    BY <2>1 DEF Object, Blank
<1>3. /\ Paths' /\ \A q \in Requests \ {r} : todo'[q] = todo[q]
      /\ todo'[r] # <<>> => Head(todo'[r]) \notin GotOps \cup LockOps
  <2>1. todo'[r] # <<>> => Follows("install", Head(todo'[r]))
    BY Advance, Zenon DEF Install
  <2>2. Paths' /\ \A q \in Requests \ {r} : todo'[q] = todo[q]
    BY Advance, Zenon DEF Install
  <2>3. todo'[r] # <<>> => Head(todo'[r]) \notin GotOps \cup LockOps
    BY <2>1, Nexts DEF GotOps, LockOps
  <2> QED
    BY <2>2, <2>3, Zenon
<1>4. Tables' /\ key' = key /\ got' = got /\ kind' = kind /\ num' = num /\ scene' = scene
  BY Zenon DEF Install, State, Tables, db
<1> DEFINE keeps == \A q \in Requests \ {r} :
                      Locking(q) => objs'[PodOf(q)][key[q]][idx[q]].msgs = Obj(q).msgs
<1>a. ASSUME NEW q \in Requests \ {r}, Locking(q)
      PROVE  /\ PodOf(q) \in Pods /\ key[q] \in Keys
             /\ idx[q] \in 1..Len(objs[PodOf(q)][key[q]])
  <2>1. \E a \in ObjOps : At(q, a)
    BY <1>a DEF Locking, LockOps, ObjOps, At
  <2> QED
    BY <2>1, Mine, Zenon DEF Objects
<1>5. /\ Maps' /\ \A q \in Pods, l \in Keys : Len(objs[q][l]) <= Len(objs'[q][l])
      /\ \E i \in 1..Len(objs'[p][k]) : idx' = [idx EXCEPT ![r] = i]
      /\ keeps
  <2>1. CASE /\ cur[p][k] = 0 /\ objs' = [objs EXCEPT ![p][k] = Append(@, new)]
             /\ cur' = [cur EXCEPT ![p][k] = n] /\ idx' = [idx EXCEPT ![r] = n]
    <3> HIDE DEF new
    <3>1. /\ Maps' /\ \A q \in Pods, l \in Keys : Len(objs[q][l]) <= Len(objs'[q][l])
          /\ Len(objs'[p][k]) = n
          /\ \A q \in Pods, l \in Keys : q # p \/ l # k => objs'[q][l] = objs[q][l]
          /\ \A i \in 1..Len(objs[p][k]) : objs'[p][k][i] = objs[p][k][i]
      <4>1. Maps' /\ Grown(p, k, new)
        BY <1>1, <1>2, <2>1, Created, Zenon DEF State
      <4> QED
        BY <4>1, Zenon DEF Grown
    <3>2. n \in 1..n
      BY <1>1
    <3>3. keeps
      <4>1. ASSUME NEW q \in Requests \ {r}, Locking(q)
            PROVE  objs'[PodOf(q)][key[q]][idx[q]].msgs = Obj(q).msgs
        <5>1. CASE PodOf(q) # p \/ key[q] # k
          BY <1>a, <3>1, <4>1, <5>1, Zenon DEF Obj
        <5>2. CASE PodOf(q) = p /\ key[q] = k
          BY <1>a, <3>1, <4>1, <5>2, Zenon DEF Obj
        <5> QED
          BY <5>1, <5>2, Zenon
      <4> QED
        BY <4>1, Zenon
    <3> HIDE DEF keeps
    <3> QED
      BY <2>1, <3>1, <3>2, <3>3, Zenon
  <2>2. CASE /\ c # 0 /\ ObjFree(p, k, c) /\ cur' = cur /\ idx' = [idx EXCEPT ![r] = c]
             /\ objs' = IF got[r] = NoRow THEN objs
                        ELSE [objs EXCEPT ![p][k][c].msgs = got[r]]
    <3>1. c \in 1..Len(objs[p][k])
      BY <1>1, <2>2 DEF State, Maps
    <3>2. CASE got[r] = NoRow
      <4>1. objs' = objs /\ cur' = cur
        BY <2>2, <3>2, Zenon
      <4>2. Maps'
        BY <4>1, Zenon DEF State, Maps
      <4>3. \A q \in Pods, l \in Keys : Len(objs[q][l]) <= Len(objs'[q][l])
        BY <4>1 DEF State, Maps
      <4>4. keeps
        BY <4>1, Zenon DEF Obj
      <4> QED
        BY <2>2, <3>1, <4>1, <4>2, <4>3, <4>4, Zenon
    <3>3. CASE got[r] # NoRow
      <4> DEFINE o == [objs[p][k][c] EXCEPT !.msgs = got[r]]
      <4>1. objs[p][k][c] \in Object /\ got[r] \in Seq(Messages)
        BY <1>1, <3>1, <3>3 DEF State, Locals
      <4>2. o \in Object
        BY <4>1 DEF Object
      <4>3. objs' = [objs EXCEPT ![p][k][c] = o]
        BY <2>2, <3>3
      <4>a. Maps /\ cur' = cur
        BY <2>2, Zenon DEF State
      <4>b. ObjFree(p, k, c)
        BY <2>2, Zenon
      <4> HIDE DEF o, c, p, k, read, new, n
      <4>4. /\ Maps' /\ \A q \in Pods, l \in Keys : Len(objs'[q][l]) = Len(objs[q][l])
            /\ \A q \in Pods, l \in Keys : q # p \/ l # k => objs'[q][l] = objs[q][l]
            /\ \A j \in 1..Len(objs[p][k]) : j # c => objs'[p][k][j] = objs[p][k][j]
        <5>1. Maps' /\ Swapped(p, k, c, o)
          BY <1>1, <3>1, <4>2, <4>3, <4>a, Changed, Zenon
        <5> QED
          BY <5>1, Zenon DEF Swapped
      <4>5. \A q \in Pods, l \in Keys : Len(objs[q][l]) <= Len(objs'[q][l])
        BY <4>4 DEF State, Maps
      <4>6. keeps
        <5>1. ASSUME NEW q \in Requests \ {r}, Locking(q)
              PROVE  objs'[PodOf(q)][key[q]][idx[q]].msgs = Obj(q).msgs
          <6>1. CASE PodOf(q) # p \/ key[q] # k
            BY <1>a, <4>4, <5>1, <6>1, Zenon DEF Obj
          <6>2. CASE PodOf(q) = p /\ key[q] = k
            <7>1. idx[q] # c
              BY <4>b, <5>1, <6>2 DEF Locking, LockOps, At, ObjFree
            <7> QED
              BY <1>a, <4>4, <5>1, <6>2, <7>1, Zenon DEF Obj
          <6> QED
            BY <6>1, <6>2, Zenon
        <5> QED
          BY <5>1, Zenon
      <4> HIDE DEF keeps
      <4> QED
        BY <1>1, <2>2, <3>1, <4>4, <4>5, <4>6, Zenon
    <3> QED
      BY <3>2, <3>3, Zenon
  <2> QED
    BY <2>1, <2>2, Zenon DEF Install
<1> HIDE DEF c, read, new, n
<1>6. PICK i \in 1..Len(objs'[p][k]) : idx' = [idx EXCEPT ![r] = i]
  BY <1>5, Zenon
<1>7. idx'[r] = i /\ Objects(r)' = objs'[p][k] /\ i \in Nat
  BY <1>1, <1>4, <1>6 DEF Objects, State, Locals
<1>8. Locals'
  BY <1>4, <1>6, <1>7 DEF State, Locals
<1>9. Histories'
  BY <1>1, <1>4 DEF Install, MarkStale, State, Histories
<1>10. Apart(r)
  <2>1. Alone(r)
    BY <1>3, <1>4, <1>6 DEF Alone, State, Locals
  <2> QED
    BY <1>4, <1>5, <2>1, Zenon DEF Apart
<1>11. Ready(r)'
  BY <1>3, <1>6, <1>7, Zenon DEF Ready
<1> HIDE DEF keeps
<1> QED
  BY <1>3, <1>4, <1>5, <1>8, <1>9, <1>10, <1>11, OthersReady, Zenon DEF State

\* Types: a step that changes the object at hand.
LEMMA ObjectState ==
    ASSUME State, NEW r \in Requests, NEW o \in Object, NEW op \in ObjOps, At(r, op),
           objs' = [objs EXCEPT ![PodOf(r)][key[r]][idx[r]] = o], cur' = cur,
           UNCHANGED <<kind, key, idx, got, num, scene>>, Tables', Histories', Paths',
           \A q \in Requests \ {r} : todo'[q] = todo[q],
           MyObjFree(r) \/ o.msgs = Obj(r).msgs,
           todo'[r] # <<>> => /\ Head(todo'[r]) \in GotOps => got[r] \in Seq(Messages)
                              /\ Head(todo'[r]) \in LockOps => o.msgs # <<>>
    PROVE  State'
<1>1. /\ PodOf(r) \in Pods /\ key[r] \in Keys
      /\ idx[r] \in 1..Len(objs[PodOf(r)][key[r]])
  BY Mine, Zenon DEF Objects
<1> DEFINE p == PodOf(r)
           k == key[r]
           i == idx[r]
<1>2. /\ Maps' /\ \A q \in Pods, l \in Keys : Len(objs'[q][l]) = Len(objs[q][l])
      /\ objs'[p][k][i] = o
      /\ \A q \in Pods, l \in Keys : q # p \/ l # k => objs'[q][l] = objs[q][l]
      /\ \A j \in 1..Len(objs[p][k]) : j # i => objs'[p][k][j] = objs[p][k][j]
  <2>1. Maps' /\ Swapped(p, k, i, o)
    BY <1>1, Changed, Zenon DEF State
  <2> QED
    BY <2>1, Zenon DEF Swapped
<1>3. \A q \in Pods, l \in Keys : Len(objs[q][l]) <= Len(objs'[q][l])
  BY <1>2 DEF State, Maps
<1>4. ASSUME NEW q \in Requests \ {r}, Locking(q)
      PROVE  objs'[PodOf(q)][key[q]][idx[q]].msgs = Obj(q).msgs
  <2>1. /\ PodOf(q) \in Pods /\ key[q] \in Keys
        /\ idx[q] \in 1..Len(objs[PodOf(q)][key[q]])
    <3>1. \E a \in ObjOps : At(q, a)
      BY <1>4 DEF Locking, LockOps, ObjOps, At
    <3> QED
      BY <3>1, Mine, Zenon DEF Objects
  <2>2. CASE PodOf(q) = p /\ key[q] = k /\ idx[q] = i
    <3>1. ~MyObjFree(r)
      BY <1>4, <2>2 DEF Locking, LockOps, At, MyObjFree, ObjFree
    <3> QED
      BY <1>2, <2>2, <3>1, Zenon DEF Obj
  <2>3. CASE PodOf(q) # p \/ key[q] # k
    BY <1>2, <2>1, <2>3, Zenon DEF Obj
  <2>4. CASE PodOf(q) = p /\ key[q] = k /\ idx[q] # i
    BY <1>2, <2>1, <2>4, Zenon DEF Obj
  <2> QED
    BY <2>2, <2>3, <2>4, Zenon
<1>5. Apart(r)
  BY <1>3, <1>4, Zenon DEF Apart, Alone
<1>6. PodOf(r)' = p
  BY Zenon DEF PodOf
<1>7. Len(Objects(r)') = Len(Objects(r)) /\ Obj(r)' = o
  BY <1>1, <1>2, <1>6 DEF Objects, Obj
<1>8. Ready(r)'
  BY <1>1, <1>7, Zenon DEF Ready, Objects
<1>9. Locals'
  BY Zenon DEF State, Locals
<1> QED
  BY <1>2, <1>5, <1>8, <1>9, OthersReady, Zenon DEF State

\* Types: the messages of the object at hand are replaced, and saved.
LEMMA WriteState ==
    ASSUME State, NEW r \in Requests, NEW ms \in Seq(Messages), NEW op \in ObjOps, At(r, op),
           SetMsgs(r, ms), SaveSession(key[r], ms), cur' = cur,
           UNCHANGED <<archive, minted, kind, key, idx, got, num, scene>>, Histories', Next1(r),
           op \in {"user", "reply", "replace"}, MyObjFree(r), op # "replace" => ms # <<>>
    PROVE  State'
<1> DEFINE o == [Obj(r) EXCEPT !.msgs = ms]
<1>1. /\ PodOf(r) \in Pods /\ key[r] \in Keys /\ Objects(r) \in Seq(Object)
      /\ idx[r] \in 1..Len(Objects(r)) /\ Obj(r) \in Object
  BY Mine, Zenon
<1>2. o \in Object
  BY <1>1 DEF Object
<1>3. objs' = [objs EXCEPT ![PodOf(r)][key[r]][idx[r]] = o]
  BY DEF SetMsgs, Obj
<1>a. o.msgs = ms
  BY <1>1 DEF Object
<1> HIDE DEF o
<1>4. /\ recent' \in Seq(Keys) /\ IsInjective(recent') /\ row' \in [Keys -> Seq(Messages)]
  BY <1>1, Saved, Zenon DEF State
<1>5. Tables'
  BY <1>4, Zenon DEF State, Tables
<1>6. Paths' /\ \A q \in Requests \ {r} : todo'[q] = todo[q]
  BY Advance, Zenon
<1>7. todo'[r] # <<>> => /\ Head(todo'[r]) \notin GotOps
                         /\ Head(todo'[r]) \in LockOps => o.msgs # <<>>
  <2>1. todo'[r] # <<>> => Follows(op, Head(todo'[r]))
    BY Advance, Zenon
  <2> QED
    BY <1>a, <2>1, Nexts DEF GotOps, LockOps
<1> QED
  BY <1>2, <1>3, <1>5, <1>6, <1>7, ObjectState, Zenon

LEMMA AppendState ==
    ASSUME State, NEW r \in Requests, AppendMsg(r) PROVE State'
<1>1. PICK part \in {"user", "reply"} :
        /\ At(r, part) /\ SetMsgs(r, Append(Obj(r).msgs, <<r, part>>))
        /\ SaveSession(key[r], Append(Obj(r).msgs, <<r, part>>)) /\ Next1(r) /\ MyObjFree(r)
        /\ UNCHANGED <<archive, minted, cur, kind, key, idx, got, num, hist>>
  BY Zenon DEF AppendMsg
<1> DEFINE ms == Append(Obj(r).msgs, <<r, part>>)
<1>2. part \in ObjOps
  BY DEF ObjOps
<1>3. ms \in Seq(Messages) /\ ms # <<>>
  <2>1. Obj(r).msgs \in Seq(Messages)
    BY <1>1, <1>2, Mine, Zenon
  <2>2. <<r, part>> \in Messages
    BY DEF Messages
  <2> QED
    BY <2>1, <2>2
<1>4. Histories' /\ scene' = scene /\ cur' = cur
  BY <1>1, Zenon DEF State, Histories, hist
<1> HIDE DEF ms
<1> QED
  BY <1>1, <1>2, <1>3, <1>4, WriteState DEF ms

LEMMA ReplaceState ==
    ASSUME State, NEW r \in Requests, ReplaceMessages(r) PROVE State'
<1>1. "replace" \in ObjOps /\ "replace" \in GotOps
  BY DEF ObjOps, GotOps
<1>2. At(r, "replace")
  BY Zenon DEF ReplaceMessages
<1>3. got[r] \in Seq(Messages) /\ key[r] \in Keys
  BY <1>1, <1>2, Mine, Zenon
<1>4. Histories'
  BY <1>3 DEF ReplaceMessages, MarkStale, State, Histories
<1> QED
  BY <1>1, <1>2, <1>3, <1>4, WriteState DEF ReplaceMessages

\* Types: the archive's two statements.
LEMMA NumberState ==
    ASSUME State, NEW r \in Requests, Number(r) PROVE State'
<1> DEFINE S == {e[1] : e \in archive[key[r]]} \cup {-1}
<1>1. key[r] \in Keys
  BY Mine, Zenon
<1>2. PICK n \in Nat : \A e \in archive[key[r]] : e[1] <= n
  BY <1>1, Zenon DEF State, Tables
<1>3. \A x \in S : x \in Int /\ -1 <= x /\ x <= n
  BY <1>1, <1>2 DEF State, Tables
<1>4. S # {}
  OBVIOUS
<1>5. num' = [num EXCEPT ![r] = Max(S) + 1]
  BY Zenon DEF Number
<1> HIDE DEF S
<1>6. Max(S) \in S
  BY <1>3, <1>4, MaxOf
<1>7. Max(S) + 1 \in Nat
  BY <1>3, <1>6
<1>8. Locals'
  BY <1>5, <1>7 DEF Number, State, Locals
<1>9. Histories' /\ UNCHANGED <<db, pods>> /\ UNCHANGED <<key, idx, got, kind, scene>>
  BY Zenon DEF Number, State, Histories, hist
<1>10. /\ Paths' /\ \A q \in Requests \ {r} : todo'[q] = todo[q]
       /\ todo'[r] # <<>> => Head(todo'[r]) = "insert"
  BY Advance, Nexts, Zenon DEF Number
<1>11. Apart(r)
  <2>1. Alone(r)
    BY <1>5, <1>9, <1>10 DEF Alone, State, Locals
  <2> QED
    BY <1>9, <2>1, QuietApart, Zenon
<1>12. idx[r] \in 1..Len(Objects(r)) /\ Obj(r).msgs # <<>>
  <2>1. "number" \in ObjOps /\ "number" \in LockOps
    BY DEF ObjOps, LockOps
  <2> QED
    BY <2>1, Mine, Zenon DEF Number
<1> QED
  BY <1>8, <1>9, <1>10, <1>11, <1>12, QuietState DEF GotOps

\* Types: a step on the archive alone.
LEMMA ArchiveState ==
    ASSUME State, NEW r \in Requests, NEW a \in SUBSET (Nat \X Messages), NEW n \in Nat,
           \A e \in a : e[1] <= n, NEW op, At(r, op), Next1(r), op \in {"insert", "purge"},
           archive' = [archive EXCEPT ![key[r]] = a],
           UNCHANGED <<recent, row, minted, pods, kind, key, idx, got, num, hist>>
    PROVE  State'
<1>1. key[r] \in Keys
  BY Mine, Zenon
<1>2. archive' \in [Keys -> SUBSET (Nat \X Messages)]
  BY DEF State, Tables
<1>3. \A k \in Keys : archive'[k] = IF k = key[r] THEN a ELSE archive[k]
  BY DEF State, Tables
<1>4. \A k \in Keys : \E m \in Nat : \A e \in archive'[k] : e[1] <= m
  BY <1>3, Zenon DEF State, Tables
<1>5. Tables'
  BY <1>2, <1>4, Zenon DEF State, Tables
<1>6. Paths' /\ \A q \in Requests \ {r} : todo'[q] = todo[q]
  BY Advance, Zenon
<1>7. todo'[r] # <<>> => \/ /\ op \in ObjOps
                            /\ Head(todo'[r]) \notin GotOps /\ Head(todo'[r]) \notin LockOps
                         \/ Head(todo'[r]) = "deleteRow"
  <2>1. todo'[r] # <<>> => Follows(op, Head(todo'[r]))
    BY Advance, Zenon
  <2> QED
    BY <2>1, Nexts DEF GotOps, ObjOps, LockOps
<1>8. Maps' /\ Locals' /\ Histories'
  BY Zenon DEF State, Maps, Locals, Histories, pods, hist
<1>9. Apart(r)
  <2>1. Alone(r) /\ UNCHANGED <<pods, scene>>
    BY <1>6, Zenon DEF Alone, hist
  <2> QED
    BY <2>1, QuietApart, Zenon
<1>10. Objects(r)' = Objects(r)
  BY Zenon DEF Objects, PodOf, pods, hist
<1>11. Ready(r)'
  <2>1. op \in ObjOps => idx[r] \in 1..Len(Objects(r))
    BY Mine, Zenon
  <2>2. "deleteRow" \notin ObjOps /\ "deleteRow" \notin GotOps /\ "deleteRow" \notin LockOps
    BY DEF ObjOps, GotOps, LockOps
  <2> QED
    BY <1>7, <1>10, <2>1, <2>2, Zenon DEF Ready
<1> QED
  BY <1>5, <1>6, <1>8, <1>9, <1>11, OthersReady, Zenon DEF State

LEMMA InsertState ==
    ASSUME State, NEW r \in Requests, Insert(r) PROVE State'
<1>1. key[r] \in Keys /\ At(r, "insert")
  BY Mine, Zenon DEF Insert
<1>2. Obj(r).msgs \in Seq(Messages)
  BY <1>1, Mine DEF ObjOps
<1>3. PICK n \in Nat : \A e \in archive[key[r]] : e[1] <= n
  BY <1>1, Zenon DEF State, Tables
<1>4. num[r] \in Nat /\ archive[key[r]] \in SUBSET (Nat \X Messages)
  BY <1>1 DEF State, Locals, Tables
<1>5. CASE archive' = archive
  <2>1. archive' = [archive EXCEPT ![key[r]] = archive[key[r]]]
    BY <1>1, <1>5 DEF State, Tables
  <2> QED
    BY <1>1, <1>3, <1>4, <2>1, ArchiveState DEF Insert
<1>6. CASE archive' = [archive EXCEPT ![key[r]] = @ \cup {<<num[r], Last(Obj(r).msgs)>>}]
  <2> DEFINE m == Last(Obj(r).msgs)
             a == archive[key[r]] \cup {<<num[r], m>>}
  <2>1. m \in Messages
    <3>1. Obj(r).msgs # <<>>
      BY <1>1, Mine DEF LockOps
    <3> QED
      BY <1>2, <3>1 DEF Last
  <2>2. a \in SUBSET (Nat \X Messages)
    BY <1>4, <2>1
  <2>3. PICK l \in Nat : n <= l /\ num[r] <= l
    BY <1>4
  <2>4. \A e \in a : e[1] <= l
    BY <1>3, <1>4, <2>3
  <2>5. archive' = [archive EXCEPT ![key[r]] = a]
    BY <1>6
  <2> HIDE DEF a
  <2> QED
    BY <1>1, <2>2, <2>4, <2>5, ArchiveState DEF Insert
<1> QED
  BY <1>5, <1>6, Zenon DEF Insert

LEMMA PurgeState ==
    ASSUME State, NEW r \in Requests, Purge(r) PROVE State'
<1>1. {} \in SUBSET (Nat \X Messages) /\ \A e \in {} : e[1] <= 0
  OBVIOUS
<1> QED
  BY <1>1, ArchiveState DEF Purge

\* Types: a step that computes an array from a copy of the messages.
LEMMA ComputeState ==
    ASSUME State, NEW r \in Requests, NEW op \in {"ask", "lastUser", "lastTurn"}, At(r, op),
           \/ /\ Next1(r)
              /\ \E ms \in Seq(Messages) : got' = [got EXCEPT ![r] = ms]
           \/ /\ Skip(r, IF op = "lastUser" THEN 3 ELSE 2)
              /\ got' = got \/ \E ms \in Seq(Messages) : got' = [got EXCEPT ![r] = ms],
           Reads(r), UNCHANGED <<db, pods, kind, key, idx, num, scene, opened, stale>>
    PROVE  State'
<1> DEFINE n == IF op = "lastUser" THEN 3 ELSE 2
           t == SubSeq(todo[r], n + 1, Len(todo[r]))
<1>1. /\ Objects(r) \in Seq(Object) /\ idx[r] \in 1..Len(Objects(r))
      /\ Obj(r).msgs \in Seq(Messages)
  <2>1. op \in ObjOps
    BY DEF ObjOps
  <2> QED
    BY <2>1, Mine, Zenon
<1>2. Path(todo[r]) /\ todo[r] # <<>> /\ Head(todo[r]) = op
  BY Zenon DEF State, Paths, At
<1>3. /\ Paths' /\ \A q \in Requests \ {r} : todo'[q] = todo[q]
      /\ todo'[r] # <<>> => /\ Head(todo'[r]) \notin LockOps
                            /\ Head(todo'[r]) \in GotOps => got'[r] \in Seq(Messages)
  <2>1. ASSUME Next1(r), NEW ms \in Seq(Messages), got' = [got EXCEPT ![r] = ms]
        PROVE  <1>3!:
    <3>1. Paths' /\ \A q \in Requests \ {r} : todo'[q] = todo[q]
      BY <2>1, Advance, Zenon
    <3>2. todo'[r] # <<>> => Follows(op, Head(todo'[r]))
      BY <2>1, Advance, Zenon
    <3>3. todo'[r] # <<>> => Head(todo'[r]) \notin LockOps
      BY <3>2, Nexts DEF LockOps
    <3>4. got'[r] = ms
      BY <2>1 DEF State, Locals
    <3> QED
      BY <3>1, <3>3, <3>4, Zenon
  <2>2. ASSUME Skip(r, n) PROVE <1>3!:
    <3>1. Path(t) /\ Head(t) \in {"reply", "resolve"}
      BY <1>2, PathSkips
    <3>2. todo' = [todo EXCEPT ![r] = t]
      BY <2>2, Zenon DEF Skip
    <3> HIDE DEF t
    <3>3. Paths' /\ todo'[r] = t /\ \A q \in Requests \ {r} : todo'[q] = todo[q]
      BY <3>1, <3>2, Jump, Zenon
    <3> QED
      BY <3>1, <3>3 DEF LockOps, GotOps
  <2> QED
    BY <2>1, <2>2, Zenon
<1>4. got' \in [Requests -> Seq(Messages) \cup {NoRow}] /\ \A q \in Requests \ {r} : got'[q] = got[q]
  BY DEF State, Locals
<1>5. Locals' /\ Alone(r)
  BY <1>3, <1>4, Zenon DEF State, Locals, Alone
<1>6. Histories'
  BY <1>1 DEF Reads, State, Histories
<1>7. Apart(r)
  BY <1>5, QuietApart, Zenon
<1>8. UNCHANGED <<db, pods>> /\ key' = key /\ idx' = idx
  BY Zenon
<1> QED
  BY <1>1, <1>3, <1>5, <1>6, <1>7, <1>8, QuietState, Zenon

\* The last user message, if there is one.
LEMMA UserIs ==
    ASSUME NEW ms \in Seq(Messages), NEW S \in {UserAt(ms), UserAt(ms) \cup {0}}, S # {}
    PROVE  Max(S) \in S /\ Max(S) \in 0..Len(ms)
<1>1. \A x \in S : x \in Int /\ -1 <= x /\ x <= Len(ms)
  BY DEF UserAt
<1>2. Max(S) \in S
  BY <1>1, MaxOf
<1>3. \A x \in S : x \in 0..Len(ms)
  BY DEF UserAt
<1> QED
  BY <1>2, <1>3

\* Types: CompactMessages and its summary.
LEMMA AskState ==
    ASSUME State, NEW r \in Requests, Ask(r) PROVE State'
<1> DEFINE ms == Obj(r).msgs
<1>1. ms \in Seq(Messages)
  BY Mine DEF Ask, ObjOps
<1>2. Len(ms) > PruneTurnAge => Compressed(ms) \in Seq(Messages)
  <2>1. Summary \in Messages
    BY DEF Messages
  <2>2. ASSUME Len(ms) > PruneTurnAge
        PROVE  SubSeq(ms, Len(ms) - PruneTurnAge + 1, Len(ms)) \in Seq(Messages)
    BY <1>1, <2>2, SessionAssumption
  <2> QED
    BY <2>1, <2>2, ConcatProperties DEF Compressed
<1> HIDE DEF ms
<1>3. At(r, "ask") /\ Reads(r) /\ UNCHANGED <<db, pods, kind, key, idx, num, scene, opened, stale>>
  BY Zenon DEF Ask
<1>4. \/ /\ Next1(r)
         /\ \E m \in Seq(Messages) : got' = [got EXCEPT ![r] = m]
      \/ /\ Skip(r, 2)
         /\ \E m \in Seq(Messages) : got' = [got EXCEPT ![r] = m]
  BY <1>1, <1>2, Zenon DEF Ask, ms
<1>5. "ask" # "lastUser"
  OBVIOUS
<1> QED
  BY <1>3, <1>4, <1>5, ComputeState

\* Types: slashRetry's cut.
LEMMA LastUserState ==
    ASSUME State, NEW r \in Requests, LastUser(r) PROVE State'
<1> DEFINE ms == Obj(r).msgs
           m == SubSeq(ms, 1, Max(UserAt(ms)) - 1)
<1>1. ms \in Seq(Messages)
  BY Mine DEF LastUser, ObjOps
<1>2. UserAt(ms) # {} => m \in Seq(Messages)
  <2> DEFINE n == Max(UserAt(ms))
  <2>1. ASSUME UserAt(ms) # {} PROVE n \in 0..Len(ms)
    BY <1>1, <2>1, UserIs
  <2> HIDE DEF n, ms
  <2>2. ASSUME UserAt(ms) # {} PROVE SubSeq(ms, 1, n - 1) \in Seq(Messages)
    BY <1>1, <2>1, <2>2
  <2> QED
    BY <2>2 DEF n
<1> HIDE DEF m
<1>3. /\ At(r, "lastUser") /\ Reads(r)
      /\ UNCHANGED <<db, pods, kind, key, idx, num, scene, opened, stale>>
  BY Zenon DEF LastUser
<1>4. \/ Next1(r) /\ \E s \in Seq(Messages) : got' = [got EXCEPT ![r] = s]
      \/ Skip(r, 3) /\ got' = got
  BY <1>2, Zenon DEF LastUser, m
<1> QED
  BY <1>3, <1>4, ComputeState

\* Types: slashUndo's cut.
LEMMA LastTurnState ==
    ASSUME State, NEW r \in Requests, LastTurn(r) PROVE State'
<1> DEFINE ms == Obj(r).msgs
           end == Max(UserAt(ms) \cup {0})
           m == SubSeq(ms, 1, Max({end - 1, 0}))
<1>1. ms \in Seq(Messages)
  BY Mine DEF LastTurn, ObjOps
<1>2. m \in Seq(Messages)
  <2>1. end \in 0..Len(ms)
    BY <1>1, UserIs
  <2> DEFINE n == Max({end - 1, 0})
  <2> HIDE DEF end, ms
  <2>2. n \in {end - 1, 0}
    <3>1. \A x \in {end - 1, 0} : x \in Int /\ -1 <= x /\ x <= Len(ms)
      BY <1>1, <2>1
    <3>2. Len(ms) \in Nat
      BY <1>1
    <3> QED
      BY <3>1, <3>2, MaxOf
  <2>3. n <= Len(ms) /\ n \in Int
    BY <1>1, <2>1, <2>2
  <2> HIDE DEF n
  <2>4. SubSeq(ms, 1, n) \in Seq(Messages)
    BY <1>1, <2>3
  <2> QED
    BY <2>4 DEF n
<1> HIDE DEF m
<1>3. /\ At(r, "lastTurn") /\ Reads(r)
      /\ UNCHANGED <<db, pods, kind, key, idx, num, scene, opened, stale>>
  BY Zenon DEF LastTurn
<1>4. \/ Next1(r) /\ \E s \in Seq(Messages) : got' = [got EXCEPT ![r] = s]
      \/ Skip(r, 2) /\ got' = got
  BY <1>2, Zenon DEF LastTurn, m
<1>5. "lastTurn" # "lastUser"
  OBVIOUS
<1> QED
  BY <1>3, <1>4, <1>5, ComputeState

\* Types: the check for a snapshot.
LEMMA HasSnapshotState ==
    ASSUME State, NEW r \in Requests, HasSnapshot(r) PROVE State'
<1>1. /\ At(r, "hasSnap") /\ idx[r] \in 1..Len(Objects(r))
      /\ UNCHANGED <<db, pods, kind, key, idx, got, num, hist>>
  BY Mine DEF HasSnapshot, ObjOps
<1>2. Path(todo[r]) /\ todo[r] # <<>> /\ Head(todo[r]) = "hasSnap"
  BY <1>1, Zenon DEF State, Paths, At
<1>3. /\ Paths' /\ \A q \in Requests \ {r} : todo'[q] = todo[q]
      /\ todo'[r] # <<>> => Head(todo'[r]) \notin GotOps \cup LockOps
  <2>1. CASE Next1(r)
    <3>1. /\ Paths' /\ \A q \in Requests \ {r} : todo'[q] = todo[q]
          /\ todo'[r] # <<>> => Head(todo'[r]) = "lastTurn"
      BY <1>1, <2>1, Advance, Nexts, Zenon
    <3> QED
      BY <3>1 DEF GotOps, LockOps
  <2>2. CASE todo' = [todo EXCEPT ![r] = <<"restore">> \o SubSeq(@, 4, Len(@))]
    <3> DEFINE u == SubSeq(todo[r], 4, Len(todo[r]))
               t == <<"restore">> \o u
    <3>1. Path(t)
      BY <1>2, PathSkips
    <3>2. u \in Seq(Ops)
      BY <1>2 DEF Path, Chain
    <3>3. todo' = [todo EXCEPT ![r] = t]
      BY <2>2, Zenon
    <3> HIDE DEF u
    <3>4. Head(t) = "restore"
      BY <3>2
    <3> HIDE DEF t
    <3>5. Paths' /\ todo'[r] = t /\ \A q \in Requests \ {r} : todo'[q] = todo[q]
      BY <3>1, <3>3, Jump, Zenon
    <3> QED
      BY <3>4, <3>5 DEF GotOps, LockOps
  <2> QED
    BY <2>1, <2>2, Zenon DEF HasSnapshot
<1>4. Locals' /\ Histories' /\ Alone(r) /\ scene' = scene
  BY <1>1, <1>3, Zenon DEF State, Locals, Histories, Alone, hist
<1>5. Apart(r)
  BY <1>1, <1>4, QuietApart, Zenon
<1> QED
  BY <1>1, <1>3, <1>4, <1>5, QuietState, Zenon

\* Types: the steps that change an object and save nothing.
LEMMA MarkState ==
    ASSUME State, NEW r \in Requests, Snapshot(r) \/ Undo(r) \/ SetAuthMode(r) PROVE State'
<1>1. PICK op \in {"snapshot", "restore", "setMode"} :
        /\ At(r, op) /\ MyObjFree(r) /\ Next1(r)
        /\ op = "snapshot" => Snapshot(r)
        /\ op = "restore" => Undo(r)
        /\ op = "setMode" => SetAuthMode(r)
  BY DEF Snapshot, Undo, SetAuthMode
<1>2. UNCHANGED <<db, cur, kind, key, idx, got, num, hist>>
  BY <1>1, Zenon DEF Snapshot, Undo, SetAuthMode
<1>3. op \in ObjOps
  BY DEF ObjOps
<1>4. /\ PodOf(r) \in Pods /\ key[r] \in Keys /\ Objects(r) \in Seq(Object)
      /\ idx[r] \in 1..Len(Objects(r)) /\ Obj(r) \in Object
  BY <1>1, <1>3, Mine, Zenon
<1> DEFINE o == Obj(r)
           p == IF op = "snapshot" THEN [o EXCEPT !.snap = o.msgs]
                ELSE IF op = "setMode" THEN [o EXCEPT !.yolo = TRUE]
                ELSE IF o.snap = NoSnap THEN o
                ELSE [o EXCEPT !.msgs = o.snap, !.snap = NoSnap]
<1>5. p \in Object
  <2>1. o.msgs \in Seq(Messages) /\ o.snap \in Seq(Messages) \cup {NoSnap}
    BY <1>4 DEF Object
  <2> HIDE DEF o
  <2>2. o \in Object
    BY <1>4 DEF o
  <2> QED
    BY <2>1, <2>2 DEF Object
<1>6. objs' = [objs EXCEPT ![PodOf(r)][key[r]][idx[r]] = p]
  <2>1. CASE op = "snapshot"
    BY <1>1, <2>1 DEF Snapshot, Obj
  <2>2. CASE op = "setMode"
    BY <1>1, <2>2 DEF SetAuthMode, Obj
  <2>3. CASE op = "restore" /\ o.snap = NoSnap
    <3>1. objs' = objs
      BY <1>1, <2>3, Zenon DEF Undo
    <3>2. p = objs[PodOf(r)][key[r]][idx[r]]
      BY <2>3 DEF Obj
    <3> HIDE DEF p
    <3>3. objs = [objs EXCEPT ![PodOf(r)][key[r]][idx[r]] = p]
      BY <1>4, <3>2 DEF State, Maps, Objects
    <3> QED
      BY <3>1, <3>3, Zenon
  <2>4. CASE op = "restore" /\ o.snap # NoSnap
    BY <1>1, <2>4 DEF Undo, Obj
  <2> QED
    BY <2>1, <2>2, <2>3, <2>4
<1> HIDE DEF p
<1>7. Paths' /\ \A q \in Requests \ {r} : todo'[q] = todo[q]
  BY <1>1, Advance, Zenon
<1>8. todo'[r] # <<>> => /\ Head(todo'[r]) \in GotOps => op \in GotOps
                         /\ Head(todo'[r]) \notin LockOps
  <2>1. todo'[r] # <<>> => Follows(op, Head(todo'[r]))
    BY <1>1, Advance, Zenon
  <2> QED
    BY <2>1, Nexts DEF GotOps, LockOps
<1>9. op \in GotOps => got[r] \in Seq(Messages)
  BY <1>1, Mine, Zenon
<1>10. Tables' /\ Histories' /\ UNCHANGED <<kind, key, idx, got, num, scene>> /\ cur' = cur
  BY <1>2, Zenon DEF State, Tables, Histories, db, hist
<1>11. MyObjFree(r)
  BY <1>1, Zenon
<1>12. At(r, op)
  BY <1>1, Zenon
<1> QED
  BY <1>3, <1>5, <1>6, <1>7, <1>8, <1>9, <1>10, <1>11, <1>12, ObjectState, Zenon

\* Types: OpenNewSession's row.
LEMMA OpenState ==
    ASSUME State, NEW r \in Requests, OpenRow(r) PROVE State'
<1>1. minted + 1 \in Keys /\ minted + 1 \in 0..MaxKey /\ <<>> \in Seq(Messages)
  BY SessionAssumption DEF OpenRow, State, Tables, Keys
<1>2. SaveSession(minted + 1, <<>>)
  BY Zenon DEF OpenRow
<1>3. recent' \in Seq(Keys) /\ IsInjective(recent') /\ row' \in [Keys -> Seq(Messages)]
  BY <1>1, <1>2, Saved, Zenon DEF State
<1>4. Tables'
  BY <1>1, <1>3, Zenon DEF OpenRow, State, Tables
<1>5. /\ Paths' /\ \A q \in Requests \ {r} : todo'[q] = todo[q]
      /\ todo'[r] # <<>> => Head(todo'[r]) = "publish"
  BY Advance, Nexts, Zenon DEF OpenRow
<1>6. Locals'
  BY <1>1 DEF OpenRow, State, Locals
<1>7. Maps' /\ Histories' /\ UNCHANGED <<pods, scene>>
  BY Zenon DEF OpenRow, State, Maps, Histories, pods, hist
<1>8. Alone(r)
  BY <1>5 DEF OpenRow, Alone, State, Locals
<1>9. Apart(r)
  BY <1>7, <1>8, QuietApart, Zenon
<1>10. Ready(r)'
  BY <1>5 DEF Ready, ObjOps, GotOps, LockOps
<1> QED
  BY <1>4, <1>5, <1>6, <1>7, <1>9, <1>10, OthersReady, Zenon DEF State

\* Types: OpenNewSession's entry of the map.
LEMMA PublishState ==
    ASSUME State, NEW r \in Requests, Publish(r) PROVE State'
<1> DEFINE p == PodOf(r)
           k == key[r]
           n == Len(objs[p][k]) + 1
<1>1. p \in Pods /\ k \in Keys /\ objs[p][k] \in Seq(Object)
  BY Mine DEF Objects
<1>2. Blank \in Object
  BY DEF Blank, Object
<1>3. /\ objs' = [objs EXCEPT ![p][k] = Append(@, Blank)] /\ cur' = [cur EXCEPT ![p][k] = n]
      /\ idx' = [idx EXCEPT ![r] = n] /\ opened' = k
      /\ UNCHANGED <<db, kind, key, got, num, scene, seen, stale>>
  BY Zenon DEF Publish
<1>4. Maps' /\ Grown(p, k, Blank)
  BY <1>1, <1>2, <1>3, Created, Zenon DEF State
<1>5. /\ Paths' /\ \A q \in Requests \ {r} : todo'[q] = todo[q]
      /\ todo'[r] # <<>> => Head(todo'[r]) = "resolve"
  BY Advance, Nexts, Zenon DEF Publish
<1>6. n \in Nat /\ k \in 0..MaxKey
  BY <1>1, SessionAssumption DEF Keys
<1>7. Tables' /\ Histories' /\ Locals'
  BY <1>3, <1>6 DEF State, Tables, Histories, Locals, db
<1>8. Alone(r) /\ scene' = scene
  BY <1>3, <1>5 DEF Alone, State, Locals
<1>9. ASSUME NEW q \in Requests \ {r}, Locking(q)
      PROVE  objs'[PodOf(q)][key[q]][idx[q]].msgs = Obj(q).msgs
  <2>1. \E a \in ObjOps : At(q, a)
    BY <1>9 DEF Locking, LockOps, ObjOps, At
  <2>2. PodOf(q) \in Pods /\ key[q] \in Keys /\ idx[q] \in 1..Len(objs[PodOf(q)][key[q]])
    BY <2>1, Mine, Zenon DEF Objects
  <2>3. CASE PodOf(q) # p \/ key[q] # k
    BY <1>4, <2>2, <2>3, Zenon DEF Obj, Grown
  <2>4. CASE PodOf(q) = p /\ key[q] = k
    BY <1>4, <2>2, <2>4, Zenon DEF Obj, Grown
  <2> QED
    BY <2>3, <2>4, Zenon
<1>10. Apart(r)
  BY <1>4, <1>8, <1>9, Zenon DEF Apart, Grown
<1>11. Ready(r)'
  BY <1>5 DEF Ready, ObjOps, GotOps, LockOps
<1> QED
  BY <1>4, <1>5, <1>7, <1>10, <1>11, OthersReady, Zenon DEF State

\* Types: DeleteSessionByID, the entry of the map and the row.
LEMMA DropState ==
    ASSUME State, NEW r \in Requests, Drop(r) PROVE State'
<1>1. PodOf(r) \in Pods /\ key[r] \in Keys
  BY Mine, Zenon
<1>2. /\ Paths' /\ \A q \in Requests \ {r} : todo'[q] = todo[q]
      /\ todo'[r] # <<>> => Head(todo'[r]) = "purge"
  BY Advance, Nexts, Zenon DEF Drop
<1>3. cur' = [cur EXCEPT ![PodOf(r)][key[r]] = 0] /\ objs' = objs
  BY Zenon DEF Drop
<1>4. Maps'
  <2>1. cur' = [cur EXCEPT ![PodOf(r)] = [@ EXCEPT ![key[r]] = 0]]
    BY <1>3
  <2>2. cur' \in [Pods -> [Keys -> Nat]]
    BY <1>1, <2>1 DEF State, Maps
  <2>3. \A p \in Pods, k \in Keys : cur'[p][k] = 0 \/ cur'[p][k] = cur[p][k]
    BY <1>1, <2>1 DEF State, Maps
  <2> QED
    BY <1>3, <2>2, <2>3 DEF State, Maps
<1>5. Tables' /\ Histories' /\ Locals' /\ Alone(r) /\ scene' = scene
  BY <1>2, Zenon DEF Drop, State, Tables, Histories, Locals, Alone, db, hist
<1>6. Apart(r)
  <2>1. \A p \in Pods, k \in Keys : Len(objs[p][k]) <= Len(objs'[p][k])
    BY <1>3 DEF State, Maps
  <2> QED
    BY <1>3, <1>5, <2>1, Zenon DEF Apart, Obj
<1>7. Ready(r)'
  BY <1>2 DEF Ready, ObjOps, GotOps, LockOps
<1> QED
  BY <1>2, <1>4, <1>5, <1>6, <1>7, OthersReady, Zenon DEF State

LEMMA DeleteState ==
    ASSUME State, NEW r \in Requests, DeleteRow(r) PROVE State'
<1>1. key[r] \in Keys
  BY Mine, Zenon
<1>2. recent' \in Seq(Keys) /\ IsInjective(recent')
  BY Removed DEF DeleteRow, State, Tables
<1>3. row' \in [Keys -> Seq(Messages)]
  <2>1. <<>> \in Seq(Messages) /\ row \in [Keys -> Seq(Messages)]
    BY Zenon, EmptySeq DEF State, Tables
  <2>2. row' = [row EXCEPT ![key[r]] = <<>>]
    BY Zenon DEF DeleteRow
  <2> QED
    BY <1>1, <2>1, <2>2
<1>4. Tables'
  BY <1>2, <1>3, Zenon DEF DeleteRow, State, Tables
<1>5. Paths' /\ (\A q \in Requests \ {r} : todo'[q] = todo[q]) /\ todo'[r] = <<>>
  BY Advance, Nexts, Zenon DEF DeleteRow
<1>6. opened' \in 0..MaxKey
  BY SessionAssumption DEF DeleteRow, State, Histories
<1>7. Maps' /\ Locals' /\ Histories' /\ Alone(r) /\ UNCHANGED <<pods, scene>>
  BY <1>5, <1>6, Zenon DEF DeleteRow, State, Maps, Locals, Histories, Alone, pods
<1>8. Apart(r)
  BY <1>7, QuietApart, Zenon
<1>9. Ready(r)'
  BY <1>5, Zenon DEF Ready
<1> QED
  BY <1>4, <1>5, <1>7, <1>8, <1>9, OthersReady, Zenon DEF State

\* Types: a request begins.
LEMMA StartState ==
    ASSUME State, NEW r \in Requests, Start(r) PROVE State'
<1>1. PICK k \in Kinds :
        /\ kind' = [kind EXCEPT ![r] = k] /\ todo' = [todo EXCEPT ![r] = Script(k)]
        /\ key' = key \/ \E s \in Rows : key' = [key EXCEPT ![r] = s]
  <2>1. scene.kinds \subseteq Kinds /\ scene.sideKinds \subseteq Kinds
    BY SessionAssumption DEF State, Histories, Scene
  <2> QED
    BY <2>1, Zenon DEF Start
<1>2. Rows \subseteq Keys
  BY DEF State, Tables, Rows, ToSet
<1>3. Path(Script(k)) /\ Head(Script(k)) \in {"drop", "resolve"}
  BY Scripts
<1>4. Paths' /\ todo'[r] = Script(k) /\ \A q \in Requests \ {r} : todo'[q] = todo[q]
  BY <1>1, <1>3, Jump, Zenon
<1>5. UNCHANGED <<db, pods, idx, got, num, hist>>
  BY Zenon DEF Start
<1>6. Locals' /\ Alone(r)
  BY <1>1, <1>2, <1>4, <1>5 DEF State, Locals, Alone
<1>7. Tables' /\ Maps' /\ Histories' /\ UNCHANGED <<pods, scene>>
  BY <1>5, Zenon DEF State, Tables, Maps, Histories, db, pods, hist
<1>8. Apart(r)
  BY <1>6, <1>7, QuietApart, Zenon
<1>9. Ready(r)'
  BY <1>3, <1>4 DEF Ready, ObjOps, GotOps, LockOps
<1> QED
  BY <1>4, <1>6, <1>7, <1>8, <1>9, OthersReady, Zenon DEF State

LEMMA NextState == State /\ [Next]_vars => State'
<1>1. ASSUME State, NEW r \in Requests, Step(r) PROVE State'
  BY <1>1, ResolveState, LoadState, InstallState, AppendState, NumberState, InsertState,
     ReplaceState, AskState, LastUserState, MarkState, HasSnapshotState, LastTurnState,
     OpenState, PublishState, DropState, PurgeState, DeleteState, Zenon DEF Step
<1>2. ASSUME State, UNCHANGED vars PROVE State'
  BY <1>2, Zenon DEF State, Tables, Maps, Locals, Paths, Histories, Ready, Objects, Obj,
     PodOf, vars, db, pods, hist
<1> QED
  BY <1>1, <1>2, StartState, Zenon DEF Next

LEMMA InitState == Init => State
<1> SUFFICES ASSUME Init PROVE State
  OBVIOUS
<1> DEFINE past == <<<<Past, "user">>, <<Past, "reply">>>>
<1>1. /\ past \in Seq(Messages) /\ <<>> \in Seq(Messages) /\ Len(past) = 2
      /\ DOMAIN past = 1..2 /\ 1 \in Keys
  BY SessionAssumption DEF Messages, Keys
<1>2. scene \in Scenes /\ scene.fresh \in BOOLEAN
  BY SessionAssumption DEF Init, Scene
<1>3. row \in [Keys -> Seq(Messages)] /\ \A k \in Keys : row[k] \in {past, <<>>}
  <2> HIDE DEF past
  <2>1. row = [k \in Keys |-> IF k = 1 /\ ~scene.fresh THEN past ELSE <<>>]
    BY Zenon DEF Init, past
  <2> QED
    BY <1>1, <2>1
<1>4. ASSUME NEW k \in Keys
      PROVE  /\ archive[k] \in SUBSET (Nat \X Messages)
             /\ \A e \in archive[k] : e[1] <= 1
  <2>1. archive[k] = {<<i - 1, row[k][i]>> : i \in DOMAIN row[k]}
    BY DEF Init
  <2>2. row[k] \in Seq(Messages) /\ DOMAIN row[k] \subseteq 1..2
    BY <1>1, <1>3
  <2>3. \A i \in DOMAIN row[k] : <<i - 1, row[k][i]>> \in Nat \X Messages /\ i - 1 <= 1
    BY <2>2
  <2> HIDE DEF past
  <2> QED
    BY <2>1, <2>3
<1>5. archive \in [Keys -> SUBSET (Nat \X Messages)]
  <2>1. archive = [k \in Keys |-> archive[k]]
    BY Zenon DEF Init
  <2> QED
    BY <1>4, <2>1, Zenon
<1>6. recent \in Seq(Keys) /\ IsInjective(recent)
  BY <1>1 DEF Init, IsInjective
<1>7. minted \in 0..MaxKey
  BY SessionAssumption DEF Init
<1>8. \A k \in Keys : \E n \in Nat : \A e \in archive[k] : e[1] <= n
  BY <1>4
<1>9. Tables
  BY <1>3, <1>5, <1>6, <1>7, <1>8, Zenon DEF Tables
<1>10. Maps
  BY DEF Init, Maps
<1>11. Locals
  BY <1>1 DEF Init, Locals, Kinds
<1>12. Path(<<"start">>)
  BY DEF Path, Chain, Ends, Ops
<1>13. Paths
  <2>1. <<"start">> \in Seq(Ops) /\ todo = [r \in Requests |-> <<"start">>]
    BY <1>12, Zenon DEF Path, Chain, Init
  <2> QED
    BY <1>12, <2>1 DEF Paths
<1>14. Histories
  BY <1>1, <1>2, SessionAssumption DEF Init, Histories
<1>15. \A r \in Requests : Ready(r)
  BY DEF Init, Ready, ObjOps, GotOps, LockOps
<1> QED
  BY <1>9, <1>10, <1>11, <1>13, <1>14, <1>15, Zenon DEF State

\* The tables, the pods' maps and the requests keep their types: a request finds
\* the object it works on, an array that it saves has been computed, and what
\* an append leaves for the archive is there when the insert runs.
THEOREM TypeCorrect == Spec => []TypeOK
<1>1. State => TypeOK
  <2> SUFFICES ASSUME State PROVE TypeOK
    OBVIOUS
  <2>1. \A k \in Keys : \A e \in archive[k] : e[1] \in Nat /\ e[2] \in Messages
    BY DEF State, Tables
  <2>2. ASSUME NEW p \in Pods, NEW k \in Keys
        PROVE  /\ cur[p][k] \in 0..Len(objs[p][k])
               /\ \A i \in DOMAIN objs[p][k] : objs[p][k][i] \in Object
    <3>1. objs[p][k] \in Seq(Object) /\ cur[p][k] \in Nat /\ cur[p][k] <= Len(objs[p][k])
      BY DEF State, Maps
    <3> QED
      BY <3>1
  <2>3. \A r \in Requests : idx[r] \in Nat /\ got[r] \in Seq(Messages) \cup {NoRow}
    BY DEF State, Locals
  <2>4. /\ recent \in Seq(Keys) /\ IsInjective(recent) /\ row \in [Keys -> Seq(Messages)]
        /\ minted \in 0..MaxKey /\ scene \in Scenes /\ opened \in 0..MaxKey
        /\ stale \subseteq Keys /\ kind \in [Requests -> Kinds]
        /\ todo \in [Requests -> Seq(Ops)] /\ key \in [Requests -> Keys]
        /\ num \in [Requests -> Nat] /\ seen \in [Requests -> Seq(Messages)]
    BY Zenon DEF State, Tables, Locals, Paths, Histories
  <2> QED
    BY <2>1, <2>2, <2>3, <2>4, Zenon DEF TypeOK
<1> QED
  BY <1>1, InitState, NextState, PTL DEF Spec
-----------------------------------------------------------------------------
(* What a step does to the scripts *)

\* Where a step can lead, by what is skipped too.
Leads(a, b) ==
    \/ Follows(a, b)
    \/ a \in {"ask", "lastUser", "lastTurn"} /\ b \in {"reply", "resolve"}
    \/ a = "hasSnap" /\ b = "restore"

\* What a script of a kind may say.
Vocabulary(k) ==
    IF k = "yolo" THEN {"resolve", "load", "install", "setMode", "user", "number", "insert",
                        "reply"}
    ELSE Ops \ ((IF k = "new" THEN {} ELSE {"open", "publish"})
                \cup (IF k = "retry" THEN {} ELSE {"lastUser", "snapshot"})
                \cup (IF k = "undo" THEN {} ELSE {"hasSnap", "lastTurn", "restore"}))

LEMMA ScriptSays ==
    ASSUME NEW k \in Kinds
    PROVE  Script(k) \in Seq(Vocabulary(k))
<1> DEFINE V == Vocabulary(k)
<1>1. /\ {"resolve", "load", "install", "user", "number", "insert", "reply"} \subseteq V
      /\ k = "yolo" => "setMode" \in V
      /\ k # "yolo" => {"ask", "replace", "drop", "purge", "deleteRow"} \subseteq V
      /\ k = "retry" => {"lastUser", "snapshot"} \subseteq V
      /\ k = "undo" => {"hasSnap", "lastTurn"} \subseteq V
      /\ k = "new" => {"open", "publish"} \subseteq V
  BY DEF Vocabulary, Ops
<1> HIDE DEF V
<1>2. GetByKey \in Seq(V) /\ <<"resolve">> \in Seq(V)
  BY <1>1 DEF GetByKey
<1>3. Get \in Seq(V)
  BY <1>2, ConcatProperties, Zenon DEF Get
<1>4. Say("user") \in Seq(V) /\ Say("reply") \in Seq(V)
  BY <1>1 DEF Say
<1>5. ASSUME NEW s \in Seq(V) PROVE Slash(s) \in Seq(V)
  <2>1. Get \o s \in Seq(V)
    BY <1>3, ConcatProperties, Zenon
  <2>2. (Get \o s) \o Get \in Seq(V)
    BY <1>3, <2>1, ConcatProperties, Zenon
  <2>3. ((Get \o s) \o Get) \o Say("user") \in Seq(V)
    BY <1>4, <2>2, ConcatProperties, Zenon
  <2>4. (((Get \o s) \o Get) \o Say("user")) \o Say("reply") \in Seq(V)
    BY <1>4, <2>3, ConcatProperties, Zenon
  <2> QED
    BY <2>4, Zenon DEF Slash
<1>6. CASE k = "turn"
  <2>1. Get \o Get \in Seq(V) /\ <<"ask", "replace">> \in Seq(V)
    BY <1>1, <1>3, <1>6, ConcatProperties
  <2>2. (Get \o Get) \o Say("user") \in Seq(V)
    BY <1>4, <2>1, ConcatProperties, Zenon
  <2>3. ((Get \o Get) \o Say("user")) \o <<"ask", "replace">> \in Seq(V)
    BY <2>1, <2>2, ConcatProperties, Zenon
  <2>4. (((Get \o Get) \o Say("user")) \o <<"ask", "replace">>) \o Say("reply") \in Seq(V)
    BY <1>4, <2>3, ConcatProperties, Zenon
  <2>5. Script(k) = (((Get \o Get) \o Say("user")) \o <<"ask", "replace">>) \o Say("reply")
    BY <1>6 DEF Script
  <2> QED
    BY <2>4, <2>5, Zenon DEF V
<1>7. CASE k = "peek"
  <2>1. Script(k) = Get
    BY <1>7 DEF Script
  <2> QED
    BY <1>3, <2>1, Zenon DEF V
<1>8. CASE k = "inject"
  <2>1. Script(k) = Get \o Say("user")
    BY <1>8 DEF Script
  <2> QED
    BY <1>3, <1>4, <2>1, ConcatProperties, Zenon DEF V
<1>9. CASE k \in {"retry", "undo", "compact", "yolo", "new"}
  <2>1. \E s \in Seq(V) : Script(k) = Slash(s)
    <3>1. CASE k = "retry"
      <4>1. <<"lastUser", "snapshot", "replace">> \in Seq(V)
        BY <1>1, <3>1
      <4>2. Script(k) = Slash(Get \o <<"lastUser", "snapshot", "replace">>)
        BY <3>1 DEF Script
      <4> QED
        BY <1>3, <4>1, <4>2, ConcatProperties, Zenon
    <3>2. CASE k = "undo"
      <4>1. <<"hasSnap", "lastTurn", "replace">> \in Seq(V)
        BY <1>1, <3>2
      <4>2. Script(k) = Slash(Get \o <<"hasSnap", "lastTurn", "replace">>)
        BY <3>2 DEF Script
      <4> QED
        BY <1>3, <4>1, <4>2, ConcatProperties, Zenon
    <3>3. CASE k = "compact"
      <4>1. <<"ask", "replace">> \in Seq(V)
        BY <1>1, <3>3
      <4>2. Script(k) = Slash(Get \o <<"ask", "replace">>)
        BY <3>3 DEF Script
      <4> QED
        BY <1>3, <4>1, <4>2, ConcatProperties, Zenon
    <3>4. CASE k = "yolo"
      <4>1. <<"setMode">> \in Seq(V)
        BY <1>1, <3>4
      <4>2. Script(k) = Slash(Get \o <<"setMode">>)
        BY <3>4 DEF Script
      <4> QED
        BY <1>3, <4>1, <4>2, ConcatProperties, Zenon
    <3>5. CASE k = "new"
      <4>1. <<"open", "publish">> \in Seq(V)
        BY <1>1, <3>5
      <4>2. Get \o GetByKey \in Seq(V)
        BY <1>2, <1>3, ConcatProperties, Zenon
      <4>3. (Get \o GetByKey) \o <<"open", "publish">> \in Seq(V)
        BY <4>1, <4>2, ConcatProperties, Zenon
      <4>4. Script(k) = Slash((Get \o GetByKey) \o <<"open", "publish">>)
        BY <3>5 DEF Script
      <4> QED
        BY <4>3, <4>4, Zenon
    <3> QED
      BY <1>9, <3>1, <3>2, <3>3, <3>4, <3>5
  <2> QED
    BY <1>5, <2>1, Zenon DEF V
<1>10. CASE k = "delete"
  <2>1. Script(k) = <<"drop", "purge", "deleteRow">>
    BY <1>10 DEF Script
  <2>2. <<"drop", "purge", "deleteRow">> \in Seq(V)
    BY <1>1, <1>10
  <2> QED
    BY <2>1, <2>2, Zenon DEF V
<1> QED
  BY <1>6, <1>7, <1>8, <1>9, <1>10 DEF Kinds

\* A step of a request moves it on in its script and leaves the others' alone.
Moves(r) ==
    /\ InFlight(r) /\ Alone(r) /\ scene' = scene /\ kind' = kind
    /\ todo'[r] # <<>> => Leads(Head(todo[r]), Head(todo'[r]))
    /\ Head(todo[r]) \notin Ends => todo'[r] # <<>>
    /\ \A V \in SUBSET Ops :
         /\ "hasSnap" \in V => "restore" \in V
         /\ todo[r] \in Seq(V)
         => todo'[r] \in Seq(V)

LEMMA MovesOn ==
    ASSUME State, NEW r \in Requests, NEW op, At(r, op), Next1(r), op # "start",
           UNCHANGED <<scene, kind>>, \A q \in Requests \ {r} :
             key'[q] = key[q] /\ idx'[q] = idx[q] /\ got'[q] = got[q] /\ num'[q] = num[q]
    PROVE  Moves(r)
<1>1. /\ todo'[r] = Tail(todo[r]) /\ \A q \in Requests \ {r} : todo'[q] = todo[q]
      /\ todo'[r] # <<>> => Follows(op, Head(todo'[r]))
      /\ op \notin Ends => todo'[r] # <<>>
  BY Advance, Zenon
<1>2. todo[r] # <<>> /\ Head(todo[r]) = op
  BY Zenon DEF At
<1>3. InFlight(r)
  BY <1>2, Zenon DEF InFlight, Done, At
<1>4. ASSUME NEW V \in SUBSET Ops, todo[r] \in Seq(V) PROVE todo'[r] \in Seq(V)
  BY <1>1, <1>2, <1>4
<1> QED
  BY <1>1, <1>2, <1>3, <1>4, Zenon DEF Moves, Alone, Leads

LEMMA SkipsOn ==
    ASSUME State, NEW r \in Requests, NEW op \in {"ask", "lastTurn", "lastUser", "hasSnap"}, At(r, op),
           UNCHANGED <<scene, kind>>, \A q \in Requests \ {r} :
             key'[q] = key[q] /\ idx'[q] = idx[q] /\ got'[q] = got[q] /\ num'[q] = num[q],
           IF op = "hasSnap"
             THEN todo' = [todo EXCEPT ![r] = <<"restore">> \o SubSeq(@, 4, Len(@))]
             ELSE Skip(r, IF op = "lastUser" THEN 3 ELSE 2)
    PROVE  Moves(r)
<1>1. Path(todo[r]) /\ todo[r] # <<>> /\ Head(todo[r]) = op /\ todo[r] \in Seq(Ops)
  BY Zenon DEF State, Paths, At, Path, Chain
<1>2. InFlight(r)
  BY <1>1 DEF InFlight, Done, At
<1>3. CASE op # "hasSnap"
  <2> DEFINE n == IF op = "lastUser" THEN 3 ELSE 2
             t == SubSeq(todo[r], n + 1, Len(todo[r]))
  <2>1. Path(t) /\ t # <<>> /\ Head(t) \in {"reply", "resolve"}
    BY <1>1, <1>3, PathSkips
  <2>2. todo' = [todo EXCEPT ![r] = t]
    BY <1>3, Zenon DEF Skip
  <2>3. \A V \in SUBSET Ops : todo[r] \in Seq(V) => t \in Seq(V)
    BY <1>1
  <2>4. Leads(op, Head(t))
    BY <1>3, <2>1 DEF Leads
  <2> HIDE DEF t
  <2>5. todo'[r] = t /\ \A q \in Requests \ {r} : todo'[q] = todo[q]
    BY <2>1, <2>2, Jump, Zenon
  <2> QED
    BY <1>1, <1>2, <2>1, <2>3, <2>4, <2>5, Zenon DEF Moves, Alone
<1>4. CASE op = "hasSnap"
  <2> DEFINE u == SubSeq(todo[r], 4, Len(todo[r]))
             t == <<"restore">> \o u
  <2>1. Path(t)
    BY <1>1, <1>4, PathSkips
  <2>2. todo' = [todo EXCEPT ![r] = t]
    BY <1>4, Zenon
  <2>3. ASSUME NEW V \in SUBSET Ops, "restore" \in V, todo[r] \in Seq(V) PROVE t \in Seq(V)
    <3>1. u \in Seq(V) /\ <<"restore">> \in Seq(V)
      BY <2>3
    <3> QED
      BY <3>1, ConcatProperties, Zenon
  <2>4. \A V \in SUBSET Ops : todo[r] \in Seq(V) => op \in V
    BY <1>1
  <2>5. u \in Seq(Ops)
    BY <1>1
  <2> HIDE DEF u
  <2>6. t # <<>> /\ Head(t) = "restore"
    BY <2>5
  <2> HIDE DEF t
  <2>7. Leads(op, Head(t))
    BY <1>4, <2>6 DEF Leads
  <2>8. todo'[r] = t /\ \A q \in Requests \ {r} : todo'[q] = todo[q]
    BY <2>1, <2>2, Jump, Zenon
  <2> QED
    BY <1>1, <1>2, <1>4, <2>3, <2>4, <2>6, <2>7, <2>8, Zenon DEF Moves, Alone
<1> QED
  BY <1>3, <1>4, Zenon

LEMMA StepMoves ==
    ASSUME State, NEW r \in Requests, Step(r) PROVE Moves(r)
<1> DEFINE Own == \A q \in Requests \ {r} :
             key'[q] = key[q] /\ idx'[q] = idx[q] /\ got'[q] = got[q] /\ num'[q] = num[q]
<1>1. CASE ResolveOrMintKey(r)
  <2>1. Own /\ At(r, "resolve") /\ Next1(r) /\ UNCHANGED <<scene, kind>>
    BY <1>1 DEF ResolveOrMintKey, State, Locals, hist
  <2> QED
    BY <2>1, MovesOn
<1>2. CASE Load(r)
  <2>1. Own /\ At(r, "load") /\ Next1(r) /\ UNCHANGED <<scene, kind>>
    BY <1>2 DEF Load, State, Locals
  <2> QED
    BY <2>1, MovesOn
<1>3. CASE Install(r)
  <2>1. Own /\ At(r, "install") /\ Next1(r) /\ UNCHANGED <<scene, kind>>
    BY <1>3 DEF Install, State, Locals
  <2> QED
    BY <2>1, MovesOn
<1>4. CASE AppendMsg(r)
  <2>1. PICK part \in {"user", "reply"} :
          At(r, part) /\ Next1(r) /\ UNCHANGED <<scene, kind, key, idx, got, num>>
    BY <1>4, Zenon DEF AppendMsg, hist
  <2>2. part # "start" /\ Own
    BY <2>1
  <2> QED
    BY <2>1, <2>2, MovesOn
<1>5. CASE Number(r)
  <2>1. Own /\ At(r, "number") /\ Next1(r) /\ UNCHANGED <<scene, kind>>
    BY <1>5 DEF Number, State, Locals, hist
  <2> QED
    BY <2>1, MovesOn
<1>6. CASE Insert(r)
  <2>1. Own /\ At(r, "insert") /\ Next1(r) /\ UNCHANGED <<scene, kind>>
    BY <1>6, Zenon DEF Insert, hist
  <2> QED
    BY <2>1, MovesOn
<1>7. CASE ReplaceMessages(r)
  <2>1. Own /\ At(r, "replace") /\ Next1(r) /\ UNCHANGED <<scene, kind>>
    BY <1>7, Zenon DEF ReplaceMessages
  <2> QED
    BY <2>1, MovesOn
<1>8. CASE Ask(r)
  <2>1. Own /\ At(r, "ask") /\ UNCHANGED <<scene, kind>> /\ (Next1(r) \/ Skip(r, 2))
    BY <1>8 DEF Ask, State, Locals
  <2>2. "ask" # "start" /\ "ask" # "hasSnap" /\ "ask" # "lastUser"
    OBVIOUS
  <2> QED
    BY <2>1, <2>2, MovesOn, SkipsOn
<1>9. CASE LastUser(r)
  <2>1. Own /\ At(r, "lastUser") /\ UNCHANGED <<scene, kind>> /\ (Next1(r) \/ Skip(r, 3))
    BY <1>9 DEF LastUser, State, Locals
  <2>2. "lastUser" # "start" /\ "lastUser" # "hasSnap"
    OBVIOUS
  <2> QED
    BY <2>1, <2>2, MovesOn, SkipsOn
<1>10. CASE Snapshot(r)
  <2>1. Own /\ At(r, "snapshot") /\ Next1(r) /\ UNCHANGED <<scene, kind>>
    BY <1>10, Zenon DEF Snapshot, hist
  <2> QED
    BY <2>1, MovesOn
<1>11. CASE HasSnapshot(r)
  <2>1. /\ Own /\ At(r, "hasSnap") /\ UNCHANGED <<scene, kind>>
        /\ Next1(r) \/ todo' = [todo EXCEPT ![r] = <<"restore">> \o SubSeq(@, 4, Len(@))]
    BY <1>11, Zenon DEF HasSnapshot, hist
  <2> QED
    BY <2>1, MovesOn, SkipsOn
<1>12. CASE LastTurn(r)
  <2>1. Own /\ At(r, "lastTurn") /\ UNCHANGED <<scene, kind>> /\ (Next1(r) \/ Skip(r, 2))
    BY <1>12 DEF LastTurn, State, Locals
  <2>2. "lastTurn" # "start" /\ "lastTurn" # "hasSnap" /\ "lastTurn" # "lastUser"
    OBVIOUS
  <2> QED
    BY <2>1, <2>2, MovesOn, SkipsOn
<1>13. CASE Undo(r)
  <2>1. Own /\ At(r, "restore") /\ Next1(r) /\ UNCHANGED <<scene, kind>>
    BY <1>13, Zenon DEF Undo, hist
  <2> QED
    BY <2>1, MovesOn
<1>14. CASE SetAuthMode(r)
  <2>1. Own /\ At(r, "setMode") /\ Next1(r) /\ UNCHANGED <<scene, kind>>
    BY <1>14, Zenon DEF SetAuthMode, hist
  <2> QED
    BY <2>1, MovesOn
<1>15. CASE OpenRow(r)
  <2>1. Own /\ At(r, "open") /\ Next1(r) /\ UNCHANGED <<scene, kind>>
    BY <1>15 DEF OpenRow, State, Locals, hist
  <2> QED
    BY <2>1, MovesOn
<1>16. CASE Publish(r)
  <2>1. Own /\ At(r, "publish") /\ Next1(r) /\ UNCHANGED <<scene, kind>>
    BY <1>16 DEF Publish, State, Locals
  <2> QED
    BY <2>1, MovesOn
<1>17. CASE Drop(r)
  <2>1. Own /\ At(r, "drop") /\ Next1(r) /\ UNCHANGED <<scene, kind>>
    BY <1>17, Zenon DEF Drop, hist
  <2> QED
    BY <2>1, MovesOn
<1>18. CASE Purge(r)
  <2>1. Own /\ At(r, "purge") /\ Next1(r) /\ UNCHANGED <<scene, kind>>
    BY <1>18, Zenon DEF Purge, hist
  <2> QED
    BY <2>1, MovesOn
<1>19. CASE DeleteRow(r)
  <2>1. Own /\ At(r, "deleteRow") /\ Next1(r) /\ UNCHANGED <<scene, kind>>
    BY <1>19, Zenon DEF DeleteRow
  <2> QED
    BY <2>1, MovesOn
<1> QED
  BY <1>1, <1>2, <1>3, <1>4, <1>5, <1>6, <1>7, <1>8, <1>9, <1>10, <1>11, <1>12, <1>13, <1>14,
     <1>15, <1>16, <1>17, <1>18, <1>19, Zenon DEF Step

\* The only way to some of the accesses.
LEMMA Comes ==
    ASSUME State, NEW r \in Requests, Step(r)
    PROVE  /\ ~At(r, "start")'
           /\ At(r, "publish")' => At(r, "open")
           /\ At(r, "deleteRow")' => At(r, "purge")
           /\ At(r, "purge")' => At(r, "drop")
           /\ ~At(r, "drop")'
           /\ At(r, "drop") => At(r, "purge")'
           /\ At(r, "purge") => At(r, "deleteRow")'
           /\ At(r, "deleteRow") => Done(r)'
           /\ At(r, "open") => At(r, "publish")'
           /\ At(r, "resolve") => At(r, "load")'
           /\ At(r, "publish") => At(r, "resolve")'
<1>1. todo'[r] # <<>> => Leads(Head(todo[r]), Head(todo'[r]))
  BY StepMoves, Zenon DEF Moves
<1>2. Head(todo[r]) \notin Ends => todo'[r] # <<>>
  BY StepMoves, Zenon DEF Moves
<1>3. todo[r] # <<>>
  BY StepMoves, Zenon DEF Moves, InFlight, Done
<1> DEFINE a == Head(todo[r])
           b == Head(todo'[r])
<1>4. Leads(a, b) => /\ b \notin {"start", "drop"}
                     /\ b = "publish" <=> a = "open"
                     /\ b = "deleteRow" <=> a = "purge"
                     /\ b = "purge" <=> a = "drop"
                     /\ a = "resolve" => b = "load"
                     /\ a = "publish" => b = "resolve"
                     /\ a # "deleteRow"
  BY DEF Leads, Follows
<1> HIDE DEF a, b
<1>5. \A op \in {"open", "purge", "drop", "resolve", "publish"} : a = op => todo'[r] # <<>>
  BY <1>2 DEF Ends, a
<1> QED
  BY <1>1, <1>3, <1>4, <1>5 DEF At, Done, a, b
-----------------------------------------------------------------------------
(* What the requests of each kind say, and in which order they come *)

Told ==
    \A r \in Requests :
        /\ kind[r] \in {"turn"} \cup scene.kinds \cup scene.sideKinds
        /\ todo[r] \in Seq(Vocabulary(kind[r]))
        /\ todo[r] # <<>> =>
             (kind[r] = "delete" <=> Head(todo[r]) \in {"drop", "purge", "deleteRow"})

\* With nobody beside the queue: what has started was queued, and what was
\* queued before it is done.
Ordered ==
    scene.side = {} =>
        /\ \A r \in Requests : ~At(r, "start") => r \in Queued
        /\ \A i, j \in DOMAIN scene.queue :
             (i < j /\ ~At(scene.queue[j], "start")) => Done(scene.queue[i])

\* What a step of a request leaves as it is for another one.
LEMMA OthersSame ==
    ASSUME NEW r \in Requests, NEW q \in Requests, q # r, Alone(r)
    PROVE  /\ kind'[q] = kind[q] /\ key'[q] = key[q]
           /\ Done(q)' = Done(q) /\ \A op \in Ops : At(q, op)' = At(q, op)
           /\ InFlight(q)' = InFlight(q)
<1>1. todo'[q] = todo[q] /\ kind'[q] = kind[q] /\ key'[q] = key[q]
  BY Zenon DEF Alone
<1> QED
  BY <1>1 DEF Done, At, InFlight

\* A request starts: its script is the one of its kind.
LEMMA Started ==
    ASSUME State, NEW r \in Requests, Start(r)
    PROVE  /\ At(r, "start") /\ ~Done(r) /\ ~InFlight(r) /\ Alone(r) /\ InFlight(r)'
           /\ UNCHANGED <<db, pods, idx, got, num, hist>> /\ scene' = scene
           /\ \E k \in scene.kinds \cup scene.sideKinds :
                /\ kind'[r] = k /\ k \in Kinds /\ todo'[r] = Script(k)
                /\ IF k = "delete" THEN key'[r] \in Rows ELSE key' = key
<1>1. At(r, "start") /\ UNCHANGED <<db, pods, idx, got, num, hist>> /\ scene' = scene
  BY Zenon DEF Start, hist
<1>2. PICK k \in scene.kinds \cup scene.sideKinds :
        /\ kind' = [kind EXCEPT ![r] = k] /\ todo' = [todo EXCEPT ![r] = Script(k)]
        /\ IF k = "delete" THEN \E s \in Rows : key' = [key EXCEPT ![r] = s] ELSE key' = key
  BY Zenon DEF Start
<1>3. k \in Kinds
  <2>1. scene.kinds \subseteq Kinds /\ scene.sideKinds \subseteq Kinds
    BY SessionAssumption DEF State, Histories, Scene
  <2> QED
    BY <2>1
<1>4. /\ todo'[r] = Script(k) /\ kind'[r] = k
      /\ IF k = "delete" THEN key'[r] \in Rows ELSE key' = key
  BY <1>2 DEF State, Locals, Paths
<1>5. Alone(r)
  BY <1>1, <1>2 DEF Alone, State, Locals, Paths
<1>6. InFlight(r)'
  BY <1>3, <1>4, Scripts DEF InFlight, Done, At
<1>7. ~Done(r) /\ ~InFlight(r)
  BY <1>1, Zenon DEF Done, InFlight, At
<1> QED
  BY <1>1, <1>3, <1>4, <1>5, <1>6, <1>7, Zenon

LEMMA ToldInit == Init => Told
<1> SUFFICES ASSUME Init, NEW r \in Requests
             PROVE  /\ kind[r] = "turn" /\ todo[r] = <<"start">>
                    /\ <<"start">> \in Seq(Vocabulary("turn")) /\ <<"start">> # <<>>
                    /\ Head(<<"start">>) \notin {"drop", "purge", "deleteRow"}
  BY DEF Told
<1> QED
  BY DEF Init, Vocabulary, Ops

LEMMA ToldNext ==
    ASSUME State, Told, NEW r \in Requests, Start(r) \/ Step(r)
    PROVE  Told'
<1>1. Alone(r) /\ scene' = scene
  BY Started, StepMoves, Zenon DEF Moves
<1>2. ASSUME NEW q \in Requests, q # r
      PROVE  kind'[q] = kind[q] /\ todo'[q] = todo[q]
  BY <1>1, <1>2, Zenon DEF Alone
<1>3. CASE Start(r)
  <2>1. PICK k \in scene.kinds \cup scene.sideKinds :
          kind'[r] = k /\ k \in Kinds /\ todo'[r] = Script(k)
    BY <1>3, Started, Zenon
  <2>2. /\ Script(k) \in Seq(Vocabulary(k)) /\ Script(k) # <<>>
        /\ Head(Script(k)) = IF k = "delete" THEN "drop" ELSE "resolve"
    BY <2>1, Scripts, ScriptSays, Zenon
  <2>3. k = "delete" <=> Head(Script(k)) \in {"drop", "purge", "deleteRow"}
    BY <2>2
  <2> QED
    BY <1>1, <1>2, <2>1, <2>2, <2>3, Zenon DEF Told
<1>4. CASE Step(r)
  <2>1. /\ kind' = kind /\ InFlight(r)
        /\ todo'[r] # <<>> => Leads(Head(todo[r]), Head(todo'[r]))
        /\ \A V \in SUBSET Ops :
             (("hasSnap" \in V => "restore" \in V) /\ todo[r] \in Seq(V)) => todo'[r] \in Seq(V)
    BY <1>4, StepMoves, Zenon DEF Moves
  <2>2. /\ Vocabulary(kind[r]) \in SUBSET Ops
        /\ "hasSnap" \in Vocabulary(kind[r]) => "restore" \in Vocabulary(kind[r])
    BY DEF Vocabulary, Ops
  <2>3. todo'[r] \in Seq(Vocabulary(kind[r]))
    BY <2>1, <2>2, Zenon DEF Told
  <2>4. ASSUME NEW a, NEW b, Leads(a, b)
        PROVE  a \in {"drop", "purge", "deleteRow"} <=> b \in {"drop", "purge", "deleteRow"}
    BY <2>4 DEF Leads, Follows
  <2>5. todo[r] # <<>>
    BY <2>1, Zenon DEF InFlight, Done
  <2>6. todo'[r] # <<>> =>
          (kind[r] = "delete" <=> Head(todo'[r]) \in {"drop", "purge", "deleteRow"})
    BY <2>1, <2>4, <2>5, Zenon DEF Told
  <2> QED
    BY <1>1, <1>2, <2>1, <2>3, <2>6, Zenon DEF Told
<1> QED
  BY <1>3, <1>4, Zenon

LEMMA OrderedInit == Init => Ordered
<1> SUFFICES ASSUME Init PROVE Ordered
  OBVIOUS
<1>1. \A r \in Requests : At(r, "start")
  BY DEF Init, At
<1>2. scene.queue \in Seq(Requests)
  BY SessionAssumption DEF Init, Scene
<1>3. \A j \in DOMAIN scene.queue : scene.queue[j] \in Requests
  BY <1>2
<1> QED
  BY <1>1, <1>3, Zenon DEF Ordered

LEMMA OrderedNext ==
    ASSUME State, Ordered, NEW r \in Requests, Start(r) \/ Step(r)
    PROVE  Ordered'
<1> DEFINE Q == scene.queue
<1>1. scene' = scene /\ Alone(r) /\ Q \in Seq(Requests) /\ IsInjective(Q)
  <2>1. scene' = scene /\ Alone(r)
    BY Started, StepMoves, Zenon DEF Moves
  <2>2. scene \in Scenes
    BY Zenon DEF State, Histories
  <2> QED
    BY <2>1, <2>2, SessionAssumption DEF Scene
<1> SUFFICES ASSUME scene.side = {} PROVE Ordered'
  BY <1>1, Zenon DEF Ordered
<1>a. DOMAIN Q = 1..Len(Q) /\ Len(Q) \in Nat /\ \A i \in DOMAIN Q : Q[i] \in Requests
  BY <1>1
<1>b. \A i, j \in DOMAIN Q : i < j => Q[i] # Q[j]
  BY <1>1, <1>a DEF IsInjective
<1>2. "start" \in Ops
  BY DEF Ops
<1>3. /\ r \in Queued /\ ~Done(r)
      /\ \A i, j \in DOMAIN Q : (i < j /\ Q[j] = r) => Done(Q[i])
  <2>1. CASE Start(r)
    <3>1. r \in Queued /\ ~Done(r)
      BY <2>1, Started DEF Start
    <3>2. \A j \in DOMAIN Q : Q[j] = r => \A i \in 1..j - 1 : Done(Q[i])
      BY <2>1, Zenon DEF Start
    <3>3. \A i, j \in DOMAIN Q : i < j => i \in 1..j - 1
      BY <1>a
    <3> QED
      BY <3>1, <3>2, <3>3, Zenon
  <2>2. CASE Step(r)
    <3>1. ~Done(r) /\ ~At(r, "start")
      BY <2>2, StepMoves, Zenon DEF Moves, InFlight
    <3> QED
      BY <3>1, Zenon DEF Ordered
  <2> QED
    BY <2>1, <2>2, Zenon
<1>4. \A q \in Requests : ~At(q, "start")' => q \in Queued
  BY <1>1, <1>2, <1>3, OthersSame, Zenon DEF Ordered
<1>5. ASSUME NEW i \in DOMAIN Q, NEW j \in DOMAIN Q, i < j, ~At(Q[j], "start")'
      PROVE  Done(Q[i])'
  <2>1. Q[i] \in Requests /\ Q[j] \in Requests /\ Q[i] # Q[j]
    BY <1>a, <1>b, <1>5, Zenon
  <2>2. Done(Q[i])
    <3>1. CASE Q[j] = r
      BY <1>3, <1>5, <3>1, Zenon
    <3>2. CASE Q[j] # r
      BY <1>1, <1>2, <1>5, <2>1, <3>2, OthersSame, Zenon DEF Ordered
    <3> QED
      BY <3>1, <3>2, Zenon
  <2>3. Q[i] # r
    BY <1>3, <2>2, Zenon
  <2> QED
    BY <1>1, <2>1, <2>2, <2>3, OthersSame, Zenon
<1> QED
  BY <1>1, <1>4, <1>5, Zenon DEF Ordered, Queued

\* So one request runs at a time.
LEMMA TheOnly ==
    ASSUME State, Ordered, scene.side = {}, NEW r \in Requests, NEW q \in Requests,
           InFlight(r), InFlight(q)
    PROVE  q = r
<1>1. scene.queue \in Seq(Requests)
  BY SessionAssumption DEF State, Histories, Scene
<1>2. r \in Queued /\ q \in Queued /\ ~Done(r) /\ ~Done(q) /\ ~At(r, "start") /\ ~At(q, "start")
  BY Zenon DEF Ordered, InFlight
<1>3. PICK i \in DOMAIN scene.queue : scene.queue[i] = r
  BY <1>1, <1>2 DEF Queued, ToSet
<1>4. PICK j \in DOMAIN scene.queue : scene.queue[j] = q
  BY <1>1, <1>2 DEF Queued, ToSet
<1>5. ~(i < j) /\ ~(j < i)
  BY <1>2, <1>3, <1>4, Zenon DEF Ordered
<1>6. i \in Nat /\ j \in Nat
  BY <1>1
<1>7. i = j
  BY <1>5, <1>6
<1> QED
  BY <1>3, <1>4, <1>7, Zenon
-----------------------------------------------------------------------------
(* /new and the dashboard's delete, when their effect is not mixed with that *)
(* of a request beside them                                                  *)

\* A request that works on the session it resolved, and a delete that is done.
Using(r) == InFlight(r) /\ ~At(r, "resolve") /\ kind[r] # "delete"
Gone(q)  == kind[q] = "delete" /\ Done(q)

\* What no request uses any more is not brought back; the session opened last
\* is the freshest, and the one that is being used.
Serial ==
    scene.side = {} =>
        /\ Rows \subseteq 1..minted
        /\ \A r \in Requests : (Using(r) \/ kind[r] = "delete") => key[r] <= minted
        /\ \A r \in Requests : (kind[r] = "delete" /\ At(r, "deleteRow")) => archive[key[r]] = {}
        /\ \A q \in Requests : Gone(q) =>
             /\ archive[key[q]] = {} /\ key[q] \notin Rows
             /\ \A r \in Requests : Using(r) => key[r] # key[q]
        /\ opened # 0 =>
             /\ recent # <<>> /\ (Head(recent) = opened \/ \E r \in Requests : At(r, "publish"))
             /\ \A r \in Requests : (Using(r) /\ ~At(r, "publish")) => key[r] = opened
        /\ \A r \in Requests : At(r, "publish") => recent # <<>> /\ Head(recent) = key[r]

LEMMA SerialInit == Init => Serial
<1> SUFFICES ASSUME Init PROVE Serial
  OBVIOUS
<1>1. \A r \in Requests : ~Using(r) /\ kind[r] = "turn" /\ ~At(r, "publish")
  BY DEF Init, Using, InFlight, At, Done
<1>2. Rows \subseteq 1..minted
  BY DEF Init, Rows, ToSet
<1>3. opened = 0
  BY Zenon DEF Init
<1> QED
  BY <1>1, <1>2, <1>3 DEF Serial, Gone

\* What a step of a request has to show of the tables and of that request.
LEMMA SerialBy ==
    ASSUME State, Ordered, Told, Serial, scene.side = {}, NEW r \in Requests, Moves(r),
           minted \in Nat, minted' \in Nat, minted <= minted', Rows' \subseteq 1..minted',
           Using(r)' => key'[r] <= minted',
           kind[r] = "delete" => key'[r] = key[r],
           kind[r] = "delete" /\ (At(r, "deleteRow")' \/ Done(r)') => archive'[key'[r]] = {},
           kind[r] = "delete" /\ Done(r)' => key'[r] \notin Rows',
           \A q \in Requests \ {r} : Gone(q) =>
             /\ archive'[key[q]] = {} /\ key[q] \notin Rows'
             /\ Using(r)' => key'[r] # key[q],
           opened' # 0 =>
             /\ recent' # <<>> /\ (Head(recent') = opened' \/ At(r, "publish")')
             /\ (Using(r)' /\ ~At(r, "publish")') => key'[r] = opened',
           At(r, "publish")' => recent' # <<>> /\ Head(recent') = key'[r]
    PROVE  Serial'
<1>1. scene' = scene /\ Alone(r) /\ kind'[r] = kind[r] /\ InFlight(r)
  BY Zenon DEF Moves
<1>2. \A q \in Requests \ {r} : ~InFlight(q)
  BY <1>1, TheOnly, Zenon
<1>a. "deleteRow" \in Ops /\ "publish" \in Ops /\ "start" \in Ops
  BY DEF Ops
<1>3. ASSUME NEW q \in Requests \ {r}
      PROVE  /\ ~InFlight(q)' /\ kind'[q] = kind[q] /\ key'[q] = key[q] /\ Done(q)' = Done(q)
             /\ ~Using(q)' /\ ~At(q, "deleteRow")' /\ ~At(q, "publish")'
  <2>1. /\ ~InFlight(q)' /\ kind'[q] = kind[q] /\ key'[q] = key[q] /\ Done(q)' = Done(q)
        /\ At(q, "deleteRow")' = At(q, "deleteRow") /\ At(q, "publish")' = At(q, "publish")
    BY <1>1, <1>2, <1>a, OthersSame, Zenon
  <2>2. ~At(q, "deleteRow") /\ ~At(q, "publish")
    BY <1>2 DEF InFlight, At, Done
  <2> QED
    BY <2>1, <2>2, Zenon DEF Using
<1>4. ASSUME NEW q \in Requests, Using(q)' \/ kind'[q] = "delete"
      PROVE  key'[q] <= minted'
  <2>1. key[q] \in Nat /\ (kind[q] = "delete" => key[q] <= minted)
    BY DEF State, Locals, Keys, Serial
  <2> QED
    BY <1>1, <1>3, <1>4, <2>1
<1>5. ASSUME NEW q \in Requests, kind'[q] = "delete", At(q, "deleteRow")'
      PROVE  archive'[key'[q]] = {}
  BY <1>1, <1>3, <1>5, Zenon
<1>6. ASSUME NEW q \in Requests, Gone(q)'
      PROVE  /\ archive'[key'[q]] = {} /\ key'[q] \notin Rows'
             /\ \A s \in Requests : Using(s)' => key'[s] # key'[q]
  <2>1. CASE q = r
    <3>1. ~Using(r)'
      BY <1>6, <2>1, Zenon DEF Using, Gone, InFlight
    <3> QED
      BY <1>1, <1>3, <1>6, <2>1, <3>1, Zenon DEF Gone
  <2>2. CASE q # r
    <3>1. Gone(q) /\ key'[q] = key[q]
      BY <1>3, <1>6, <2>2, Zenon DEF Gone
    <3> QED
      BY <1>3, <2>2, <3>1, Zenon
  <2> QED
    BY <2>1, <2>2, Zenon
<1>7. ASSUME opened' # 0
      PROVE  /\ recent' # <<>> /\ (Head(recent') = opened' \/ \E q \in Requests : At(q, "publish")')
             /\ \A q \in Requests : (Using(q)' /\ ~At(q, "publish")') => key'[q] = opened'
  BY <1>3, <1>7, Zenon
<1>8. \A q \in Requests : At(q, "publish")' => recent' # <<>> /\ Head(recent') = key'[q]
  BY <1>3, Zenon
<1> QED
  BY <1>4, <1>5, <1>6, <1>7, <1>8, Zenon DEF Serial

\* Where a request stands before and after its step.
LEMMA Stands ==
    ASSUME State, Told, NEW r \in Requests, Step(r)
    PROVE  /\ Moves(r) /\ minted \in Nat /\ Rows \subseteq Keys /\ key[r] \in Keys
           /\ \A op \in Ops : At(r, op) => \A o2 \in Ops \ {op} : ~At(r, o2)
           /\ ~At(r, "resolve") /\ kind[r] # "delete" => Using(r)
           /\ Using(r)' => kind[r] # "delete"
           /\ At(r, "resolve") => kind[r] # "delete"
           /\ kind[r] = "delete" => At(r, "drop") \/ At(r, "purge") \/ At(r, "deleteRow")
           /\ At(r, "drop") \/ At(r, "purge") \/ At(r, "deleteRow") => kind[r] = "delete"
           /\ recent # <<>> => Head(recent) \in Rows
<1>1. Moves(r) /\ InFlight(r) /\ kind' = kind
  BY StepMoves, Zenon DEF Moves
<1>2. minted \in Nat /\ Rows \subseteq Keys /\ key[r] \in Keys
  BY SessionAssumption DEF State, Tables, Locals, Rows, ToSet
<1>3. recent # <<>> => Head(recent) \in Rows
  <2>1. recent # <<>> => 1 \in DOMAIN recent /\ Head(recent) = recent[1]
    BY DEF State, Tables
  <2> QED
    BY <2>1 DEF Rows, ToSet
<1>4. todo[r] # <<>>
  BY <1>1, Zenon DEF InFlight, Done
<1>5. kind[r] = "delete" <=> Head(todo[r]) \in {"drop", "purge", "deleteRow"}
  BY <1>4, Zenon DEF Told
<1>6. /\ \A op \in Ops : At(r, op) => \A o2 \in Ops \ {op} : ~At(r, o2)
      /\ (At(r, "drop") \/ At(r, "purge") \/ At(r, "deleteRow")) <=> kind[r] = "delete"
      /\ At(r, "resolve") => kind[r] # "delete"
  BY <1>4, <1>5 DEF At
<1>7. Using(r)' => kind[r] # "delete"
  BY <1>1, Zenon DEF Using
<1>8. (~At(r, "resolve") /\ kind[r] # "delete") => Using(r)
  BY <1>1, Zenon DEF Using
<1> QED
  BY <1>1, <1>2, <1>3, <1>6, <1>7, <1>8, Zenon

\* Steps that touch neither the rows nor the archive.
LEMMA QuietSerial ==
    ASSUME State, Ordered, Told, Serial, scene.side = {}, NEW r \in Requests, Step(r),
           ~At(r, "resolve"), ~At(r, "open"), ~At(r, "publish"), ~At(r, "purge"), ~At(r, "deleteRow"),
           recent' = recent, minted' = minted, key' = key, opened' = opened,
           \A k \in Keys \ {key[r]} : archive'[k] = archive[k],
           kind[r] = "delete" => archive' = archive
    PROVE  Serial'
<1>1. Rows' = Rows
  BY DEF Rows
<1>2. Rows \subseteq 1..minted /\ minted <= minted
  BY Stands DEF Serial
<1>3. ~At(r, "publish")' /\ ~At(r, "deleteRow")'
  BY Comes, Zenon
<1>4. kind[r] = "delete" => ~Done(r)'
  <2>1. kind[r] = "delete" => At(r, "drop")
    BY Stands, Zenon
  <2>2. At(r, "drop") => ~Done(r)'
    BY Comes, Zenon DEF At, Done
  <2> QED
    BY <2>1, <2>2, Zenon
<1>5. Using(r)' => Using(r)
  BY Stands, Zenon
<1>6. ASSUME NEW q \in Requests \ {r}, Gone(q)
      PROVE  /\ archive'[key[q]] = {} /\ key[q] \notin Rows'
             /\ Using(r)' => key'[r] # key[q]
  <2>1. archive[key[q]] = {} /\ key[q] \notin Rows /\ (Using(r) => key[r] # key[q])
    BY <1>6, Zenon DEF Serial
  <2>2. kind[r] # "delete" => Using(r)
    BY Stands, Zenon
  <2>3. key[q] \in Keys
    BY DEF State, Locals
  <2> QED
    BY <1>1, <1>5, <2>1, <2>2, <2>3, Zenon
<1>7. ASSUME opened' # 0
      PROVE  /\ recent' # <<>> /\ (Head(recent') = opened' \/ At(r, "publish")')
             /\ (Using(r)' /\ ~At(r, "publish")') => key'[r] = opened'
  <2>1. /\ recent # <<>> /\ (Head(recent) = opened \/ \E q \in Requests : At(q, "publish"))
        /\ Using(r) => key[r] = opened
    BY <1>7, Zenon DEF Serial
  <2>2. ~ \E q \in Requests : At(q, "publish")
    <3>1. ASSUME NEW q \in Requests, At(q, "publish") PROVE FALSE
      <4>1. InFlight(q) /\ InFlight(r)
        BY <3>1, Stands DEF InFlight, At, Done, Moves
      <4> QED
        BY <3>1, <4>1, TheOnly, Zenon
    <3> QED
      BY <3>1, Zenon
  <2> QED
    BY <1>5, <2>1, <2>2, Zenon
<1>8. Using(r) => key[r] <= minted
  BY Zenon DEF Serial
<1> QED
  BY <1>1, <1>2, <1>3, <1>4, <1>5, <1>6, <1>7, <1>8, Stands, SerialBy

\* Steps that save the row of the session at hand.
LEMMA SavingSerial ==
    ASSUME State, Ordered, Told, Serial, scene.side = {}, NEW r \in Requests, Step(r),
           ~At(r, "resolve"), ~At(r, "open"), ~At(r, "publish"), kind[r] # "delete",
           Rows' = Rows \cup {key[r]}, recent' # <<>>, Head(recent') = key[r],
           archive' = archive, minted' = minted, key' = key, opened' = opened
    PROVE  Serial'
<1>1. Using(r)
  BY Stands, Zenon
<1>2. Rows \subseteq 1..minted /\ key[r] <= minted /\ key[r] \in Keys /\ minted \in Nat
  BY <1>1, Stands, Zenon DEF Serial
<1>3. Rows' \subseteq 1..minted
  <2>1. key[r] \in 1..minted
    BY <1>2, SessionAssumption DEF Keys
  <2> QED
    BY <1>2, <2>1, Zenon
<1>4. ~At(r, "publish")'
  BY Comes, Zenon
<1>5. \A q \in Requests \ {r} : Gone(q) =>
        archive'[key[q]] = {} /\ key[q] \notin Rows' /\ (Using(r)' => key'[r] # key[q])
  BY <1>1 DEF Serial
<1>6. opened # 0 => key[r] = opened
  BY <1>1, Zenon DEF Serial
<1> QED
  BY <1>2, <1>3, <1>4, <1>5, <1>6, Stands, SerialBy

\* A Get finds the session opened last, or mints a key that no request has.
LEMMA ResolveSerial ==
    ASSUME State, Ordered, Told, Serial, scene.side = {}, NEW r \in Requests, ResolveOrMintKey(r)
    PROVE  Serial'
<1>1. Step(r) /\ At(r, "resolve") /\ UNCHANGED <<recent, archive, opened>>
  BY Zenon DEF Step, ResolveOrMintKey, hist
<1>2. /\ minted \in Nat /\ Rows' = Rows /\ Rows \subseteq Keys /\ Rows \subseteq 1..minted
      /\ recent # <<>> => Head(recent) \in Rows
  BY <1>1, Stands DEF Rows, Serial
<1>3. /\ key' \in [Requests -> Keys]
      /\ \/ recent # <<>> /\ key'[r] = Head(recent) /\ minted' = minted
         \/ recent = <<>> /\ key'[r] = minted + 1 /\ minted' = minted + 1
  <2>1. key \in [Requests -> Keys] /\ State'
    BY ResolveState, Zenon DEF State, Locals
  <2> QED
    BY <2>1, Zenon DEF ResolveOrMintKey, State, Locals
<1>4. minted' \in Nat /\ minted <= minted' /\ key'[r] <= minted' /\ Rows' \subseteq 1..minted'
  <2>1. CASE recent # <<>>
    <3>1. Head(recent) \in 1..minted /\ key'[r] = Head(recent) /\ minted' = minted
      BY <1>2, <1>3, <2>1, Zenon
    <3> QED
      BY <1>2, <3>1
  <2>2. CASE recent = <<>>
    <3>1. key'[r] = minted + 1 /\ minted' = minted + 1
      BY <1>3, <2>2, Zenon
    <3>2. 1..minted \subseteq 1..(minted + 1)
      BY <1>2
    <3> QED
      BY <1>2, <3>1, <3>2
  <2> QED
    BY <2>1, <2>2, Zenon
<1>5. ~At(r, "publish")' /\ ~At(r, "deleteRow")'
  <2>1. ~At(r, "open") /\ ~At(r, "purge")
    BY <1>1, Stands DEF Ops
  <2> QED
    BY <1>1, <2>1, Comes, Zenon
<1>6. kind[r] # "delete"
  BY <1>1, Stands, Zenon
<1>7. ASSUME NEW q \in Requests \ {r}, Gone(q)
      PROVE  archive'[key[q]] = {} /\ key[q] \notin Rows' /\ key'[r] # key[q]
  <2>1. archive[key[q]] = {} /\ key[q] \notin Rows /\ key[q] <= minted
    BY <1>7, Zenon DEF Serial, Gone
  <2>2. key[q] # minted + 1
    BY <1>2, <2>1
  <2> QED
    BY <1>1, <1>2, <1>3, <2>1, <2>2, Zenon
<1>8. ASSUME opened # 0
      PROVE  recent # <<>> /\ Head(recent) = opened /\ key'[r] = opened
  <2>1. recent # <<>> /\ (Head(recent) = opened \/ \E q \in Requests : At(q, "publish"))
    BY <1>8, Zenon DEF Serial
  <2>2. ASSUME NEW q \in Requests, At(q, "publish") PROVE FALSE
    <3>1. InFlight(q) /\ InFlight(r) /\ ~At(r, "publish")
      BY <1>1, <2>2 DEF InFlight, At, Done
    <3> QED
      BY <2>2, <3>1, TheOnly, Zenon
  <2> QED
    BY <1>3, <2>1, <2>2, Zenon
<1> QED
  BY <1>1, <1>2, <1>4, <1>5, <1>6, <1>7, <1>8, Stands, SerialBy

\* /new opens a session that is fresher than all, and none that is gone.
LEMMA OpenSerial ==
    ASSUME State, Ordered, Told, Serial, scene.side = {}, NEW r \in Requests, OpenRow(r)
    PROVE  Serial'
<1>1. /\ Step(r) /\ At(r, "open") /\ UNCHANGED <<archive, opened>>
      /\ minted' = minted + 1 /\ key'[r] = minted + 1 /\ minted < MaxKey
      /\ SaveSession(minted + 1, <<>>)
  BY DEF Step, OpenRow, hist, State, Locals
<1>2. /\ minted \in Nat /\ Rows \subseteq 1..minted /\ minted + 1 \in Keys
  BY <1>1, Stands, SessionAssumption DEF Serial, Keys
<1>3. recent' # <<>> /\ Head(recent') = key'[r] /\ Rows' = Rows \cup {key'[r]}
  <2>1. <<>> \in Seq(Messages)
    OBVIOUS
  <2> QED
    BY <1>1, <1>2, <2>1, Saved, Zenon DEF State
<1>4. minted' \in Nat /\ minted <= minted' /\ key'[r] <= minted' /\ Rows' \subseteq 1..minted'
  <2>1. 1..minted \subseteq 1..(minted + 1) /\ minted + 1 \in 1..(minted + 1)
    BY <1>2
  <2>2. Rows' \subseteq 1..(minted + 1)
    BY <1>1, <1>2, <1>3, <2>1, Zenon
  <2> QED
    BY <1>1, <1>2, <2>2
<1>5. kind[r] # "delete" /\ At(r, "publish")'
  <2>1. ~At(r, "drop") /\ ~At(r, "purge") /\ ~At(r, "deleteRow")
    BY <1>1, Stands DEF Ops
  <2> QED
    BY <1>1, <2>1, Comes, Stands, Zenon
<1>6. ~At(r, "deleteRow")'
  BY <1>5 DEF At
<1>7. ASSUME NEW q \in Requests \ {r}, Gone(q)
      PROVE  archive'[key[q]] = {} /\ key[q] \notin Rows' /\ key'[r] # key[q]
  <2>1. archive[key[q]] = {} /\ key[q] \notin Rows /\ key[q] <= minted
    BY <1>7, Zenon DEF Serial, Gone
  <2>2. key[q] # minted + 1
    BY <1>2, <2>1
  <2> QED
    BY <1>1, <1>3, <2>1, <2>2
<1> QED
  BY <1>1, <1>2, <1>3, <1>4, <1>5, <1>6, <1>7, Stands, SerialBy

LEMMA PublishSerial ==
    ASSUME State, Ordered, Told, Serial, scene.side = {}, NEW r \in Requests, Publish(r)
    PROVE  Serial'
<1>1. /\ Step(r) /\ At(r, "publish") /\ UNCHANGED <<recent, archive, minted, key>>
      /\ opened' = key[r]
  BY Zenon DEF Step, Publish, db
<1>2. Rows' = Rows /\ minted \in Nat /\ Rows \subseteq 1..minted
  BY <1>1, Stands DEF Rows, Serial
<1>3. At(r, "resolve")'
  BY <1>1, Comes, Zenon
<1>4. ~Using(r)' /\ ~At(r, "publish")' /\ ~At(r, "deleteRow")' /\ ~Done(r)'
  BY <1>3 DEF Using, At, Done
<1>5. recent # <<>> /\ Head(recent) = key[r]
  BY <1>1, Zenon DEF Serial
<1>6. ASSUME NEW q \in Requests \ {r}, Gone(q)
      PROVE  archive'[key[q]] = {} /\ key[q] \notin Rows'
  BY <1>1, <1>2, <1>6, Zenon DEF Serial
<1>7. minted' \in Nat /\ minted <= minted' /\ Rows' \subseteq 1..minted'
  BY <1>1, <1>2
<1>8. recent' # <<>> /\ Head(recent') = opened' /\ key'[r] = key[r]
  BY <1>1, <1>5, Zenon
<1>9. Moves(r)
  BY <1>1, Stands, Zenon
<1> QED
  BY <1>2, <1>4, <1>6, <1>7, <1>8, <1>9, SerialBy, Zenon

\* A delete empties the archive, then takes the row.
LEMMA PurgeSerial ==
    ASSUME State, Ordered, Told, Serial, scene.side = {}, NEW r \in Requests, Purge(r)
    PROVE  Serial'
<1>1. /\ Step(r) /\ At(r, "purge") /\ UNCHANGED <<recent, minted, key, opened>>
      /\ archive' = [archive EXCEPT ![key[r]] = {}]
  BY Zenon DEF Step, Purge, hist
<1>2. Rows' = Rows /\ minted \in Nat /\ Rows \subseteq 1..minted /\ kind[r] = "delete"
  BY <1>1, Stands DEF Rows, Serial
<1>3. At(r, "deleteRow")'
  BY <1>1, Comes, Zenon
<1>4. ~At(r, "publish")' /\ ~Done(r)' /\ ~Using(r)'
  <2>1. ~Using(r)'
    BY <1>1, <1>2, Stands, Zenon
  <2> QED
    BY <1>3, <2>1 DEF At, Done
<1>5. archive'[key[r]] = {} /\ \A k \in Keys : archive'[k] \in {archive[k], {}}
  BY <1>1, Stands DEF State, Tables
<1>6. ASSUME NEW q \in Requests \ {r}, Gone(q)
      PROVE  archive'[key[q]] = {} /\ key[q] \notin Rows'
  <2>1. archive[key[q]] = {} /\ key[q] \notin Rows /\ key[q] \in Keys
    BY <1>6 DEF Serial, State, Locals
  <2> QED
    BY <1>2, <1>5, <2>1
<1>7. ASSUME opened # 0 PROVE recent # <<>> /\ Head(recent) = opened
  <2>1. recent # <<>> /\ (Head(recent) = opened \/ \E q \in Requests : At(q, "publish"))
    BY <1>7, Zenon DEF Serial
  <2>2. ASSUME NEW q \in Requests, At(q, "publish") PROVE FALSE
    <3>1. InFlight(q) /\ InFlight(r) /\ ~At(r, "publish")
      BY <1>1, <2>2 DEF InFlight, At, Done
    <3> QED
      BY <2>2, <3>1, TheOnly, Zenon
  <2> QED
    BY <2>1, <2>2, Zenon
<1> QED
  BY <1>1, <1>2, <1>4, <1>5, <1>6, <1>7, Stands, SerialBy

LEMMA DeleteSerial ==
    ASSUME State, Ordered, Told, Serial, scene.side = {}, NEW r \in Requests, DeleteRow(r)
    PROVE  Serial'
<1>1. /\ Step(r) /\ At(r, "deleteRow") /\ UNCHANGED <<archive, minted, key>>
      /\ recent' = RemoveFirst(recent, key[r])
      /\ opened' = IF opened = key[r] THEN 0 ELSE opened
  BY Zenon DEF Step, DeleteRow
<1>2. minted \in Nat /\ Rows \subseteq 1..minted /\ kind[r] = "delete"
  BY <1>1, Stands DEF Serial
<1>3. /\ Rows' = Rows \ {key[r]}
      /\ (recent # <<>> /\ Head(recent) # key[r]) => (recent' # <<>> /\ Head(recent') = Head(recent))
  BY <1>1, Removed DEF State, Tables, Rows
<1>4. Done(r)'
  BY <1>1, Comes, Zenon
<1>5. ~At(r, "publish")' /\ ~Using(r)'
  <2>1. ~Using(r)'
    BY <1>1, <1>2, Stands, Zenon
  <2> QED
    BY <1>4, <2>1 DEF At, Done
<1>6. archive[key[r]] = {}
  BY <1>1, <1>2, Zenon DEF Serial
<1>7. ASSUME NEW q \in Requests \ {r}, Gone(q)
      PROVE  archive'[key[q]] = {} /\ key[q] \notin Rows'
  <2>1. archive[key[q]] = {} /\ key[q] \notin Rows
    BY <1>7, Zenon DEF Serial
  <2> QED
    BY <1>1, <1>3, <2>1
<1>8. ASSUME opened' # 0 PROVE recent' # <<>> /\ Head(recent') = opened'
  <2>1. opened # 0 /\ opened # key[r] /\ opened' = opened
    BY <1>1, <1>8, Zenon
  <2>2. recent # <<>> /\ (Head(recent) = opened \/ \E q \in Requests : At(q, "publish"))
    BY <2>1, Zenon DEF Serial
  <2>3. ASSUME NEW q \in Requests, At(q, "publish") PROVE FALSE
    <3>1. InFlight(q) /\ InFlight(r) /\ ~At(r, "publish")
      BY <1>1, <2>3 DEF InFlight, At, Done
    <3> QED
      BY <2>3, <3>1, TheOnly, Zenon
  <2> QED
    BY <1>3, <2>1, <2>2, <2>3, Zenon
<1>9. minted' \in Nat /\ minted <= minted' /\ Rows' \subseteq 1..minted'
  <2>1. minted' = minted /\ Rows' \subseteq Rows
    BY <1>1, <1>3, Zenon
  <2>2. minted <= minted
    BY <1>2
  <2> QED
    BY <1>2, <2>1, <2>2, Zenon
<1>10. /\ key'[r] = key[r] /\ archive'[key'[r]] = {} /\ Moves(r)
       /\ key'[r] \notin Rows'
  BY <1>1, <1>3, <1>6, Stands
<1> QED
  BY <1>2, <1>5, <1>7, <1>8, <1>9, <1>10, SerialBy, Zenon

\* A request that starts uses nothing yet.
LEMMA StartSerial ==
    ASSUME State, Ordered, Told, Serial, scene.side = {}, NEW r \in Requests, Start(r)
    PROVE  Serial'
<1>1. /\ At(r, "start") /\ ~Done(r) /\ Alone(r) /\ scene' = scene
      /\ UNCHANGED <<recent, archive, minted, opened>>
  BY Started, Zenon DEF db, hist
<1>2. PICK k \in Kinds :
        /\ kind'[r] = k /\ todo'[r] = Script(k)
        /\ IF k = "delete" THEN key'[r] \in Rows ELSE key' = key
  BY Started, Zenon
<1>3. /\ Script(k) # <<>> /\ Head(Script(k)) = IF k = "delete" THEN "drop" ELSE "resolve"
  BY <1>2, Scripts, Zenon
<1>4. ~Using(r)' /\ ~At(r, "publish")' /\ ~At(r, "deleteRow")' /\ ~Gone(r)'
  <2>1. ~Done(r)' /\ ~At(r, "publish")' /\ ~At(r, "deleteRow")'
        /\ (kind'[r] # "delete" => At(r, "resolve")')
    BY <1>2, <1>3 DEF At, Done
  <2> QED
    BY <2>1, Zenon DEF Using, Gone
<1>5. Rows' = Rows /\ Rows \subseteq 1..minted /\ minted \in Nat
  BY <1>1, SessionAssumption DEF Rows, Serial, State, Tables
<1>a. "deleteRow" \in Ops /\ "publish" \in Ops /\ "resolve" \in Ops
  BY DEF Ops
<1>6. ASSUME NEW q \in Requests \ {r}
      PROVE  /\ kind'[q] = kind[q] /\ key'[q] = key[q]
             /\ Using(q)' = Using(q) /\ Gone(q)' = Gone(q)
             /\ At(q, "deleteRow")' = At(q, "deleteRow") /\ At(q, "publish")' = At(q, "publish")
  <2>1. /\ kind'[q] = kind[q] /\ key'[q] = key[q] /\ Done(q)' = Done(q)
        /\ InFlight(q)' = InFlight(q) /\ At(q, "resolve")' = At(q, "resolve")
        /\ At(q, "deleteRow")' = At(q, "deleteRow") /\ At(q, "publish")' = At(q, "publish")
    BY <1>1, <1>a, OthersSame, Zenon
  <2> QED
    BY <2>1 DEF Using, Gone
<1>7. ~At(r, "publish")
  BY <1>1 DEF At
<1>8. ASSUME NEW q \in Requests, Using(q)' \/ kind'[q] = "delete" PROVE key'[q] <= minted'
  <2>1. CASE q = r
    <3>1. key'[r] \in 1..minted
      BY <1>2, <1>4, <1>5, <1>8, <2>1, Zenon
    <3>2. key'[r] <= minted /\ minted' = minted
      <4>1. minted' = minted
        BY <1>1, Zenon
      <4> QED
        BY <1>5, <3>1, <4>1
    <3> QED
      BY <2>1, <3>2, Zenon
  <2>2. CASE q # r
    BY <1>1, <1>6, <1>8, <2>2, Zenon DEF Serial
  <2> QED
    BY <2>1, <2>2, Zenon
<1>9. ASSUME NEW q \in Requests, kind'[q] = "delete", At(q, "deleteRow")'
      PROVE  archive'[key'[q]] = {}
  BY <1>1, <1>4, <1>6, <1>9, Zenon DEF Serial
<1>10. ASSUME NEW q \in Requests, Gone(q)'
       PROVE  /\ archive'[key'[q]] = {} /\ key'[q] \notin Rows'
              /\ \A s \in Requests : Using(s)' => key'[s] # key'[q]
  <2>1. q \in Requests \ {r}
    BY <1>4, <1>10, Zenon
  <2>2. /\ archive[key[q]] = {} /\ key[q] \notin Rows
        /\ \A s \in Requests : Using(s) => key[s] # key[q]
    BY <1>6, <1>10, <2>1, Zenon DEF Serial
  <2> QED
    BY <1>1, <1>4, <1>5, <1>6, <2>1, <2>2, Zenon
<1>11. ASSUME opened' # 0
       PROVE  /\ recent' # <<>>
              /\ Head(recent') = opened' \/ \E q \in Requests : At(q, "publish")'
              /\ \A q \in Requests : (Using(q)' /\ ~At(q, "publish")') => key'[q] = opened'
  <2>1. /\ recent # <<>> /\ (Head(recent) = opened \/ \E q \in Requests : At(q, "publish"))
        /\ \A q \in Requests : (Using(q) /\ ~At(q, "publish")) => key[q] = opened
    BY <1>1, <1>11, Zenon DEF Serial
  <2>2. Head(recent) = opened \/ \E q \in Requests : At(q, "publish")'
    BY <1>6, <1>7, <2>1, Zenon
  <2> QED
    BY <1>1, <1>4, <1>6, <2>1, <2>2, Zenon
<1>12. \A q \in Requests : At(q, "publish")' => recent' # <<>> /\ Head(recent') = key'[q]
  BY <1>1, <1>4, <1>6, Zenon DEF Serial
<1> QED
  BY <1>1, <1>5, <1>8, <1>9, <1>10, <1>11, <1>12, Zenon DEF Serial

LEMMA SerialNext ==
    ASSUME State, Ordered, Told, Serial, NEW r \in Requests, Start(r) \/ Step(r)
    PROVE  Serial'
<1>1. scene' = scene
  BY Started, StepMoves, Zenon DEF Moves
<1> SUFFICES ASSUME scene.side = {} PROVE Serial'
  BY <1>1, Zenon DEF Serial
<1>3. CASE \/ Load(r) \/ Install(r) \/ Number(r) \/ Ask(r) \/ LastUser(r) \/ Snapshot(r)
           \/ HasSnapshot(r) \/ LastTurn(r) \/ Undo(r) \/ SetAuthMode(r) \/ Drop(r)
  <2>1. Step(r) /\ UNCHANGED <<recent, archive, minted, key, opened>>
    BY <1>3, Zenon DEF Step, Load, Install, Number, Ask, LastUser, Snapshot, HasSnapshot,
       LastTurn, Undo, SetAuthMode, Drop, db, hist
  <2>2. \E op \in {"load", "install", "number", "ask", "lastUser", "snapshot", "hasSnap",
                   "lastTurn", "restore", "setMode", "drop"} : At(r, op)
    BY <1>3 DEF Load, Install, Number, Ask, LastUser, Snapshot, HasSnapshot,
       LastTurn, Undo, SetAuthMode, Drop
  <2>3. /\ ~At(r, "resolve") /\ ~At(r, "open") /\ ~At(r, "publish") /\ ~At(r, "purge")
        /\ ~At(r, "deleteRow")
    BY <2>2 DEF At
  <2> QED
    BY <2>1, <2>3, QuietSerial, Zenon
<1>4. CASE Insert(r)
  <2>1. /\ Step(r) /\ At(r, "insert") /\ UNCHANGED <<recent, minted, key, opened>>
        /\ \A k \in Keys \ {key[r]} : archive'[k] = archive[k]
    BY <1>4 DEF Step, Insert, hist, State, Tables
  <2>2. /\ ~At(r, "resolve") /\ ~At(r, "open") /\ ~At(r, "publish") /\ ~At(r, "purge")
        /\ ~At(r, "deleteRow") /\ ~At(r, "drop")
    BY <2>1 DEF At
  <2>3. kind[r] # "delete"
    BY <2>1, <2>2, Stands, Zenon
  <2> QED
    BY <2>1, <2>2, <2>3, QuietSerial, Zenon
<1>5. CASE AppendMsg(r) \/ ReplaceMessages(r)
  <2>1. /\ Step(r) /\ UNCHANGED <<archive, minted, key, opened>>
        /\ \E op \in {"user", "reply", "replace"} : At(r, op)
        /\ \E ms : SaveSession(key[r], ms)
    BY <1>5, Zenon DEF Step, AppendMsg, ReplaceMessages, hist
  <2>2. /\ ~At(r, "resolve") /\ ~At(r, "open") /\ ~At(r, "publish") /\ ~At(r, "purge")
        /\ ~At(r, "deleteRow") /\ ~At(r, "drop")
    BY <2>1 DEF At
  <2>3. kind[r] # "delete" /\ key[r] \in Keys
    BY <2>1, <2>2, Stands, Zenon
  <2>4. Rows' = Rows \cup {key[r]} /\ recent' # <<>> /\ Head(recent') = key[r]
    BY <2>1, <2>3, Touched, Zenon DEF State, SaveSession
  <2> QED
    BY <2>1, <2>2, <2>3, <2>4, SavingSerial, Zenon
<1> QED
  BY <1>3, <1>4, <1>5, StartSerial, ResolveSerial, OpenSerial, PublishSerial, PurgeSerial,
     DeleteSerial, Zenon DEF Step

\* Whom /new and the delete would surprise: a request beside them.
Unmixed(c) == c.side = {} \/ {"new", "delete"} \cap (c.kinds \cup c.sideKinds) = {}

Commands ==
    /\ State /\ Told /\ Ordered /\ Serial
    /\ {"new", "delete"} \cap (scene.kinds \cup scene.sideKinds) = {} => opened = 0

LEMMA CommandsInit == Init => Commands
<1>1. Init => opened = 0
  BY Zenon DEF Init
<1> QED
  BY <1>1, InitState, ToldInit, OrderedInit, SerialInit, Zenon DEF Commands

LEMMA CommandsNext == Commands /\ [Next]_vars => Commands'
<1>1. ASSUME Commands, NEW r \in Requests, Start(r) \/ Step(r) PROVE Commands'
  <2>1. State /\ Told /\ Ordered /\ Serial
    BY <1>1, Zenon DEF Commands
  <2>2. State' /\ Told' /\ Ordered' /\ Serial'
    <3>1. [Next]_vars
      BY <1>1, Zenon DEF Next
    <3> QED
      BY <1>1, <2>1, <3>1, NextState, ToldNext, OrderedNext, SerialNext, Zenon
  <2>3. scene' = scene
    BY <1>1, <2>1, Started, StepMoves, Zenon DEF Moves
  <2>4. ASSUME {"new", "delete"} \cap (scene.kinds \cup scene.sideKinds) = {} PROVE opened' = 0
    <3>1. opened = 0
      BY <1>1, <2>4, Zenon DEF Commands
    <3>2. ~Publish(r)
      <4>1. At(r, "publish") => "publish" \in Vocabulary(kind[r])
        BY <2>1 DEF At, Told
      <4>2. kind[r] # "new"
        BY <2>1, <2>4 DEF Told
      <4> QED
        BY <4>1, <4>2 DEF Vocabulary, Publish
    <3>3. opened' \in {opened, 0}
      BY <1>1, <3>1, <3>2, Zenon DEF Start, Step, ResolveOrMintKey, Load, Install, AppendMsg, Number, Insert,
         ReplaceMessages, Ask, LastUser, Snapshot, HasSnapshot, LastTurn, Undo, SetAuthMode,
         OpenRow, Drop, Purge, DeleteRow, hist
    <3> QED
      BY <3>1, <3>3, Zenon
  <2> QED
    BY <2>2, <2>3, <2>4, Zenon DEF Commands
<1>2. ASSUME Commands, UNCHANGED vars PROVE Commands'
  <2>1. /\ UNCHANGED <<recent, archive, minted, todo, kind, key, scene, opened>> /\ State'
    BY <1>2, NextState, Zenon DEF Commands, vars, db, hist
  <2>2. Told' /\ Ordered'
    BY <1>2, <2>1, Zenon DEF Commands, Told, Ordered, At, Done, Queued
  <2>3. Serial'
    BY <1>2, <2>1, Zenon DEF Commands, Serial, Rows, Using, Gone, InFlight, At, Done
  <2> QED
    BY <1>2, <2>1, <2>2, <2>3, Zenon DEF Commands
<1> QED
  BY <1>1, <1>2, Zenon DEF Next

\* A Get that resolves finds the session opened last, or a fresher one.
LEMMA ResolvesLatest ==
    ASSUME Commands, Unmixed(scene), NEW r \in Requests, ResolveOrMintKey(r)
    PROVE  key'[r] >= opened
<1>1. State /\ Told /\ Ordered /\ Serial /\ Step(r) /\ At(r, "resolve")
  BY Zenon DEF Commands, Step, ResolveOrMintKey
<1>2. opened' = opened /\ scene' = scene
  BY Zenon DEF ResolveOrMintKey, hist
<1>3. key'[r] \in Keys /\ opened \in Nat
  BY <1>1, ResolveState, SessionAssumption DEF State, Locals, Histories
<1>4. CASE opened = 0
  BY <1>3, <1>4, SessionAssumption DEF Keys
<1>5. CASE opened # 0
  <2>1. scene.side = {}
    BY <1>5, Zenon DEF Commands, Unmixed
  <2>2. At(r, "load")' /\ kind'[r] # "delete"
    <3>1. At(r, "load")' /\ kind[r] # "delete" /\ Moves(r)
      BY <1>1, Comes, Stands, Zenon
    <3> QED
      BY <3>1, Zenon DEF Moves
  <2>3. Using(r)' /\ ~At(r, "publish")'
    BY <2>2 DEF Using, InFlight, At, Done
  <2>4. Serial'
    BY <1>1, SerialNext, Zenon
  <2>5. key'[r] = opened
    BY <1>2, <1>5, <2>1, <2>3, <2>4, Zenon DEF Serial
  <2> QED
    BY <1>3, <2>5
<1> QED
  BY <1>4, <1>5

\* When /new and the dashboard's delete come one after the other with the
\* chat's requests, or not at all: a deleted session has no row and no archive
\* from then on, and every Get after /new finds the session it opened, whatever
\* pod serves it and however many sessions come and go (manager.go:947, :474).
THEOREM CommandsHoldAlways ==
    ASSUME \A c \in Scenes : Unmixed(c) PROVE Spec => CommandsHold
<1>1. Commands => DeletedGone
  <2> SUFFICES ASSUME Commands, NEW r \in Requests, kind[r] = "delete", Done(r)
               PROVE  key[r] \notin Rows /\ archive[key[r]] = {}
    BY Zenon DEF DeletedGone
  <2>1. "delete" \in scene.kinds \cup scene.sideKinds
    BY DEF Commands, Told
  <2>2. scene \in Scenes
    BY Zenon DEF Commands, State, Histories
  <2>3. scene.side = {}
    BY <2>1, <2>2 DEF Unmixed
  <2> QED
    BY <2>3, Zenon DEF Commands, Serial, Gone
<1>2. ASSUME Commands, [Next]_vars, NEW r \in Requests, At(r, "resolve"), todo'[r] # todo[r]
      PROVE  key'[r] >= opened
  <2>1. PICK s \in Requests : Start(s) \/ Step(s)
    BY <1>2, Zenon DEF Next, vars
  <2>2. State /\ scene \in Scenes
    BY <1>2, Zenon DEF Commands, State, Histories
  <2>3. s = r
    BY <1>2, <2>1, <2>2, Started, StepMoves, Zenon DEF Moves, Alone
  <2>4. ~Start(r)
    BY <1>2 DEF Start, At
  <2>5. ResolveOrMintKey(r)
    <3>2. /\ ~At(r, "load") /\ ~At(r, "install") /\ ~At(r, "user") /\ ~At(r, "reply")
          /\ ~At(r, "number") /\ ~At(r, "insert") /\ ~At(r, "replace") /\ ~At(r, "ask")
          /\ ~At(r, "lastUser") /\ ~At(r, "snapshot") /\ ~At(r, "hasSnap") /\ ~At(r, "lastTurn")
          /\ ~At(r, "restore") /\ ~At(r, "setMode") /\ ~At(r, "open") /\ ~At(r, "publish")
          /\ ~At(r, "drop") /\ ~At(r, "purge") /\ ~At(r, "deleteRow")
      BY <1>2 DEF At
    <3>3. \A part \in {"user", "reply"} : ~At(r, part)
      BY <3>2
    <3> QED
      BY <2>1, <2>3, <2>4, <3>2, <3>3, Zenon DEF Step, Load, Install, AppendMsg, Number, Insert,
         ReplaceMessages, Ask, LastUser, Snapshot, HasSnapshot, LastTurn, Undo, SetAuthMode,
         OpenRow, Publish, Drop, Purge, DeleteRow
  <2> QED
    BY <1>2, <2>2, <2>5, ResolvesLatest, Zenon
<1>3. Commands /\ [Next]_vars =>
        [\A r \in Requests : At(r, "resolve") /\ todo'[r] # todo[r] => key'[r] >= opened]_vars
  BY <1>2, Zenon
<1> QED
  BY <1>1, <1>3, CommandsInit, CommandsNext, PTL DEF Spec, CommandsHold, NewIsActive
-----------------------------------------------------------------------------
(* A conversation with one session: one Session object on each pod *)

\* What the steps other than a Get do to the maps: nothing, or the object at
\* hand changes and stays in the mode it has.
LEMMA Rewrites ==
    ASSUME State, NEW r \in Requests, Step(r),
           ~At(r, "install"), ~At(r, "publish"), ~At(r, "drop")
    PROVE  \/ UNCHANGED <<objs, cur>> /\ ~At(r, "setMode")
           \/ /\ cur' = cur /\ idx[r] \in 1..Len(Objects(r))
              /\ \E o \in Object :
                   /\ Swapped(PodOf(r), key[r], idx[r], o)
                   /\ (Objects(r)[idx[r]].yolo \/ At(r, "setMode")) => o.yolo
<1> DEFINE p == PodOf(r)
           k == key[r]
           i == idx[r]
<1>1. ASSUME NEW op \in ObjOps, At(r, op), NEW o \in Object, cur' = cur,
             objs' = [objs EXCEPT ![p][k][i] = o],
             (Obj(r).yolo \/ op = "setMode") => o.yolo
      PROVE  /\ cur' = cur /\ idx[r] \in 1..Len(Objects(r))
             /\ \E u \in Object :
                  /\ Swapped(PodOf(r), key[r], idx[r], u)
                  /\ (Objects(r)[idx[r]].yolo \/ At(r, "setMode")) => u.yolo
  <2>1. p \in Pods /\ k \in Keys /\ i \in 1..Len(Objects(r)) /\ Maps
    BY <1>1, Mine, Zenon DEF State
  <2>2. Swapped(p, k, i, o)
    BY <1>1, <2>1, Changed, Zenon DEF Objects
  <2>3. Obj(r) = Objects(r)[i] /\ (At(r, "setMode") => op = "setMode")
    BY <1>1 DEF Obj, Objects, At
  <2> QED
    BY <1>1, <2>1, <2>2, <2>3, Zenon
<1>2. ASSUME NEW op \in {"user", "reply", "replace"}, At(r, op), cur' = cur,
             NEW ms \in Seq(Messages), SetMsgs(r, ms)
      PROVE  /\ cur' = cur /\ idx[r] \in 1..Len(Objects(r))
             /\ \E u \in Object :
                  /\ Swapped(PodOf(r), key[r], idx[r], u)
                  /\ (Objects(r)[idx[r]].yolo \/ At(r, "setMode")) => u.yolo
  <2> DEFINE o == [Obj(r) EXCEPT !.msgs = ms]
  <2>1. op \in ObjOps /\ op # "setMode"
    BY DEF ObjOps
  <2>2. Obj(r) \in Object
    BY <1>2, <2>1, Mine, Zenon
  <2>3. o \in Object /\ o.yolo = Obj(r).yolo
    BY <2>2 DEF Object
  <2>4. objs' = [objs EXCEPT ![p][k][i] = o]
    BY <1>2 DEF SetMsgs, Obj
  <2> HIDE DEF o
  <2> QED
    BY <1>1, <1>2, <2>1, <2>3, <2>4, Zenon
<1>3. CASE \/ ResolveOrMintKey(r) \/ Load(r) \/ Number(r) \/ Insert(r) \/ Ask(r) \/ LastUser(r)
           \/ HasSnapshot(r) \/ LastTurn(r) \/ OpenRow(r) \/ Purge(r) \/ DeleteRow(r)
  <2>1. UNCHANGED <<objs, cur>>
    BY <1>3, Zenon DEF ResolveOrMintKey, Load, Number, Insert, Ask, LastUser, HasSnapshot,
       LastTurn, OpenRow, Purge, DeleteRow, pods
  <2>2. ~At(r, "setMode")
    BY <1>3 DEF ResolveOrMintKey, Load, Number, Insert, Ask, LastUser, HasSnapshot,
       LastTurn, OpenRow, Purge, DeleteRow, At
  <2> QED
    BY <2>1, <2>2, Zenon
<1>4. CASE AppendMsg(r)
  <2>1. PICK part \in {"user", "reply"} :
          At(r, part) /\ cur' = cur /\ SetMsgs(r, Append(Obj(r).msgs, <<r, part>>))
    BY <1>4, Zenon DEF AppendMsg
  <2>2. Obj(r).msgs \in Seq(Messages)
    BY <2>1, Mine DEF ObjOps
  <2>3. <<r, part>> \in Messages
    BY DEF Messages
  <2>4. Append(Obj(r).msgs, <<r, part>>) \in Seq(Messages)
    BY <2>2, <2>3
  <2>5. part \in {"user", "reply", "replace"}
    OBVIOUS
  <2> QED
    BY <1>2, <2>1, <2>4, <2>5, Zenon
<1>5. CASE ReplaceMessages(r)
  <2>1. At(r, "replace") /\ cur' = cur /\ SetMsgs(r, got[r])
    BY <1>5, Zenon DEF ReplaceMessages
  <2>2. got[r] \in Seq(Messages)
    BY <2>1, Mine DEF GotOps
  <2>3. "replace" \in {"user", "reply", "replace"}
    OBVIOUS
  <2> QED
    BY <1>2, <2>1, <2>2, <2>3, Zenon
<1>6. CASE Snapshot(r)
  <2> DEFINE o == [Obj(r) EXCEPT !.snap = Obj(r).msgs]
  <2>1. At(r, "snapshot") /\ "snapshot" \in ObjOps /\ "snapshot" # "setMode" /\ cur' = cur
    BY <1>6 DEF ObjOps, Snapshot
  <2>2. Obj(r) \in Object /\ Obj(r).msgs \in Seq(Messages)
    BY <2>1, Mine, Zenon
  <2>3. o \in Object /\ o.yolo = Obj(r).yolo
    BY <2>2 DEF Object
  <2>4. objs' = [objs EXCEPT ![p][k][i] = o]
    BY <1>6 DEF Snapshot, Obj
  <2> HIDE DEF o
  <2> QED
    BY <1>1, <2>1, <2>3, <2>4, Zenon
<1>7. CASE Undo(r)
  <2> DEFINE o == [Obj(r) EXCEPT !.msgs = Obj(r).snap, !.snap = NoSnap]
  <2>1. At(r, "restore") /\ "restore" \in ObjOps /\ "restore" # "setMode" /\ cur' = cur
    BY <1>7 DEF ObjOps, Undo
  <2>2. Obj(r) \in Object
    BY <2>1, Mine, Zenon
  <2>3. CASE Obj(r).snap = NoSnap
    <3>1. objs' = objs /\ ~At(r, "setMode")
      BY <1>7, <2>1, <2>3 DEF Undo, At
    <3> QED
      BY <2>1, <3>1, Zenon
  <2>4. CASE Obj(r).snap # NoSnap
    <3>1. o \in Object /\ o.yolo = Obj(r).yolo
      <4>1. Obj(r).snap \in Seq(Messages)
        BY <2>2, <2>4 DEF Object
      <4> QED
        BY <2>2, <4>1 DEF Object
    <3>2. objs' = [objs EXCEPT ![p][k][i] = o]
      BY <1>7, <2>4 DEF Undo, Obj
    <3> HIDE DEF o
    <3> QED
      BY <1>1, <2>1, <3>1, <3>2, Zenon
  <2> QED
    BY <2>3, <2>4, Zenon
<1>8. CASE SetAuthMode(r)
  <2> DEFINE o == [Obj(r) EXCEPT !.yolo = TRUE]
  <2>1. At(r, "setMode") /\ "setMode" \in ObjOps /\ cur' = cur
    BY <1>8 DEF ObjOps, SetAuthMode
  <2>2. Obj(r) \in Object
    BY <2>1, Mine, Zenon
  <2>3. o \in Object /\ o.yolo
    BY <2>2 DEF Object
  <2>4. objs' = [objs EXCEPT ![p][k][i] = o]
    BY <1>8 DEF SetAuthMode, Obj
  <2> HIDE DEF o
  <2> QED
    BY <1>1, <2>1, <2>3, <2>4, Zenon
<1>9. ~Install(r) /\ ~Publish(r) /\ ~Drop(r)
  BY Zenon DEF Install, Publish, Drop
<1> QED
  BY <1>3, <1>4, <1>5, <1>6, <1>7, <1>8, <1>9, Zenon DEF Step

\* A Get takes the object of the map, or makes the first one.
LEMMA Installs ==
    ASSUME State, NEW r \in Requests, Install(r)
    PROVE  LET p == PodOf(r)  k == key[r]  c == cur[p][k] IN
           \/ /\ c = 0 /\ idx'[r] = Len(objs[p][k]) + 1
              /\ \E o \in Object : Grown(p, k, o)
           \/ /\ c \in 1..Len(objs[p][k]) /\ idx'[r] = c /\ cur' = cur
              /\ \/ objs' = objs
                 \/ \E o \in Object : Swapped(p, k, c, o) /\ (objs[p][k][c].yolo => o.yolo)
<1> DEFINE p == PodOf(r)
           k == key[r]
           c == cur[p][k]
           read == IF got[r] = NoRow THEN <<>> ELSE got[r]
           new == [Blank EXCEPT !.msgs = read]
           n == Len(objs[p][k]) + 1
<1>1. p \in Pods /\ k \in Keys /\ objs[p][k] \in Seq(Object) /\ c \in Nat /\ c <= Len(objs[p][k])
  BY Mine DEF Objects, State, Maps
<1>2. CASE /\ c = 0 /\ objs' = [objs EXCEPT ![p][k] = Append(@, new)]
           /\ cur' = [cur EXCEPT ![p][k] = n] /\ idx' = [idx EXCEPT ![r] = n]
  <2>1. new \in Object
    <3>1. read \in Seq(Messages)
      BY DEF State, Locals
    <3> HIDE DEF read
    <3> QED
      BY <3>1 DEF Object, Blank
  <2> HIDE DEF new
  <2>2. Grown(p, k, new)
    BY <1>1, <1>2, <2>1, Created, Zenon DEF State
  <2>3. idx'[r] = n
    BY <1>2 DEF State, Locals
  <2> QED
    BY <1>2, <2>1, <2>2, <2>3, Zenon
<1>3. CASE /\ c # 0 /\ cur' = cur /\ idx' = [idx EXCEPT ![r] = c]
           /\ objs' = IF got[r] = NoRow THEN objs ELSE [objs EXCEPT ![p][k][c].msgs = got[r]]
  <2>1. c \in 1..Len(objs[p][k]) /\ idx'[r] = c
    BY <1>1, <1>3 DEF State, Locals
  <2>2. CASE got[r] = NoRow
    BY <1>3, <2>1, <2>2, Zenon
  <2>3. CASE got[r] # NoRow
    <3> DEFINE o == [objs[p][k][c] EXCEPT !.msgs = got[r]]
    <3>1. objs[p][k][c] \in Object /\ got[r] \in Seq(Messages)
      BY <1>1, <2>1, <2>3 DEF State, Locals
    <3>2. o \in Object /\ o.yolo = objs[p][k][c].yolo
      BY <3>1 DEF Object
    <3>3. objs' = [objs EXCEPT ![p][k][c] = o]
      BY <1>3, <2>3
    <3> HIDE DEF o
    <3>4. Swapped(p, k, c, o)
      BY <1>1, <1>3, <2>1, <3>2, <3>3, Changed, Zenon DEF State
    <3> QED
      BY <1>3, <2>1, <3>2, <3>4, Zenon
  <2> QED
    BY <2>2, <2>3, Zenon
<1> QED
  BY <1>2, <1>3, Zenon DEF Install

\* The conversation has a row, and keeps that one.
Steady(c) == ~c.fresh /\ {"new", "delete"} \cap (c.kinds \cup c.sideKinds) = {}

\* /yolo is still to come; the object of the pod is in that mode.
Pending(q) == \E i \in 1..Len(todo[q]) : todo[q][i] = "setMode"
Yolo(p) == Len(objs[p][1]) = 1 /\ objs[p][1][1].yolo

OneSession ==
    Steady(scene) =>
        /\ Rows = {1} /\ recent # <<>>
        /\ \A r \in Requests : key[r] = 1
        /\ \A p \in Pods : cur[p][1] = Len(objs[p][1]) /\ Len(objs[p][1]) <= 1
        /\ \A q \in Requests : kind[q] = "yolo" => (Pending(q) \/ Yolo(PodOf(q)))

LEMMA OneInit == Init => OneSession
<1> SUFFICES ASSUME Init, Steady(scene) PROVE OneSession
  BY DEF OneSession
<1>1. Rows = {1} /\ recent # <<>> /\ \A r \in Requests : key[r] = 1
  BY DEF Init, Steady, Rows, ToSet
<1>2. 1 \in Keys
  BY SessionAssumption DEF Keys
<1>3. \A p \in Pods : cur[p][1] = Len(objs[p][1]) /\ Len(objs[p][1]) <= 1
  BY <1>2 DEF Init
<1>4. \A q \in Requests : kind[q] # "yolo"
  BY DEF Init
<1> QED
  BY <1>1, <1>3, <1>4, Zenon DEF OneSession

\* The script of /yolo has the step that sets the mode, and no step that skips.
LEMMA YoloScript ==
    \E i \in 1..Len(Script("yolo")) : Script("yolo")[i] = "setMode"
<1> DEFINE Sets(s) == s \in Seq(Ops) /\ Len(s) >= 7 /\ s[7] = "setMode"
<1>1. ASSUME NEW s, Sets(s), NEW t \in Seq(Ops) PROVE Sets(s \o t)
  BY <1>1, ConcatProperties
<1>2. Get \in Seq(Ops) /\ Say("user") \in Seq(Ops) /\ Say("reply") \in Seq(Ops)
  BY Pieces, Zenon DEF Piece, Chain
<1>3. Sets(Get \o (Get \o <<"setMode">>))
  BY DEF Get, GetByKey, Ops
<1> HIDE DEF Sets
<1>4. Sets((((Get \o (Get \o <<"setMode">>)) \o Get) \o Say("user")) \o Say("reply"))
  <2> DEFINE a == Get \o (Get \o <<"setMode">>)
             b == a \o Get
             c == b \o Say("user")
  <2>1. Sets(b)
    BY <1>1, <1>2, <1>3, Zenon
  <2>2. Sets(c)
    <3> HIDE DEF b
    <3> QED
      BY <1>1, <1>2, <2>1, Zenon
  <2> HIDE DEF c
  <2>3. Sets(c \o Say("reply"))
    BY <1>1, <1>2, <2>2, Zenon
  <2> QED
    BY <2>3, Zenon DEF c
<1>5. Script("yolo") = (((Get \o (Get \o <<"setMode">>)) \o Get) \o Say("user")) \o Say("reply")
  BY DEF Script, Slash
<1>6. ASSUME NEW s, Sets(s) PROVE \E i \in 1..Len(s) : s[i] = "setMode"
  <2>1. 7 \in 1..Len(s) /\ s[7] = "setMode"
    BY <1>6 DEF Sets
  <2> QED
    BY <2>1, Zenon
<1> QED
  BY <1>4, <1>5, <1>6, Zenon

\* In such a conversation no session is opened or deleted.
LEMMA SteadySteps ==
    ASSUME State, Told, Steady(scene), NEW r \in Requests
    PROVE  /\ ~At(r, "open") /\ ~At(r, "publish")
           /\ ~At(r, "drop") /\ ~At(r, "purge") /\ ~At(r, "deleteRow")
<1>1. kind[r] # "new" /\ kind[r] # "delete"
  BY DEF Told, Steady
<1>2. \A op \in Ops : At(r, op) => op \in Vocabulary(kind[r])
  BY DEF At, Told
<1>3. ~At(r, "open") /\ ~At(r, "publish")
  BY <1>1, <1>2 DEF Vocabulary, Ops
<1>4. ~At(r, "drop") /\ ~At(r, "purge") /\ ~At(r, "deleteRow")
  BY <1>1 DEF At, Told
<1> QED
  BY <1>3, <1>4, Zenon

\* A step keeps the one object of each pod, and the mode it is in.
LEMMA OneMaps ==
    ASSUME State, Told, OneSession, Steady(scene), NEW r \in Requests, Step(r)
    PROVE  /\ \A p \in Pods : cur'[p][1] = Len(objs'[p][1]) /\ Len(objs'[p][1]) <= 1
           /\ \A p \in Pods : Yolo(p) => Yolo(p)'
           /\ At(r, "setMode") => Yolo(PodOf(r))'
<1> DEFINE P == PodOf(r)
<1>1. P \in Pods /\ 1 \in Keys /\ key[r] = 1 /\ Objects(r) = objs[P][1]
  BY Mine, SessionAssumption DEF OneSession, Keys, Objects
<1>2. \A p \in Pods : /\ cur[p][1] = Len(objs[p][1]) /\ Len(objs[p][1]) <= 1
                      /\ Len(objs[p][1]) \in Nat
  BY <1>1 DEF OneSession, State, Maps
<1> HIDE DEF P
<1>3. ASSUME NEW i, i \in 1..Len(objs[P][1]), cur' = cur, NEW o \in Object,
             Swapped(P, 1, i, o), objs[P][1][i].yolo => o.yolo
      PROVE  /\ \A p \in Pods : cur'[p][1] = Len(objs'[p][1]) /\ Len(objs'[p][1]) <= 1
             /\ \A p \in Pods : Yolo(p) => Yolo(p)'
             /\ o.yolo => Yolo(P)'
  <2>1. i = 1 /\ Len(objs[P][1]) = 1
    <3>1. Len(objs[P][1]) \in Nat /\ Len(objs[P][1]) <= 1
      BY <1>1, <1>2, Zenon
    <3>2. \A n \in Nat : n <= 1 => \A j \in 1..n : j = 1 /\ n = 1
      OBVIOUS
    <3> QED
      BY <1>3, <3>1, <3>2, Zenon
  <2>2. \A p \in Pods : Len(objs'[p][1]) = Len(objs[p][1])
    BY <1>1, <1>3, Zenon DEF Swapped
  <2>3. objs'[P][1][1] = o /\ \A p \in Pods : p # P => objs'[p][1] = objs[p][1]
    BY <1>1, <1>3, <2>1, Zenon DEF Swapped
  <2>4. \A p \in Pods : cur'[p][1] = Len(objs'[p][1]) /\ Len(objs'[p][1]) <= 1
    BY <1>2, <1>3, <2>2, Zenon
  <2>5. ASSUME NEW p \in Pods, Yolo(p) PROVE Yolo(p)'
    <3>1. CASE p = P
      BY <1>3, <2>1, <2>2, <2>3, <2>5, <3>1, Zenon DEF Yolo
    <3>2. CASE p # P
      BY <2>3, <2>5, <3>2, Zenon DEF Yolo
    <3> QED
      BY <3>1, <3>2, Zenon
  <2>6. o.yolo => Yolo(P)'
    <3>1. Len(objs'[P][1]) = 1
      BY <1>1, <2>1, <2>2, Zenon
    <3>2. P' = P
      BY StepMoves, Zenon DEF P, PodOf, Moves
    <3> QED
      BY <2>3, <3>1, <3>2, Zenon DEF Yolo
  <2> QED
    BY <2>4, <2>5, <2>6, Zenon
<1>4. ASSUME objs' = objs, cur' = cur
      PROVE  /\ \A p \in Pods : cur'[p][1] = Len(objs'[p][1]) /\ Len(objs'[p][1]) <= 1
             /\ \A p \in Pods : Yolo(p) => Yolo(p)'
  BY <1>2, <1>4, Zenon DEF Yolo
<1>5. CASE Install(r)
  <2>1. ~At(r, "setMode")
    BY <1>5 DEF Install, At
  <2>2. \/ cur[P][1] = 0 /\ \E o \in Object : Grown(P, 1, o)
        \/ /\ cur[P][1] \in 1..Len(objs[P][1]) /\ cur' = cur
           /\ \/ objs' = objs
              \/ \E o \in Object : /\ Swapped(P, 1, cur[P][1], o)
                                   /\ objs[P][1][cur[P][1]].yolo => o.yolo
    BY <1>1, <1>5, Installs, Zenon DEF P
  <2>3. CASE cur[P][1] = 0 /\ \E o \in Object : Grown(P, 1, o)
    <3>1. Len(objs[P][1]) = 0
      BY <1>1, <1>2, <2>3
    <3>2. Len(objs'[P][1]) = 1 /\ cur'[P][1] = 1 /\ ~Yolo(P)
      BY <2>3, <3>1 DEF Grown, Yolo
    <3>3. \A p \in Pods : p # P => objs'[p][1] = objs[p][1] /\ cur'[p][1] = cur[p][1]
      BY <1>1, <2>3, Zenon DEF Grown
    <3>4. ASSUME NEW p \in Pods PROVE cur'[p][1] = Len(objs'[p][1]) /\ Len(objs'[p][1]) <= 1
      <4>0. 1 <= 1
        OBVIOUS
      <4>1. CASE p = P
        BY <3>2, <4>0, <4>1, Zenon
      <4>2. CASE p # P
        BY <1>2, <3>3, <4>2, Zenon
      <4> QED
        BY <4>1, <4>2, Zenon
    <3> QED
      BY <2>1, <3>2, <3>3, <3>4, Zenon DEF Yolo
  <2> QED
    BY <1>3, <1>4, <2>1, <2>2, <2>3, Zenon
<1>6. CASE ~Install(r)
  <2>1. ~At(r, "install") /\ ~At(r, "publish") /\ ~At(r, "drop")
    <3>1. ~At(r, "install")
      <4>1. /\ ~At(r, "resolve") /\ ~At(r, "load") /\ ~At(r, "user") /\ ~At(r, "reply")
            /\ ~At(r, "number") /\ ~At(r, "insert") /\ ~At(r, "replace") /\ ~At(r, "ask")
            /\ ~At(r, "lastUser") /\ ~At(r, "snapshot") /\ ~At(r, "hasSnap")
            /\ ~At(r, "lastTurn") /\ ~At(r, "restore") /\ ~At(r, "setMode") /\ ~At(r, "open")
            /\ ~At(r, "publish") /\ ~At(r, "drop") /\ ~At(r, "purge") /\ ~At(r, "deleteRow")
            /\ \A part \in {"user", "reply"} : ~At(r, part)
            \/ ~At(r, "install")
        BY DEF At
      <4> QED
        BY <1>6, <4>1, Zenon DEF Step, ResolveOrMintKey, Load, AppendMsg, Number, Insert,
           ReplaceMessages, Ask, LastUser, Snapshot, HasSnapshot, LastTurn, Undo, SetAuthMode,
           OpenRow, Publish, Drop, Purge, DeleteRow
    <3> QED
      BY <3>1, SteadySteps, Zenon
  <2>2. \/ UNCHANGED <<objs, cur>> /\ ~At(r, "setMode")
        \/ /\ cur' = cur /\ idx[r] \in 1..Len(objs[P][1])
           /\ \E o \in Object :
                /\ Swapped(P, 1, idx[r], o)
                /\ (objs[P][1][idx[r]].yolo \/ At(r, "setMode")) => o.yolo
    BY <1>1, <2>1, Rewrites, Zenon DEF P
  <2> QED
    BY <1>3, <1>4, <2>2, Zenon DEF P
<1> QED
  BY <1>5, <1>6, Zenon

LEMMA OneNext ==
    ASSUME State, Told, OneSession, NEW r \in Requests, Start(r) \/ Step(r)
    PROVE  OneSession'
<1>1. scene' = scene /\ Alone(r)
  BY Started, StepMoves, Zenon DEF Moves
<1> SUFFICES ASSUME Steady(scene) PROVE OneSession'
  BY <1>1, Zenon DEF OneSession
<1>2. Rows = {1} /\ recent # <<>> /\ \A q \in Requests : key[q] = 1
  BY Zenon DEF OneSession
<1>3. ASSUME NEW q \in Requests \ {r}
      PROVE  kind'[q] = kind[q] /\ todo'[q] = todo[q] /\ key'[q] = 1
  <2>1. kind'[q] = kind[q] /\ todo'[q] = todo[q] /\ key'[q] = key[q]
    BY <1>1, Zenon DEF Alone
  <2> QED
    BY <1>2, <2>1, Zenon
<1>b. ASSUME \A p \in Pods : Yolo(p) => Yolo(p)', NEW q \in Requests \ {r}, kind'[q] = "yolo"
      PROVE  Pending(q)' \/ Yolo(PodOf(q))'
  <2>1. Pending(q) \/ Yolo(PodOf(q))
    BY <1>3, <1>b, Zenon DEF OneSession
  <2>2. Pending(q)' = Pending(q)
    BY <1>3, Zenon DEF Pending
  <2>3. PodOf(q)' = PodOf(q) /\ PodOf(q) \in Pods
    BY <1>1, Mine, Zenon DEF PodOf
  <2> QED
    BY <1>b, <2>1, <2>2, <2>3, Zenon DEF Yolo
<1>a. \A q \in Requests : PodOf(q)' = PodOf(q) /\ PodOf(q) \in Pods
  BY <1>1, Mine, Zenon DEF PodOf
<1>4. CASE Start(r)
  <2>1. UNCHANGED <<recent, objs, cur>>
    BY <1>4, Started, Zenon DEF db, pods
  <2>2. PICK k \in Kinds :
          /\ kind'[r] = k /\ todo'[r] = Script(k) /\ k \in scene.kinds \cup scene.sideKinds
          /\ IF k = "delete" THEN key'[r] \in Rows ELSE key' = key
    BY <1>4, Started, Zenon
  <2>3. key'[r] = 1
    BY <1>2, <2>2 DEF Steady
  <2>4. kind'[r] = "yolo" => Pending(r)'
    BY <2>2, YoloScript, Zenon DEF Pending
  <2>a. \A p \in Pods : Yolo(p) => Yolo(p)'
    BY <2>1, Zenon DEF Yolo
  <2>5. \A q \in Requests \ {r} : kind'[q] = "yolo" => (Pending(q)' \/ Yolo(PodOf(q))')
    BY <1>b, <2>a, Zenon
  <2>6. Rows' = {1} /\ recent' # <<>>
    BY <1>2, <2>1, Zenon DEF Rows
  <2>7. \A p \in Pods : cur'[p][1] = Len(objs'[p][1]) /\ Len(objs'[p][1]) <= 1
    BY <2>1, Zenon DEF OneSession
  <2> QED
    BY <1>3, <2>3, <2>4, <2>5, <2>6, <2>7, Zenon DEF OneSession
<1>5. CASE Step(r)
  <2>0. ~OpenRow(r) /\ ~Publish(r) /\ ~Drop(r) /\ ~Purge(r) /\ ~DeleteRow(r)
    BY SteadySteps, Zenon DEF OpenRow, Publish, Drop, Purge, DeleteRow
  <2>1. /\ \A p \in Pods : cur'[p][1] = Len(objs'[p][1]) /\ Len(objs'[p][1]) <= 1
        /\ \A p \in Pods : Yolo(p) => Yolo(p)'
        /\ At(r, "setMode") => Yolo(PodOf(r))'
    BY <1>5, OneMaps, Zenon
  <2>2. Rows' = {1} /\ recent' # <<>>
    <3>1. CASE AppendMsg(r) \/ ReplaceMessages(r)
      <4>1. Touch(key[r]) /\ key[r] \in Keys
        BY <3>1, Mine, Zenon DEF AppendMsg, ReplaceMessages, SaveSession
      <4>2. Rows' = Rows \cup {key[r]} /\ recent' # <<>>
        BY <4>1, Touched, Zenon DEF State
      <4> QED
        BY <1>2, <4>2
    <3>2. CASE ~AppendMsg(r) /\ ~ReplaceMessages(r)
      <4>1. recent' = recent
        BY <1>5, <2>0, <3>2, Zenon DEF Step, ResolveOrMintKey, Load, Install, Number, Insert, Ask,
           LastUser, Snapshot, HasSnapshot, LastTurn, Undo, SetAuthMode, db
      <4> QED
        BY <1>2, <4>1, Zenon DEF Rows
    <3> QED
      BY <3>1, <3>2, Zenon
  <2>3. key'[r] = 1
    <3>1. CASE ResolveOrMintKey(r)
      <4>1. key'[r] = Head(recent)
        BY <1>2, <3>1 DEF ResolveOrMintKey, State, Locals
      <4> QED
        BY <1>2, <1>5, <4>1, Stands
    <3>2. CASE ~ResolveOrMintKey(r)
      <4>1. key' = key
        BY <1>5, <2>0, <3>2, Zenon DEF Step, Load, Install, AppendMsg, Number, Insert,
           ReplaceMessages, Ask, LastUser, Snapshot, HasSnapshot, LastTurn, Undo, SetAuthMode
      <4> QED
        BY <1>2, <4>1, Zenon
    <3> QED
      BY <3>1, <3>2, Zenon
  <2>4. ASSUME kind'[r] = "yolo" PROVE Pending(r)' \/ Yolo(PodOf(r))'
    <3>1. kind[r] = "yolo" /\ todo[r] # <<>> /\ todo[r] \in Seq(Ops)
      BY <1>5, <2>4, StepMoves, Zenon DEF Moves, InFlight, Done, State, Paths
    <3>2. todo'[r] = Tail(todo[r])
      <4>1. /\ ~At(r, "ask") /\ ~At(r, "lastUser") /\ ~At(r, "lastTurn") /\ ~At(r, "hasSnap")
        <5>1. Head(todo[r]) \in Vocabulary("yolo")
          BY <3>1 DEF Told
        <5>2. Head(todo[r]) \notin {"ask", "lastUser", "lastTurn", "hasSnap"}
          BY <5>1 DEF Vocabulary
        <5> QED
          BY <5>2 DEF At
      <4>2. Next1(r)
        BY <1>5, <2>0, <4>1, Zenon DEF Step, ResolveOrMintKey, Load, Install, AppendMsg, Number,
           Insert, ReplaceMessages, Ask, LastUser, Snapshot, HasSnapshot, LastTurn, Undo, SetAuthMode
      <4> QED
        BY <4>2 DEF Next1, State, Paths
    <3>3. CASE Pending(r) /\ ~At(r, "setMode")
      <4>1. PICK i \in 1..Len(todo[r]) : todo[r][i] = "setMode"
        BY <3>3, Zenon DEF Pending
      <4>2. i # 1
        BY <3>1, <3>3, <4>1 DEF At
      <4>3. i - 1 \in 1..Len(todo'[r]) /\ todo'[r][i - 1] = "setMode"
        BY <3>1, <3>2, <4>1, <4>2
      <4> QED
        BY <4>3, Zenon DEF Pending
    <3>4. CASE Pending(r) /\ At(r, "setMode")
      BY <2>1, <3>4, Zenon
    <3>5. CASE ~Pending(r)
      BY <1>a, <2>1, <3>1, <3>5, Zenon DEF OneSession, Yolo
    <3> QED
      BY <3>3, <3>4, <3>5, Zenon
  <2>5. \A q \in Requests \ {r} : kind'[q] = "yolo" => (Pending(q)' \/ Yolo(PodOf(q))')
    BY <1>b, <2>1, Zenon
  <2> QED
    BY <1>3, <2>1, <2>2, <2>3, <2>4, <2>5, Zenon DEF OneSession
<1> QED
  BY <1>4, <1>5, Zenon

\* The scenes in which a request cannot meet a Session object that another one
\* of the pod does not have: the conversation keeps its session, or its requests
\* come one by one and none is /yolo.
Common(c) ==
    \/ Steady(c)
    \/ c.side = {} /\ "yolo" \notin c.kinds \cup c.sideKinds

Shared == State /\ Told /\ Ordered /\ OneSession

LEMMA SharedNext == Shared /\ [Next]_vars => Shared'
<1>1. ASSUME Shared, NEW r \in Requests, Start(r) \/ Step(r) PROVE Shared'
  <2>1. [Next]_vars
    BY <1>1, Zenon DEF Next
  <2> QED
    BY <1>1, <2>1, NextState, ToldNext, OrderedNext, OneNext, Zenon DEF Shared
<1>2. ASSUME Shared, UNCHANGED vars PROVE Shared'
  <2>1. UNCHANGED <<recent, objs, cur, todo, kind, key, scene>> /\ State'
    BY <1>2, NextState, Zenon DEF Shared, vars, db, pods, hist
  <2>2. Told' /\ Ordered'
    BY <1>2, <2>1, Zenon DEF Shared, Told, Ordered, At, Done, Queued
  <2>3. OneSession'
    BY <1>2, <2>1, Zenon DEF Shared, OneSession, Rows, Pending, Yolo, PodOf
  <2> QED
    BY <2>1, <2>2, <2>3, Zenon DEF Shared
<1> QED
  BY <1>1, <1>2, Zenon DEF Next

\* The request at work on a pod's only object.
LEMMA SameOne ==
    ASSUME Shared, Steady(scene), NEW r \in Requests, NEW op \in ObjOps, At(r, op)
    PROVE  /\ key[r] = 1 /\ idx[r] = 1 /\ PodOf(r) \in Pods
           /\ cur[PodOf(r)][1] = 1 /\ Len(objs[PodOf(r)][1]) = 1
<1>1. /\ key[r] = 1 /\ PodOf(r) \in Pods /\ 1 \in Keys
      /\ idx[r] \in 1..Len(objs[PodOf(r)][1])
  <2>1. idx[r] \in 1..Len(Objects(r)) /\ PodOf(r) \in Pods /\ key[r] \in Keys
    BY Mine, Zenon DEF Shared
  <2>2. key[r] = 1
    BY Zenon DEF Shared, OneSession
  <2> QED
    BY <2>1, <2>2, Zenon DEF Objects
<1>2. /\ cur[PodOf(r)][1] = Len(objs[PodOf(r)][1]) /\ Len(objs[PodOf(r)][1]) <= 1
      /\ Len(objs[PodOf(r)][1]) \in Nat
  <2>1. Len(objs[PodOf(r)][1]) \in Nat
    BY <1>1 DEF Shared, State, Maps
  <2> QED
    BY <1>1, <2>1, Zenon DEF Shared, OneSession
<1>3. \A n \in Nat : n <= 1 => \A j \in 1..n : j = 1 /\ n = 1
  OBVIOUS
<1> QED
  BY <1>1, <1>2, <1>3, Zenon

\* Requests of one pod mean the same Session object: /yolo is in force for every
\* turn that asks the model after it, and the Get of a steer probe lands on the
\* object the running turn of its pod holds (manager.go:65, loop.go:561).
THEOREM SameObjectHolds ==
    ASSUME \A c \in Scenes : Common(c) PROVE Spec => SameObject
<1>1. Shared => ModeHolds
  <2> SUFFICES ASSUME Shared, NEW r \in Requests, NEW q \in Requests,
                      At(r, "ask"), kind[q] = "yolo", Done(q), PodOf(q) = PodOf(r)
               PROVE  Obj(r).yolo
    BY Zenon DEF ModeHolds
  <2>1. Steady(scene)
    <3>1. "yolo" \in scene.kinds \cup scene.sideKinds
      BY DEF Shared, Told
    <3> QED
      BY <3>1, Zenon DEF Common, Shared, State, Histories
  <2>2. key[r] = 1 /\ idx[r] = 1
    BY <2>1, SameOne, Zenon DEF ObjOps
  <2>3. ~Pending(q)
    BY DEF Pending, Done
  <2>4. Yolo(PodOf(q))
    BY <2>1, <2>3, Zenon DEF Shared, OneSession
  <2> QED
    BY <2>2, <2>4, Zenon DEF Yolo, Obj
<1>2. ASSUME Shared, [Next]_vars, NEW s \in Requests, NEW t \in Requests,
             kind[s] = "peek", At(s, "install"), todo'[s] = <<>>,
             kind[t] = "turn", PodOf(t) = PodOf(s),
             \/ At(t, "user") \/ At(t, "number") \/ At(t, "insert")
             \/ At(t, "ask") \/ At(t, "replace") \/ At(t, "reply")
      PROVE  key[s] = key[t] /\ idx'[s] = idx[t]
  <2>1. PICK op \in ObjOps : At(t, op)
    BY <1>2 DEF ObjOps
  <2>2. CASE ~Steady(scene)
    <3>1. scene.side = {}
      <4>1. scene \in Scenes
        BY <1>2, Zenon DEF Shared, State, Histories
      <4> QED
        BY <2>2, <4>1, Zenon DEF Common
    <3>2. InFlight(s) /\ InFlight(t)
      BY <1>2 DEF InFlight, At, Done
    <3>3. s = t
      BY <1>2, <3>1, <3>2, TheOnly, Zenon DEF Shared
    <3> QED
      BY <1>2, <3>3
  <2>3. CASE Steady(scene)
    <3>1. /\ key[t] = 1 /\ idx[t] = 1
          /\ cur[PodOf(s)][1] = 1 /\ Len(objs[PodOf(s)][1]) = 1
      BY <1>2, <2>1, <2>3, SameOne, Zenon
    <3>2. key[s] = 1
      BY <1>2, <2>3, Zenon DEF Shared, OneSession
    <3>3. PICK r \in Requests : Start(r) \/ Step(r)
      <4>1. todo'[s] # todo[s]
        BY <1>2, Zenon DEF At
      <4> QED
        BY <1>2, <4>1, Zenon DEF Next, vars
    <3>4. r = s
      <4>1. Alone(r) /\ todo'[s] # todo[s]
        BY <1>2, <3>3, Started, StepMoves, Zenon DEF Shared, Moves, At
      <4> QED
        BY <4>1, Zenon DEF Alone
    <3>5. Install(s)
      <4>1. /\ ~At(s, "resolve") /\ ~At(s, "load") /\ ~At(s, "user") /\ ~At(s, "reply")
            /\ ~At(s, "number") /\ ~At(s, "insert") /\ ~At(s, "replace") /\ ~At(s, "ask")
            /\ ~At(s, "lastUser") /\ ~At(s, "snapshot") /\ ~At(s, "hasSnap")
            /\ ~At(s, "lastTurn") /\ ~At(s, "restore") /\ ~At(s, "setMode") /\ ~At(s, "open")
            /\ ~At(s, "publish") /\ ~At(s, "drop") /\ ~At(s, "purge") /\ ~At(s, "deleteRow")
            /\ ~At(s, "start") /\ \A part \in {"user", "reply"} : ~At(s, part)
        BY <1>2 DEF At
      <4> QED
        BY <3>3, <3>4, <4>1, Zenon DEF Start, Step, ResolveOrMintKey, Load, AppendMsg, Number,
           Insert, ReplaceMessages, Ask, LastUser, Snapshot, HasSnapshot, LastTurn, Undo,
           SetAuthMode, OpenRow, Publish, Drop, Purge, DeleteRow
    <3>6. \/ cur[PodOf(s)][1] = 0
          \/ idx'[s] = cur[PodOf(s)][1]
      BY <1>2, <3>2, <3>5, Installs, Zenon DEF Shared
    <3> QED
      BY <3>1, <3>2, <3>6
  <2> QED
    BY <2>2, <2>3, Zenon
<1>3. Shared /\ [Next]_vars =>
        [\A s, t \in Requests :
           (/\ kind[s] = "peek" /\ At(s, "install") /\ todo'[s] = <<>>
            /\ kind[t] = "turn" /\ PodOf(t) = PodOf(s)
            /\ At(t, "user") \/ At(t, "number") \/ At(t, "insert")
                 \/ At(t, "ask") \/ At(t, "replace") \/ At(t, "reply"))
              => key[s] = key[t] /\ idx'[s] = idx[t]]_vars
  BY <1>2, Zenon
<1>4. Init => Shared
  BY InitState, ToldInit, OrderedInit, OneInit, Zenon DEF Shared
<1> QED
  BY <1>1, <1>3, <1>4, SharedNext, PTL DEF Spec, SameObject, SteerFindsTurn
-----------------------------------------------------------------------------
(* History *)

\* The messages of an array, after a cut, an addition and a compression.
LEMMA Cuts ==
    ASSUME NEW s \in Seq(Messages), NEW a \in Int, NEW b \in Int, 1 <= a, b <= Len(s)
    PROVE  SubSeq(s, a, b) \in Seq(Messages) /\ ToSet(SubSeq(s, a, b)) \subseteq ToSet(s)
<1> DEFINE t == SubSeq(s, a, b)
<1>1. t \in Seq(Messages) /\ \A i \in 1..Len(t) : (a + i) - 1 \in 1..Len(s) /\ t[i] = s[(a + i) - 1]
  OBVIOUS
<1> HIDE DEF t
<1>2. \A i \in DOMAIN t : \E j \in DOMAIN s : t[i] = s[j]
  <2>1. DOMAIN t = 1..Len(t) /\ DOMAIN s = 1..Len(s)
    BY <1>1
  <2> QED
    BY <1>1, <2>1, Zenon
<1> QED
  BY <1>1, <1>2 DEF ToSet, t

LEMMA Adds ==
    ASSUME NEW s \in Seq(Messages), NEW m \in Messages
    PROVE  /\ Append(s, m) \in Seq(Messages) /\ Append(s, m) # <<>> /\ Last(Append(s, m)) = m
           /\ ToSet(Append(s, m)) = ToSet(s) \cup {m}
<1> DEFINE t == Append(s, m)
<1>1. t \in Seq(Messages) /\ Len(t) = Len(s) + 1 /\ t[Len(s) + 1] = m
      /\ \A i \in 1..Len(s) : t[i] = s[i]
  OBVIOUS
<1> HIDE DEF t
<1>2. \A i \in DOMAIN t : t[i] \in ToSet(s) \cup {m}
  BY <1>1 DEF ToSet
<1>3. \A i \in DOMAIN s : \E j \in DOMAIN t : t[j] = s[i]
  BY <1>1
<1>4. \E j \in DOMAIN t : t[j] = m
  BY <1>1
<1>5. t # <<>> /\ Last(t) = m
  BY <1>1 DEF Last
<1> QED
  BY <1>1, <1>2, <1>3, <1>4, <1>5 DEF ToSet, t

LEMMA Compresses ==
    ASSUME NEW s \in Seq(Messages), Len(s) > PruneTurnAge
    PROVE  /\ Compressed(s) \in Seq(Messages) /\ Compressed(s) # <<>>
           /\ Last(Compressed(s)) = Last(s)
           /\ ToSet(Compressed(s)) \subseteq ToSet(s) \cup {Summary}
<1> DEFINE a == (Len(s) - PruneTurnAge) + 1
           u == SubSeq(s, a, Len(s))
           t == <<Summary>> \o u
<1>0. PruneTurnAge \in Nat \ {0} /\ Summary \in Messages
  BY SessionAssumption DEF Messages
<1>1. a \in Int /\ 1 <= a /\ Len(s) \in Int
  BY <1>0
<1>2. u \in Seq(Messages) /\ ToSet(u) \subseteq ToSet(s)
  BY <1>1, Cuts
<1>3. Len(u) = PruneTurnAge /\ u[PruneTurnAge] = s[Len(s)]
  BY <1>0, <1>1
<1> HIDE DEF u
<1>4. /\ t \in Seq(Messages) /\ Len(t) = 1 + Len(u)
      /\ \A i \in 1..(1 + Len(u)) : t[i] = IF i <= 1 THEN Summary ELSE u[i - 1]
  BY <1>0, <1>2, ConcatProperties
<1> HIDE DEF t
<1>5. ASSUME NEW i \in DOMAIN t PROVE t[i] \in ToSet(s) \cup {Summary}
  <2>1. t[i] = Summary \/ \E j \in DOMAIN u : t[i] = u[j]
    <3>1. i \in 1..(1 + Len(u))
      BY <1>4
    <3>2. CASE i = 1
      BY <1>4, <3>1, <3>2
    <3>3. CASE i # 1
      <4>1. i - 1 \in DOMAIN u /\ t[i] = u[i - 1]
        BY <1>2, <1>4, <3>1, <3>3
      <4> QED
        BY <4>1
    <3> QED
      BY <3>2, <3>3
  <2> QED
    BY <1>2, <2>1 DEF ToSet
<1>6. t # <<>> /\ Last(t) = Last(s)
  <2>1. t[Len(t)] = u[PruneTurnAge] /\ Len(t) > 0
    BY <1>0, <1>3, <1>4
  <2> QED
    BY <1>3, <1>4, <2>1 DEF Last
<1>7. Compressed(s) = t
  BY DEF Compressed, t, u
<1> QED
  BY <1>4, <1>5, <1>6, <1>7 DEF ToSet

\* A turn's script.
Turning == Script("turn")

LEMMA TurnScript ==
    /\ Turning \in Seq(Ops) /\ Len(Turning) = 14
    /\ Turning[1] = "resolve" /\ Turning[2] = "load" /\ Turning[3] = "install"
    /\ Turning[4] = "resolve" /\ Turning[5] = "load" /\ Turning[6] = "install"
    /\ Turning[7] = "user" /\ Turning[8] = "number" /\ Turning[9] = "insert"
    /\ Turning[10] = "ask" /\ Turning[11] = "replace"
    /\ Turning[12] = "reply" /\ Turning[13] = "number" /\ Turning[14] = "insert"
<1> DEFINE g == <<"resolve">> \o <<"load", "install">>
           d == (((g \o g) \o <<"user", "number", "insert">>) \o <<"ask", "replace">>)
                  \o <<"reply", "number", "insert">>
<1>1. Turning = d
  BY DEF Turning, Script, Get, GetByKey, Say
<1>2. Turning \in Seq(Ops)
  BY Scripts DEF Turning, Path, Chain, Kinds
<1>3. Len(d) = 14
  OBVIOUS
<1>4. /\ d[1] = "resolve" /\ d[2] = "load" /\ d[3] = "install"
      /\ d[4] = "resolve" /\ d[5] = "load" /\ d[6] = "install"
      /\ d[7] = "user" /\ d[8] = "number" /\ d[9] = "insert"
      /\ d[10] = "ask" /\ d[11] = "replace"
      /\ d[12] = "reply" /\ d[13] = "number" /\ d[14] = "insert"
  OBVIOUS
<1> HIDE DEF d
<1> QED
  BY <1>1, <1>2, <1>3, <1>4

\* In /undo, what follows a change of the messages is a Get.
Returns(s) ==
    \A i \in 1..Len(s) : (i < Len(s) /\ s[i] \in {"replace", "restore"}) => s[i + 1] = "resolve"

LEMMA Returning ==
    ASSUME NEW s \in Seq(Ops), NEW t \in Seq(Ops), s # <<>>, t # <<>>, Returns(s), Returns(t),
           t[1] = "resolve" \/ s[Len(s)] \notin {"replace", "restore"}
    PROVE  s \o t \in Seq(Ops) /\ s \o t # <<>> /\ Returns(s \o t)
           /\ (s \o t)[Len(s \o t)] = t[Len(t)]
<1> DEFINE u == s \o t
<1>1. /\ u \in Seq(Ops) /\ Len(u) = Len(s) + Len(t) /\ Len(s) \in Nat \ {0} /\ Len(t) \in Nat \ {0}
      /\ \A i \in 1..Len(u) : u[i] = IF i <= Len(s) THEN s[i] ELSE t[i - Len(s)]
  BY ConcatProperties
<1> HIDE DEF u
<1>2. ASSUME NEW i \in 1..Len(u), i < Len(u), u[i] \in {"replace", "restore"}
      PROVE  u[i + 1] = "resolve"
  <2>1. CASE i < Len(s)
    <3>1. u[i] = s[i] /\ u[i + 1] = s[i + 1] /\ i \in 1..Len(s)
      BY <1>1, <2>1
    <3> QED
      BY <1>2, <2>1, <3>1 DEF Returns
  <2>2. CASE i = Len(s)
    <3>1. i <= Len(s) /\ i + 1 \in 1..Len(u) /\ ~(i + 1 <= Len(s)) /\ (i + 1) - Len(s) = 1
      BY <1>1, <1>2, <2>2
    <3>2. u[i] = s[Len(s)] /\ u[i + 1] = t[1]
      BY <1>1, <2>2, <3>1
    <3> QED
      BY <1>2, <3>2
  <2>3. CASE i > Len(s)
    <3> DEFINE j == i - Len(s)
    <3>1. j \in 1..Len(t) /\ j < Len(t) /\ u[i] = t[j] /\ u[i + 1] = t[j + 1]
      BY <1>1, <1>2, <2>3
    <3> HIDE DEF j
    <3> QED
      BY <1>2, <3>1 DEF Returns
  <2> QED
    BY <1>1, <2>1, <2>2, <2>3
<1>3. u # <<>> /\ u[Len(u)] = t[Len(t)]
  BY <1>1
<1> QED
  BY <1>1, <1>2, <1>3 DEF Returns, u

LEMMA UndoScript == Returns(Script("undo"))
<1> DEFINE w == <<"hasSnap", "lastTurn", "replace">>
           a == Get \o w
           b == Get \o a
           c == b \o Get
           d == c \o Say("user")
           e == d \o Say("reply")
<1>1. /\ Returns(Get) /\ Get # <<>> /\ Get[Len(Get)] = "install" /\ Get[1] = "resolve"
      /\ Get \in Seq(Ops)
  <2> DEFINE g == <<"resolve">> \o <<"load", "install">>
  <2>1. Get = g
    BY DEF Get, GetByKey
  <2>2. Len(g) = 3 /\ g[1] = "resolve" /\ g[2] = "load" /\ g[3] = "install"
    OBVIOUS
  <2>3. Get \in Seq(Ops)
    BY Pieces DEF Piece, Chain
  <2> HIDE DEF g
  <2>4. \A i \in 1..3 : i = 1 \/ i = 2 \/ i = 3
    OBVIOUS
  <2>5. \A i \in 1..Len(g) : g[i] \notin {"replace", "restore"}
    BY <2>2, <2>4
  <2> QED
    BY <2>1, <2>2, <2>3, <2>5 DEF Returns
<1>2. \A m \in {"user", "reply"} :
        /\ Say(m) \in Seq(Ops) /\ Say(m) # <<>> /\ Returns(Say(m))
        /\ Say(m)[Len(Say(m))] = "insert"
  <2> SUFFICES ASSUME NEW m \in {"user", "reply"}
               PROVE  /\ Say(m) \in Seq(Ops) /\ Say(m) # <<>> /\ Returns(Say(m))
                      /\ Say(m)[Len(Say(m))] = "insert"
    OBVIOUS
  <2>1. /\ Say(m) \in Seq(Ops) /\ Len(Say(m)) = 3 /\ Say(m)[1] = m
        /\ Say(m)[2] = "number" /\ Say(m)[3] = "insert"
    BY DEF Say, Ops
  <2>2. \A i \in 1..3 : i = 1 \/ i = 2 \/ i = 3
    OBVIOUS
  <2>3. \A i \in 1..Len(Say(m)) : Say(m)[i] \notin {"replace", "restore"}
    BY <2>1, <2>2
  <2> QED
    BY <2>1, <2>3 DEF Returns
<1>3. w \in Seq(Ops) /\ w # <<>> /\ Returns(w)
  BY DEF Returns, Ops
<1> HIDE DEF w
<1>4. a \in Seq(Ops) /\ a # <<>> /\ Returns(a)
  BY <1>1, <1>3, Returning
<1> HIDE DEF a
<1>5. b \in Seq(Ops) /\ b # <<>> /\ Returns(b)
  BY <1>1, <1>4, Returning
<1> HIDE DEF b
<1>6. c \in Seq(Ops) /\ c # <<>> /\ Returns(c) /\ c[Len(c)] = "install"
  BY <1>1, <1>5, Returning
<1> HIDE DEF c
<1>7. d \in Seq(Ops) /\ d # <<>> /\ Returns(d) /\ d[Len(d)] = "insert"
  BY <1>2, <1>6, Returning
<1> HIDE DEF d
<1>8. Returns(e)
  BY <1>2, <1>7, Returning
<1>9. Script("undo") = e
  BY DEF Script, Slash, a, b, c, d, w
<1> HIDE DEF e
<1> QED
  BY <1>8, <1>9

\* The step that a request takes is the one it is at.
LEMMA Acts ==
    ASSUME NEW r \in Requests, Step(r)
    PROVE  /\ At(r, "resolve") => ResolveOrMintKey(r)
           /\ At(r, "load") => Load(r)
           /\ At(r, "install") => Install(r)
           /\ At(r, "user") \/ At(r, "reply") => AppendMsg(r)
           /\ At(r, "number") => Number(r)
           /\ At(r, "insert") => Insert(r)
           /\ At(r, "replace") => ReplaceMessages(r)
           /\ At(r, "ask") => Ask(r)
           /\ At(r, "lastUser") => LastUser(r)
           /\ At(r, "snapshot") => Snapshot(r)
           /\ At(r, "hasSnap") => HasSnapshot(r)
           /\ At(r, "lastTurn") => LastTurn(r)
           /\ At(r, "restore") => Undo(r)
           /\ At(r, "setMode") => SetAuthMode(r)
           /\ At(r, "open") => OpenRow(r)
           /\ At(r, "publish") => Publish(r)
           /\ At(r, "drop") => Drop(r)
           /\ At(r, "purge") => Purge(r)
           /\ At(r, "deleteRow") => DeleteRow(r)
<1> DEFINE h == Head(todo[r])
<1>1. \A op : At(r, op) => h = op
  BY DEF At
<1>2. /\ ResolveOrMintKey(r) => h = "resolve"
      /\ Load(r) => h = "load"
      /\ Install(r) => h = "install"
      /\ AppendMsg(r) => h \in {"user", "reply"}
      /\ Number(r) => h = "number"
      /\ Insert(r) => h = "insert"
      /\ ReplaceMessages(r) => h = "replace"
      /\ Ask(r) => h = "ask"
      /\ LastUser(r) => h = "lastUser"
  <2> HIDE DEF h
  <2> QED
    BY <1>1, Zenon DEF ResolveOrMintKey, Load, Install, AppendMsg, Number, Insert, ReplaceMessages,
       Ask, LastUser
<1>3. /\ Snapshot(r) => h = "snapshot"
      /\ HasSnapshot(r) => h = "hasSnap"
      /\ LastTurn(r) => h = "lastTurn"
      /\ Undo(r) => h = "restore"
      /\ SetAuthMode(r) => h = "setMode"
      /\ OpenRow(r) => h = "open"
      /\ Publish(r) => h = "publish"
      /\ Drop(r) => h = "drop"
      /\ Purge(r) => h = "purge"
      /\ DeleteRow(r) => h = "deleteRow"
  <2> HIDE DEF h
  <2> QED
    BY <1>1, Zenon DEF Snapshot, HasSnapshot, LastTurn, Undo, SetAuthMode, OpenRow, Publish, Drop,
       Purge, DeleteRow
<1> HIDE DEF h
<1> QED
  BY <1>1, <1>2, <1>3 DEF Step

\* What a step leaves of a script, and what it reads.
LEMMA Shortened ==
    ASSUME State, NEW r \in Requests, Step(r)
    PROVE  /\ \/ todo'[r] = Tail(todo[r])
              \/ (At(r, "ask") \/ At(r, "lastTurn")) /\ todo'[r] = SubSeq(todo[r], 3, Len(todo[r]))
              \/ At(r, "lastUser") /\ todo'[r] = SubSeq(todo[r], 4, Len(todo[r]))
              \/ /\ At(r, "hasSnap") /\ Obj(r).snap # NoSnap
                 /\ todo'[r] = <<"restore">> \o SubSeq(todo[r], 4, Len(todo[r]))
           /\ \A q \in Requests \ {r} : seen'[q] = seen[q]
<1>1. todo \in [Requests -> Seq(Ops)] /\ seen \in [Requests -> Seq(Messages)]
  BY Zenon DEF State, Paths, Histories
<1>2. Next1(r) => todo'[r] = Tail(todo[r])
  BY <1>1 DEF Next1
<1>3. /\ Skip(r, 2) => todo'[r] = SubSeq(todo[r], 3, Len(todo[r]))
      /\ Skip(r, 3) => todo'[r] = SubSeq(todo[r], 4, Len(todo[r]))
  BY <1>1 DEF Skip
<1>4. Reads(r) => \A q \in Requests \ {r} : seen'[q] = seen[q]
  BY <1>1, Zenon DEF Reads
<1>5. CASE Load(r)
  BY <1>1, <1>2, <1>5, Zenon DEF Load
<1>6. CASE Ask(r)
  BY <1>2, <1>3, <1>4, <1>6, Zenon DEF Ask
<1>7. CASE LastUser(r)
  BY <1>2, <1>3, <1>4, <1>7, Zenon DEF LastUser
<1>8. CASE LastTurn(r)
  BY <1>2, <1>3, <1>4, <1>8, Zenon DEF LastTurn
<1>9. CASE HasSnapshot(r)
  <2>1. CASE Obj(r).snap = NoSnap
    BY <1>2, <1>9, <2>1, Zenon DEF HasSnapshot, hist
  <2>2. CASE Obj(r).snap # NoSnap
    <3>1. todo' = [todo EXCEPT ![r] = <<"restore">> \o SubSeq(@, 4, Len(@))] /\ seen' = seen
          /\ At(r, "hasSnap")
      BY <1>9, <2>2, Zenon DEF HasSnapshot, hist
    <3>2. todo'[r] = <<"restore">> \o SubSeq(todo[r], 4, Len(todo[r]))
      BY <1>1, <3>1, Zenon
    <3> QED
      BY <2>2, <3>1, <3>2, Zenon
  <2> QED
    BY <2>1, <2>2, Zenon
<1>10. CASE ~Load(r) /\ ~Ask(r) /\ ~LastUser(r) /\ ~LastTurn(r) /\ ~HasSnapshot(r)
  <2>1. Next1(r) /\ seen' = seen
    BY <1>10, Zenon DEF Step, ResolveOrMintKey, Install, AppendMsg, Number, Insert,
       ReplaceMessages, Snapshot, Undo, SetAuthMode, OpenRow, Publish, Drop, Purge, DeleteRow, hist
  <2> QED
    BY <1>2, <2>1, Zenon
<1> QED
  BY <1>5, <1>6, <1>7, <1>8, <1>9, <1>10, Zenon
-----------------------------------------------------------------------------
(* The chat's queue: one of its requests at a time, whoever runs beside it *)

Queueing ==
    /\ \A r \in Requests : ~At(r, "start") => r \in Queued \cup scene.side
    /\ \A i, j \in DOMAIN scene.queue :
         (i < j /\ ~At(scene.queue[j], "start")) => Done(scene.queue[i])

LEMMA QueueingInit == Init => Queueing
<1> SUFFICES ASSUME Init PROVE Queueing
  OBVIOUS
<1>1. \A r \in Requests : At(r, "start")
  BY DEF Init, At
<1>2. scene.queue \in Seq(Requests)
  BY SessionAssumption DEF Init, Scene
<1>3. \A j \in DOMAIN scene.queue : scene.queue[j] \in Requests
  BY <1>2
<1> QED
  BY <1>1, <1>3, Zenon DEF Queueing

LEMMA QueueingNext ==
    ASSUME State, Queueing, NEW r \in Requests, Start(r) \/ Step(r)
    PROVE  Queueing'
<1> DEFINE Q == scene.queue
<1>1. /\ scene' = scene /\ Alone(r) /\ Q \in Seq(Requests) /\ IsInjective(Q)
      /\ ToSet(Q) \cap scene.side = {}
  <2>1. scene' = scene /\ Alone(r)
    BY Started, StepMoves, Zenon DEF Moves
  <2>2. scene \in Scenes
    BY Zenon DEF State, Histories
  <2> QED
    BY <2>1, <2>2, SessionAssumption DEF Scene
<1>a. DOMAIN Q = 1..Len(Q) /\ Len(Q) \in Nat /\ \A i \in DOMAIN Q : Q[i] \in Requests
  BY <1>1
<1>b. \A i, j \in DOMAIN Q : i < j => Q[i] # Q[j]
  BY <1>1, <1>a DEF IsInjective
<1>2. "start" \in Ops
  BY DEF Ops
<1>3. /\ r \in Queued \cup scene.side /\ ~Done(r)
      /\ \A i, j \in DOMAIN Q : (i < j /\ Q[j] = r) => Done(Q[i])
  <2>1. CASE Start(r)
    <3>1. r \in Queued \cup scene.side /\ ~Done(r)
      BY <2>1, Started, Zenon DEF Start
    <3>2. \A j \in DOMAIN Q : Q[j] = r => \A i \in 1..j - 1 : Done(Q[i])
      BY <2>1, Zenon DEF Start
    <3>3. \A i, j \in DOMAIN Q : i < j => i \in 1..j - 1
      BY <1>a
    <3> QED
      BY <3>1, <3>2, <3>3, Zenon
  <2>2. CASE Step(r)
    <3>1. ~Done(r) /\ ~At(r, "start")
      BY <2>2, StepMoves, Zenon DEF Moves, InFlight
    <3> QED
      BY <3>1, Zenon DEF Queueing
  <2> QED
    BY <2>1, <2>2, Zenon
<1>4. \A q \in Requests : ~At(q, "start")' => q \in Queued \cup scene.side
  BY <1>1, <1>2, <1>3, OthersSame, Zenon DEF Queueing
<1>5. ASSUME NEW i \in DOMAIN Q, NEW j \in DOMAIN Q, i < j, ~At(Q[j], "start")'
      PROVE  Done(Q[i])'
  <2>1. Q[i] \in Requests /\ Q[j] \in Requests /\ Q[i] # Q[j]
    BY <1>a, <1>b, <1>5, Zenon
  <2>2. Done(Q[i])
    <3>1. CASE Q[j] = r
      BY <1>3, <1>5, <3>1, Zenon
    <3>2. CASE Q[j] # r
      <4>1. ~At(Q[j], "start")
        BY <1>1, <1>2, <1>5, <2>1, <3>2, OthersSame, Zenon
      <4> QED
        BY <1>5, <4>1, Zenon DEF Queueing
    <3> QED
      BY <3>1, <3>2, Zenon
  <2>3. Q[i] # r
    BY <1>3, <2>2, Zenon
  <2> QED
    BY <1>1, <2>1, <2>2, <2>3, OthersSame, Zenon
<1> QED
  BY <1>1, <1>4, <1>5, Zenon DEF Queueing, Queued

LEMMA OneOfQueue ==
    ASSUME State, Queueing, NEW r \in Requests, NEW q \in Requests, r \in Queued, q \in Queued,
           InFlight(r), InFlight(q)
    PROVE  q = r
<1>1. scene.queue \in Seq(Requests)
  BY SessionAssumption DEF State, Histories, Scene
<1>2. ~Done(r) /\ ~Done(q) /\ ~At(r, "start") /\ ~At(q, "start")
  BY Zenon DEF InFlight
<1>3. PICK i \in DOMAIN scene.queue : scene.queue[i] = r
  BY <1>1 DEF Queued, ToSet
<1>4. PICK j \in DOMAIN scene.queue : scene.queue[j] = q
  BY <1>1 DEF Queued, ToSet
<1>5. ~(i < j) /\ ~(j < i)
  BY <1>2, <1>3, <1>4, Zenon DEF Queueing
<1>6. i \in Nat /\ j \in Nat
  BY <1>1
<1>7. i = j
  BY <1>5, <1>6
<1> QED
  BY <1>3, <1>4, <1>7, Zenon
-----------------------------------------------------------------------------
(* What a request has in hand: the row it has read, or part of what it saw *)

Holding(r) ==
    /\ (At(r, "install") /\ got[r] # NoRow) => got[r] = seen[r]
    /\ (At(r, "snapshot") \/ At(r, "replace")) => ToSet(got[r]) \subseteq ToSet(seen[r]) \cup {Summary}

\* Each step that computes an array leaves messages out, and puts in a summary.
LEMMA Computes ==
    ASSUME State, NEW r \in Requests, Step(r), At(r, "ask") \/ At(r, "lastUser") \/ At(r, "lastTurn"),
           At(r, "snapshot")' \/ At(r, "replace")'
    PROVE  ToSet(got'[r]) \subseteq ToSet(seen'[r]) \cup {Summary}
<1> DEFINE ms == Obj(r).msgs
<1>0. ms \in Seq(Messages) /\ Len(ms) \in Nat
  <2>1. ms \in Seq(Messages)
    BY Mine, Zenon DEF ObjOps
  <2> QED
    BY <2>1
<1>1. seen \in [Requests -> Seq(Messages)] /\ got \in [Requests -> Seq(Messages) \cup {NoRow}]
      /\ todo \in [Requests -> Seq(Ops)] /\ Path(todo[r]) /\ todo[r] # <<>>
  BY Zenon DEF State, Histories, Locals, Paths, At
<1> HIDE DEF ms
<1>2. Reads(r) => seen'[r] = ms
  BY <1>1, Zenon DEF Reads, ms
<1>3. ASSUME NEW e \in Nat, e <= Len(ms) PROVE ToSet(SubSeq(ms, 1, e)) \subseteq ToSet(ms)
  BY <1>0, <1>3, Cuts
<1>4. \A i \in UserAt(ms) : i \in 1..Len(ms)
  BY <1>0 DEF UserAt
<1>5. CASE At(r, "ask")
  <2>1. Ask(r)
    BY <1>5, Acts, Zenon
  <2>2. /\ \/ got' = [got EXCEPT ![r] = ms]
           \/ (Len(ms) > PruneTurnAge /\ got' = [got EXCEPT ![r] = Compressed(ms)])
        /\ Reads(r)
    BY <2>1, Zenon DEF Ask, ms
  <2>3. got'[r] = ms \/ (Len(ms) > PruneTurnAge /\ got'[r] = Compressed(ms))
    BY <1>1, <2>2, Zenon
  <2>4. Len(ms) > PruneTurnAge => ToSet(Compressed(ms)) \subseteq ToSet(ms) \cup {Summary}
    BY <1>0, Compresses, Zenon
  <2>5. ToSet(got'[r]) \subseteq ToSet(ms) \cup {Summary}
    BY <2>3, <2>4
  <2> QED
    BY <1>2, <2>2, <2>5, Zenon
<1>6. CASE At(r, "lastUser")
  <2>1. LastUser(r)
    BY <1>6, Acts, Zenon
  <2>2. ~Skip(r, 3)
    <3>1. Skip(r, 3) => todo'[r] = SubSeq(todo[r], 3 + 1, Len(todo[r]))
      BY <1>1, Zenon DEF Skip
    <3>2. Head(SubSeq(todo[r], 3 + 1, Len(todo[r]))) \in {"reply", "resolve"}
      BY <1>1, <1>6, PathSkips, Zenon DEF At
    <3> QED
      BY <3>1, <3>2 DEF At
  <2>3. /\ UserAt(ms) # {} /\ Reads(r)
        /\ got' = [got EXCEPT ![r] = SubSeq(ms, 1, Max(UserAt(ms)) - 1)]
    BY <2>1, <2>2, Zenon DEF LastUser, ms
  <2>4. Max(UserAt(ms)) \in UserAt(ms)
    BY <1>0, <1>4, <2>3, MaxOf
  <2>5. Max(UserAt(ms)) - 1 \in Nat /\ Max(UserAt(ms)) - 1 <= Len(ms)
    BY <1>0, <1>4, <2>4
  <2>6. got'[r] = SubSeq(ms, 1, Max(UserAt(ms)) - 1)
    BY <1>1, <2>3, Zenon
  <2>7. ToSet(got'[r]) \subseteq ToSet(ms)
    BY <1>3, <2>5, <2>6, Zenon
  <2>8. seen'[r] = ms
    BY <1>2, <2>3, Zenon
  <2> QED
    BY <2>7, <2>8
<1>7. CASE At(r, "lastTurn")
  <2> DEFINE S == UserAt(ms) \cup {0}
             e == Max({Max(S) - 1, 0})
  <2>1. LastTurn(r)
    BY <1>7, Acts, Zenon
  <2>2. ~Skip(r, 2)
    <3>1. Skip(r, 2) => todo'[r] = SubSeq(todo[r], 2 + 1, Len(todo[r]))
      BY <1>1, Zenon DEF Skip
    <3>2. Head(SubSeq(todo[r], 2 + 1, Len(todo[r]))) \in {"reply", "resolve"}
      BY <1>1, <1>7, PathSkips, Zenon DEF At
    <3> QED
      BY <3>1, <3>2 DEF At
  <2>3. Reads(r) /\ got' = [got EXCEPT ![r] = SubSeq(ms, 1, e)]
    BY <2>1, <2>2, Zenon DEF LastTurn, ms
  <2>4. Max(S) \in 0..Len(ms)
    <3>1. S # {} /\ \A x \in S : x \in Int /\ -1 <= x /\ x <= Len(ms) /\ 0 <= x
      BY <1>0, <1>4
    <3> HIDE DEF S
    <3>2. Max(S) \in S
      BY <1>0, <3>1, MaxOf
    <3> QED
      BY <1>0, <3>1, <3>2
  <2> HIDE DEF S
  <2>5. e \in Nat /\ e <= Len(ms)
    <3> DEFINE T == {Max(S) - 1, 0}
    <3>1. T # {} /\ \A x \in T : x \in Int /\ -1 <= x /\ x <= Len(ms)
      BY <1>0, <2>4
    <3>2. 0 \in T
      OBVIOUS
    <3> HIDE DEF T
    <3>3. Max(T) \in T /\ Max(T) >= 0
      BY <1>0, <3>1, <3>2, MaxOf
    <3> QED
      BY <3>1, <3>3 DEF T
  <2>6. got'[r] = SubSeq(ms, 1, e)
    BY <1>1, <2>3, Zenon
  <2> HIDE DEF e
  <2>7. ToSet(got'[r]) \subseteq ToSet(ms)
    BY <1>3, <2>5, <2>6, Zenon
  <2>8. seen'[r] = ms
    BY <1>2, <2>3, Zenon
  <2> QED
    BY <2>7, <2>8
<1> QED
  BY <1>5, <1>6, <1>7, Zenon

LEMMA HoldingInit == Init => \A r \in Requests : Holding(r)
BY DEF Init, Holding, At

LEMMA HoldingNext ==
    ASSUME State, \A q \in Requests : Holding(q), NEW r \in Requests, Start(r) \/ Step(r)
    PROVE  \A q \in Requests : Holding(q)'
<1>1. Alone(r) /\ \A q \in Requests \ {r} : seen'[q] = seen[q]
  BY Started, StepMoves, Shortened, Zenon DEF Moves, hist
<1>2. \A q \in Requests \ {r} : Holding(q)'
  BY <1>1, Zenon DEF Alone, Holding, At
<1>3. CASE Start(r)
  <2>1. todo'[r] # <<>> => Head(todo'[r]) \in {"drop", "resolve"}
    BY <1>3, Started, Scripts
  <2>2. Holding(r)'
    BY <2>1 DEF Holding, At
  <2> QED
    BY <1>2, <2>2, Zenon
<1>4. CASE Step(r)
  <2> DEFINE a == Head(todo[r])
             b == Head(todo'[r])
  <2>1. todo[r] # <<>> /\ (todo'[r] # <<>> => Leads(a, b))
    BY <1>4, StepMoves, Zenon DEF Moves, InFlight, Done
  <2>2. Leads(a, b) => /\ b = "install" => a = "load"
                       /\ b = "snapshot" => a = "lastUser"
                       /\ b = "replace" => a \in {"ask", "snapshot", "lastTurn"}
    BY DEF Leads, Follows
  <2>3. /\ At(r, "install")' => At(r, "load")
        /\ At(r, "snapshot")' => At(r, "lastUser")
        /\ At(r, "replace")' => At(r, "ask") \/ At(r, "snapshot") \/ At(r, "lastTurn")
    BY <2>1, <2>2 DEF At
  <2>4. ASSUME At(r, "install")', got'[r] # NoRow PROVE got'[r] = seen'[r]
    <3>1. Load(r)
      BY <1>4, <2>3, <2>4, Acts, Zenon
    <3> QED
      BY <2>4, <3>1 DEF Load, State, Locals, Histories
  <2>5. ASSUME At(r, "snapshot")' \/ At(r, "replace")'
        PROVE  ToSet(got'[r]) \subseteq ToSet(seen'[r]) \cup {Summary}
    <3>1. CASE At(r, "snapshot")
      <4>1. Snapshot(r)
        BY <1>4, <3>1, Acts, Zenon
      <4>2. got' = got /\ seen' = seen
        BY <4>1, Zenon DEF Snapshot, hist
      <4> QED
        BY <3>1, <4>2, Zenon DEF Holding
    <3>2. CASE ~At(r, "snapshot")
      BY <1>4, <2>3, <2>5, <3>2, Computes, Zenon
    <3> QED
      BY <3>1, <3>2, Zenon
  <2>6. Holding(r)'
    BY <2>4, <2>5, Zenon DEF Holding
  <2> QED
    BY <1>2, <2>6, Zenon
<1> QED
  BY <1>3, <1>4, Zenon

-----------------------------------------------------------------------------
(* What a step does to the rows, and to the messages of the objects *)

\* The object at hand changes to o, the others stay as they are.
Turns(r, o) == Swapped(PodOf(r), key[r], idx[r], o)

\* The row and the object at hand get the messages ms.
Writes(r, ms) ==
    /\ row' = [row EXCEPT ![key[r]] = ms] /\ Rows' = Rows \cup {key[r]}
    /\ \E o \in Object : Turns(r, o) /\ o.msgs = ms /\ o.snap = Obj(r).snap

LEMMA WriteIs ==
    ASSUME State, NEW r \in Requests, NEW ms \in Seq(Messages), NEW op \in ObjOps, At(r, op),
           SetMsgs(r, ms), SaveSession(key[r], ms), cur' = cur
    PROVE  Writes(r, ms)
<1> DEFINE o == [Obj(r) EXCEPT !.msgs = ms]
<1>1. /\ PodOf(r) \in Pods /\ key[r] \in Keys /\ idx[r] \in 1..Len(Objects(r)) /\ Obj(r) \in Object
  BY Mine, Zenon
<1>2. o \in Object /\ o.msgs = ms /\ o.snap = Obj(r).snap
  BY <1>1 DEF Object
<1>3. objs' = [objs EXCEPT ![PodOf(r)][key[r]][idx[r]] = o]
  BY DEF SetMsgs, Obj
<1> HIDE DEF o
<1>4. Turns(r, o)
  BY <1>1, <1>2, <1>3, Changed, Zenon DEF State, Objects, Turns
<1>5. row' = [row EXCEPT ![key[r]] = ms]
  BY Zenon DEF SaveSession
<1>6. Rows' = Rows \cup {key[r]}
  BY <1>1, Saved, Zenon DEF State
<1> QED
  BY <1>2, <1>4, <1>5, <1>6, Zenon DEF Writes

LEMMA AppendIs ==
    ASSUME State, NEW r \in Requests, AppendMsg(r)
    PROVE  \E part \in {"user", "reply"} :
             /\ At(r, part) /\ MyObjFree(r) /\ Obj(r).msgs \in Seq(Messages) /\ <<r, part>> \in Messages
             /\ Writes(r, Append(Obj(r).msgs, <<r, part>>))
             /\ UNCHANGED <<archive, minted, key, idx, got, num, opened, seen, stale>>
<1>1. PICK part \in {"user", "reply"} :
        /\ At(r, part) /\ SetMsgs(r, Append(Obj(r).msgs, <<r, part>>))
        /\ SaveSession(key[r], Append(Obj(r).msgs, <<r, part>>)) /\ MyObjFree(r)
        /\ UNCHANGED <<archive, minted, cur, kind, key, idx, got, num, hist>>
  BY Zenon DEF AppendMsg
<1> DEFINE ms == Append(Obj(r).msgs, <<r, part>>)
<1>2. part \in ObjOps
  BY DEF ObjOps
<1>3. Obj(r).msgs \in Seq(Messages)
  BY <1>1, <1>2, Mine, Zenon
<1>4. <<r, part>> \in Messages
  BY DEF Messages
<1>5. ms \in Seq(Messages)
  BY <1>3, <1>4
<1> HIDE DEF ms
<1>6. SetMsgs(r, ms) /\ SaveSession(key[r], ms) /\ cur' = cur
  BY <1>1, Zenon DEF ms
<1>7. Writes(r, ms)
  BY <1>1, <1>2, <1>5, <1>6, WriteIs, Zenon
<1> QED
  BY <1>1, <1>3, <1>4, <1>7, Zenon DEF ms, hist

LEMMA ReplaceIs ==
    ASSUME State, NEW r \in Requests, ReplaceMessages(r)
    PROVE  /\ At(r, "replace") /\ got[r] \in Seq(Messages) /\ Writes(r, got[r])
           /\ IF Outdated(r) THEN MarkStale(r) ELSE UNCHANGED stale
           /\ UNCHANGED <<archive, minted, key, idx, got, num, opened, seen>>
<1>1. /\ At(r, "replace") /\ SetMsgs(r, got[r]) /\ SaveSession(key[r], got[r]) /\ cur' = cur
      /\ IF Outdated(r) THEN MarkStale(r) ELSE UNCHANGED stale
      /\ UNCHANGED <<archive, minted, key, idx, got, num, opened, seen>>
  BY Zenon DEF ReplaceMessages
<1>2. "replace" \in ObjOps /\ "replace" \in GotOps
  BY DEF ObjOps, GotOps
<1>3. got[r] \in Seq(Messages)
  BY <1>1, <1>2, Mine, Zenon
<1> QED
  BY <1>1, <1>2, <1>3, WriteIs, Zenon

\* Steps that change no message.
LEMMA MarkIs ==
    ASSUME State, NEW r \in Requests, Snapshot(r) \/ SetAuthMode(r)
    PROVE  \E o \in Object :
             /\ Turns(r, o) /\ o.msgs = Obj(r).msgs
             /\ o.snap = Obj(r).snap \/ At(r, "snapshot")
<1>1. PICK op \in {"snapshot", "setMode"} : At(r, op)
  BY Zenon DEF Snapshot, SetAuthMode
<1>2. op \in ObjOps
  BY DEF ObjOps
<1>3. /\ PodOf(r) \in Pods /\ key[r] \in Keys /\ idx[r] \in 1..Len(Objects(r)) /\ Obj(r) \in Object
      /\ Obj(r).msgs \in Seq(Messages)
  BY <1>1, <1>2, Mine, Zenon
<1>4. CASE Snapshot(r)
  <2> DEFINE o == [Obj(r) EXCEPT !.snap = Obj(r).msgs]
  <2>1. o \in Object /\ o.msgs = Obj(r).msgs
    BY <1>3 DEF Object
  <2>2. objs' = [objs EXCEPT ![PodOf(r)][key[r]][idx[r]] = o] /\ cur' = cur /\ At(r, "snapshot")
    BY <1>4 DEF Snapshot, Obj
  <2> HIDE DEF o
  <2>3. Turns(r, o)
    BY <1>3, <2>1, <2>2, Changed, Zenon DEF State, Objects, Turns
  <2> QED
    BY <2>1, <2>2, <2>3, Zenon
<1>5. CASE SetAuthMode(r)
  <2> DEFINE o == [Obj(r) EXCEPT !.yolo = TRUE]
  <2>1. o \in Object /\ o.msgs = Obj(r).msgs /\ o.snap = Obj(r).snap
    BY <1>3 DEF Object
  <2>2. objs' = [objs EXCEPT ![PodOf(r)][key[r]][idx[r]] = o] /\ cur' = cur
    BY <1>5 DEF SetAuthMode, Obj
  <2> HIDE DEF o
  <2>3. Turns(r, o)
    BY <1>3, <2>1, <2>2, Changed, Zenon DEF State, Objects, Turns
  <2> QED
    BY <2>1, <2>3, Zenon
<1> QED
  BY <1>4, <1>5, Zenon

LEMMA UndoIs ==
    ASSUME State, NEW r \in Requests, Undo(r)
    PROVE  objs' = objs \/ \E o \in Object : Turns(r, o)
<1>1. At(r, "restore") /\ "restore" \in ObjOps /\ cur' = cur
  BY DEF ObjOps, Undo
<1>2. PodOf(r) \in Pods /\ key[r] \in Keys /\ idx[r] \in 1..Len(Objects(r)) /\ Obj(r) \in Object
  BY <1>1, Mine, Zenon
<1>3. CASE Obj(r).snap = NoSnap
  BY <1>3, Zenon DEF Undo
<1>4. CASE Obj(r).snap # NoSnap
  <2> DEFINE o == [Obj(r) EXCEPT !.msgs = Obj(r).snap, !.snap = NoSnap]
  <2>1. o \in Object
    BY <1>2, <1>4 DEF Object
  <2>2. objs' = [objs EXCEPT ![PodOf(r)][key[r]][idx[r]] = o]
    BY <1>4 DEF Undo, Obj
  <2> HIDE DEF o
  <2>3. Turns(r, o)
    BY <1>1, <1>2, <2>1, <2>2, Changed, Zenon DEF State, Objects, Turns
  <2> QED
    BY <2>1, <2>3, Zenon
<1> QED
  BY <1>3, <1>4, Zenon

\* A Get leaves the object it takes with the messages it has read.
LEMMA LoadedIs ==
    ASSUME State, NEW r \in Requests, Install(r)
    PROVE  LET p == PodOf(r)  k == key[r]  c == cur[p][k] IN
           \/ /\ c = 0 /\ idx'[r] = Len(objs[p][k]) + 1
              /\ \E o \in Object :
                   /\ Grown(p, k, o) /\ o.snap = NoSnap
                   /\ o.msgs = IF got[r] = NoRow THEN <<>> ELSE got[r]
           \/ /\ c \in 1..Len(objs[p][k]) /\ idx'[r] = c
              /\ IF got[r] = NoRow THEN objs' = objs
                 ELSE \E o \in Object :
                        /\ Swapped(p, k, c, o) /\ o.snap = objs[p][k][c].snap /\ o.msgs = got[r]
<1> DEFINE p == PodOf(r)
           k == key[r]
           c == cur[p][k]
           read == IF got[r] = NoRow THEN <<>> ELSE got[r]
           new == [Blank EXCEPT !.msgs = read]
           n == Len(objs[p][k]) + 1
<1>1. p \in Pods /\ k \in Keys /\ objs[p][k] \in Seq(Object) /\ c \in Nat /\ c <= Len(objs[p][k])
  BY Mine DEF Objects, State, Maps
<1>2. CASE /\ c = 0 /\ objs' = [objs EXCEPT ![p][k] = Append(@, new)]
           /\ cur' = [cur EXCEPT ![p][k] = n] /\ idx' = [idx EXCEPT ![r] = n]
  <2>1. new \in Object /\ new.snap = NoSnap /\ new.msgs = read
    <3>1. read \in Seq(Messages)
      BY DEF State, Locals
    <3> HIDE DEF read
    <3> QED
      BY <3>1 DEF Object, Blank
  <2> HIDE DEF new
  <2>2. Grown(p, k, new)
    BY <1>1, <1>2, <2>1, Created, Zenon DEF State
  <2>3. idx'[r] = n
    BY <1>2 DEF State, Locals
  <2> QED
    BY <1>2, <2>1, <2>2, <2>3, Zenon
<1>3. CASE /\ c # 0 /\ cur' = cur /\ idx' = [idx EXCEPT ![r] = c]
           /\ objs' = IF got[r] = NoRow THEN objs ELSE [objs EXCEPT ![p][k][c].msgs = got[r]]
  <2>1. c \in 1..Len(objs[p][k]) /\ idx'[r] = c
    BY <1>1, <1>3 DEF State, Locals
  <2>2. CASE got[r] = NoRow
    BY <1>3, <2>1, <2>2, Zenon
  <2>3. CASE got[r] # NoRow
    <3> DEFINE o == [objs[p][k][c] EXCEPT !.msgs = got[r]]
    <3>1. objs[p][k][c] \in Object /\ got[r] \in Seq(Messages)
      BY <1>1, <2>1, <2>3 DEF State, Locals
    <3>2. o \in Object /\ o.snap = objs[p][k][c].snap /\ o.msgs = got[r]
      BY <3>1 DEF Object
    <3>3. objs' = [objs EXCEPT ![p][k][c] = o]
      BY <1>3, <2>3
    <3> HIDE DEF o
    <3>4. Swapped(p, k, c, o)
      BY <1>1, <1>3, <2>1, <3>2, <3>3, Changed, Zenon DEF State
    <3> QED
      BY <1>3, <2>1, <2>3, <3>2, <3>4, Zenon
  <2> QED
    BY <2>2, <2>3, Zenon
<1> QED
  BY <1>2, <1>3, Zenon DEF Install

\* The other steps.
LEMMA Rests ==
    ASSUME NEW r \in Requests, Step(r)
    PROVE  /\ (~AppendMsg(r) /\ ~ReplaceMessages(r) /\ ~OpenRow(r) /\ ~DeleteRow(r)) =>
                row' = row /\ recent' = recent
           /\ (~AppendMsg(r) /\ ~ReplaceMessages(r) /\ ~Snapshot(r) /\ ~SetAuthMode(r) /\ ~Undo(r)
               /\ ~Install(r) /\ ~Publish(r)) => objs' = objs
           /\ stale \subseteq stale'
           /\ (~ResolveOrMintKey(r) /\ ~OpenRow(r)) => key' = key /\ minted' = minted
           /\ (~Install(r) /\ ~Publish(r)) => idx' = idx
           /\ (~Load(r) /\ ~Ask(r) /\ ~LastUser(r) /\ ~LastTurn(r)) => got' = got /\ seen' = seen
           /\ ~Number(r) => num' = num
           /\ (~Insert(r) /\ ~Purge(r)) => archive' = archive
<1>1. CASE \/ ResolveOrMintKey(r) \/ Load(r) \/ Number(r) \/ Insert(r) \/ Snapshot(r)
           \/ HasSnapshot(r) \/ Undo(r) \/ SetAuthMode(r)
  BY <1>1, Zenon DEF ResolveOrMintKey, Load, Number, Insert, Snapshot, HasSnapshot, Undo,
     SetAuthMode, db, pods, hist
<1>2. CASE \/ Ask(r) \/ LastUser(r) \/ LastTurn(r) \/ OpenRow(r) \/ Publish(r)
           \/ Drop(r) \/ Purge(r) \/ DeleteRow(r)
  BY <1>2, Zenon DEF Ask, LastUser, LastTurn, OpenRow, Publish, Drop, Purge, DeleteRow,
     db, pods, hist
<1>3. CASE AppendMsg(r)
  BY <1>3, Zenon DEF AppendMsg, hist
<1>4. CASE Install(r) \/ ReplaceMessages(r)
  <2>1. stale \subseteq stale'
    <3>1. stale' = stale \/ MarkStale(r)
      BY <1>4, Zenon DEF Install, ReplaceMessages
    <3> QED
      BY <3>1 DEF MarkStale
  <2> QED
    BY <1>4, <2>1, Zenon DEF Install, ReplaceMessages, db
<1> QED
  BY <1>1, <1>2, <1>3, <1>4, Zenon DEF Step

-----------------------------------------------------------------------------
(* The scripts of a turn and of /undo, and of which requests they are *)

\* In a turn, n accesses before its end comes the one that its script says.
OnScript(r) ==
    (kind[r] = "turn" /\ ~At(r, "start")) =>
        /\ Len(todo[r]) <= 14
        /\ \A j \in 1..Len(todo[r]) : todo[r][j] = Turning[(14 - Len(todo[r])) + j]

Scripted(r) ==
    /\ OnScript(r)
    /\ kind[r] = "undo" => Returns(todo[r])
    /\ ~At(r, "start") => kind[r] \in IF r \in Queued THEN scene.kinds ELSE scene.sideKinds

\* What is left of an array after its first n.
LEMMA Lefts ==
    ASSUME NEW s \in Seq(Ops), NEW n \in Nat, n <= Len(s)
    PROVE  LET t == SubSeq(s, n + 1, Len(s)) IN
           /\ t \in Seq(Ops) /\ Len(t) = Len(s) - n
           /\ \A j \in 1..Len(t) : t[j] = s[n + j]
OBVIOUS

\* An array of a suffix's accesses.
LEMMA StaysOn ==
    ASSUME NEW s \in Seq(Ops), NEW n \in Nat, n <= Len(s), Len(s) <= 14,
           \A j \in 1..Len(s) : s[j] = Turning[(14 - Len(s)) + j]
    PROVE  LET t == SubSeq(s, n + 1, Len(s)) IN
           Len(t) <= 14 /\ \A j \in 1..Len(t) : t[j] = Turning[(14 - Len(t)) + j]
<1> DEFINE t == SubSeq(s, n + 1, Len(s))
<1>1. t \in Seq(Ops) /\ Len(t) = Len(s) - n /\ \A j \in 1..Len(t) : t[j] = s[n + j]
  OBVIOUS
<1> HIDE DEF t
<1>2. ASSUME NEW j \in 1..Len(t) PROVE t[j] = Turning[(14 - Len(t)) + j]
  <2>1. n + j \in 1..Len(s) /\ (14 - Len(s)) + (n + j) = (14 - Len(t)) + j
    BY <1>1
  <2> QED
    BY <1>1, <2>1
<1>3. Len(t) <= 14
  BY <1>1
<1> QED
  BY <1>2, <1>3, Zenon DEF t

LEMMA ReturnsOn ==
    ASSUME NEW s \in Seq(Ops), NEW n \in Nat, n <= Len(s), Returns(s)
    PROVE  Returns(SubSeq(s, n + 1, Len(s)))
<1> DEFINE t == SubSeq(s, n + 1, Len(s))
<1>1. t \in Seq(Ops) /\ Len(t) = Len(s) - n /\ \A j \in 1..Len(t) : t[j] = s[n + j]
  OBVIOUS
<1> HIDE DEF t
<1>2. ASSUME NEW i \in 1..Len(t), i < Len(t), t[i] \in {"replace", "restore"}
      PROVE  t[i + 1] = "resolve"
  <2>1. n + i \in 1..Len(s) /\ n + i < Len(s) /\ t[i] = s[n + i] /\ t[i + 1] = s[(n + i) + 1]
    BY <1>1, <1>2
  <2> QED
    BY <1>2, <2>1 DEF Returns
<1> QED
  BY <1>2 DEF Returns, t

LEMMA ScriptedInit == Init => \A r \in Requests : Scripted(r)
<1> SUFFICES ASSUME Init, NEW r \in Requests PROVE Scripted(r)
  OBVIOUS
<1>1. At(r, "start") /\ kind[r] = "turn"
  BY DEF Init, At
<1> QED
  BY <1>1 DEF Scripted, OnScript

LEMMA ScriptedNext ==
    ASSUME State, Told, \A q \in Requests : Scripted(q), NEW r \in Requests, Start(r) \/ Step(r)
    PROVE  \A q \in Requests : Scripted(q)'
<1>1. Alone(r) /\ scene' = scene
  BY Started, StepMoves, Zenon DEF Moves
<1>2. ASSUME NEW q \in Requests \ {r} PROVE Scripted(q)'
  <2>1. todo'[q] = todo[q] /\ kind'[q] = kind[q] /\ scene' = scene
    BY <1>1, Zenon DEF Alone
  <2>2. At(q, "start")' = At(q, "start") /\ Queued' = Queued
    BY <2>1 DEF At, Queued
  <2>3. OnScript(q)' = OnScript(q)
    BY <2>1, <2>2 DEF OnScript
  <2>4. Returns(todo'[q]) = Returns(todo[q])
    BY <2>1, Zenon
  <2> QED
    BY <2>1, <2>2, <2>3, <2>4, Zenon DEF Scripted
<1>3. CASE Start(r)
  <2>1. PICK k \in IF r \in Queued THEN scene.kinds ELSE scene.sideKinds :
          kind' = [kind EXCEPT ![r] = k] /\ todo' = [todo EXCEPT ![r] = Script(k)]
    BY <1>3, Zenon DEF Start
  <2>2. kind'[r] = k /\ todo'[r] = Script(k)
    BY <2>1, Zenon DEF State, Locals, Paths
  <2>3. k = "turn" => /\ Len(todo'[r]) <= 14
                      /\ \A j \in 1..Len(todo'[r]) : todo'[r][j] = Turning[(14 - Len(todo'[r])) + j]
    <3>1. ASSUME NEW j \in 1..14 PROVE (14 - 14) + j = j
      OBVIOUS
    <3>2. k = "turn" => todo'[r] = Turning /\ Len(Turning) = 14
      BY <2>2, TurnScript, Zenon DEF Turning
    <3>3. 14 <= 14
      OBVIOUS
    <3> QED
      BY <3>1, <3>2, <3>3, Zenon
  <2>4. k = "undo" => Returns(todo'[r])
    BY <2>2, UndoScript, Zenon
  <2>5. Scripted(r)'
    BY <1>1, <2>1, <2>2, <2>3, <2>4, Zenon DEF Scripted, OnScript, Queued
  <2> QED
    BY <1>2, <2>5, Zenon
<1>4. CASE Step(r)
  <2> DEFINE s == todo[r]
  <2>1. /\ s \in Seq(Ops) /\ s # <<>> /\ Path(s) /\ ~At(r, "start") /\ kind'[r] = kind[r]
        /\ Len(s) \in Nat
    <3>1. s \in Seq(Ops) /\ s # <<>> /\ Path(s) /\ ~At(r, "start") /\ kind'[r] = kind[r]
      BY <1>4, StepMoves, Zenon DEF Moves, InFlight, Done, State, Paths
    <3> QED
      BY <3>1
  <2>2. \/ \E n \in {1, 2, 3} : n <= Len(s) /\ todo'[r] = SubSeq(s, n + 1, Len(s))
        \/ kind[r] = "undo" /\ todo'[r] = <<"restore">> \o SubSeq(s, 4, Len(s)) /\ At(r, "hasSnap")
    <3>1. CASE todo'[r] = Tail(s)
      <4>1. Tail(s) = SubSeq(s, 1 + 1, Len(s)) /\ 1 <= Len(s)
        BY <2>1
      <4> QED
        BY <3>1, <4>1
    <3>2. CASE (At(r, "ask") \/ At(r, "lastTurn")) /\ todo'[r] = SubSeq(s, 3, Len(s))
      <4>1. SubSeq(s, 2 + 1, Len(s)) # <<>>
        BY <2>1, <3>2, PathSkips DEF At
      <4>2. 2 <= Len(s) /\ 2 + 1 = 3
        BY <2>1, <4>1
      <4> QED
        BY <3>2, <4>2
    <3>3. CASE At(r, "lastUser") /\ todo'[r] = SubSeq(s, 4, Len(s))
      <4>1. SubSeq(s, 3 + 1, Len(s)) # <<>>
        BY <2>1, <3>3, PathSkips DEF At
      <4>2. 3 <= Len(s) /\ 3 + 1 = 4
        BY <2>1, <4>1
      <4> QED
        BY <3>3, <4>2
    <3>4. CASE At(r, "hasSnap") /\ todo'[r] = <<"restore">> \o SubSeq(s, 4, Len(s))
      <4>1. "hasSnap" \in Vocabulary(kind[r])
        BY <2>1, <3>4 DEF Told, At
      <4>2. kind[r] = "undo"
        BY <4>1 DEF Vocabulary
      <4> QED
        BY <3>4, <4>2
    <3> QED
      BY <1>4, <3>1, <3>2, <3>3, <3>4, Shortened, Zenon
  <2>3. ASSUME kind[r] = "turn"
        PROVE  /\ Len(todo'[r]) <= 14
               /\ \A j \in 1..Len(todo'[r]) : todo'[r][j] = Turning[(14 - Len(todo'[r])) + j]
    <3>1. /\ Len(s) <= 14 /\ \A j \in 1..Len(s) : s[j] = Turning[(14 - Len(s)) + j]
      BY <2>1, <2>3, Zenon DEF Scripted, OnScript
    <3>2. PICK n \in {1, 2, 3} : n <= Len(s) /\ todo'[r] = SubSeq(s, n + 1, Len(s))
      BY <2>2, <2>3
    <3>3. n \in Nat
      OBVIOUS
    <3> DEFINE t == SubSeq(s, n + 1, Len(s))
    <3>4. Len(t) <= 14 /\ \A j \in 1..Len(t) : t[j] = Turning[(14 - Len(t)) + j]
      <4> HIDE DEF s
      <4> QED
        BY <2>1, <3>1, <3>2, <3>3, StaysOn
    <3>5. todo'[r] = t
      BY <3>2
    <3> HIDE DEF t
    <3> QED
      BY <3>4, <3>5
  <2>4. ASSUME kind[r] = "undo" PROVE Returns(todo'[r])
    <3>1. Returns(s)
      BY <2>4, Zenon DEF Scripted
    <3>2. ASSUME NEW n \in {1, 2, 3}, n <= Len(s), todo'[r] = SubSeq(s, n + 1, Len(s))
          PROVE  Returns(todo'[r])
      <4>1. n \in Nat
        OBVIOUS
      <4> HIDE DEF s
      <4> QED
        BY <2>1, <3>1, <3>2, <4>1, ReturnsOn, Zenon
    <3>3. ASSUME todo'[r] = <<"restore">> \o SubSeq(s, 4, Len(s)), At(r, "hasSnap")
          PROVE  Returns(todo'[r])
      <4> DEFINE u == SubSeq(s, 3 + 1, Len(s))
      <4>1. 3 < Len(s) /\ s[3] = "replace"
        <5> DEFINE t == Tail(s)
                   v == Tail(t)
                   w == Tail(v)
        <5>1. t # <<>> /\ Head(t) = "lastTurn" /\ Path(t)
          BY <2>1, <3>3, PathTail DEF Follows, Ends, At
        <5>2. v # <<>> /\ Head(v) = "replace" /\ Path(v)
          BY <5>1, PathTail DEF Follows, Ends
        <5>3. w # <<>>
          BY <5>2, PathTail DEF Follows, Ends
        <5>4. s \in Seq(Ops) /\ Len(s) > 0 /\ t \in Seq(Ops) /\ Len(t) = Len(s) - 1
              /\ \A j \in 1..Len(t) : t[j] = s[j + 1]
          BY <2>1
        <5> HIDE DEF t
        <5>5. Len(t) > 0 /\ v \in Seq(Ops) /\ Len(v) = Len(t) - 1
              /\ \A j \in 1..Len(v) : v[j] = t[j + 1]
          BY <5>1, <5>4
        <5> HIDE DEF v
        <5>6. Len(v) > 1 /\ v[1] = "replace"
          BY <5>2, <5>3, <5>5
        <5>7. t[2] = "replace" /\ Len(t) > 2
          BY <5>5, <5>6
        <5> HIDE DEF s
        <5> QED
          BY <5>4, <5>7
      <4>2. s[4] = "resolve"
        BY <2>1, <3>1, <4>1 DEF Returns
      <4>3. /\ u \in Seq(Ops) /\ u # <<>> /\ u[1] = "resolve"
        <5> HIDE DEF s
        <5>1. 3 \in Nat /\ 3 <= Len(s) /\ s \in Seq(Ops)
          BY <2>1, <4>1
        <5>2. u \in Seq(Ops) /\ Len(u) = Len(s) - 3 /\ \A j \in 1..Len(u) : u[j] = s[3 + j]
          BY <5>1, Lefts
        <5> HIDE DEF u
        <5> QED
          BY <4>1, <4>2, <5>1, <5>2
      <4>4. Returns(u)
        <5>1. 3 \in Nat /\ 3 <= Len(s)
          BY <2>1, <4>1
        <5> HIDE DEF s
        <5> QED
          BY <2>1, <3>1, <5>1, ReturnsOn, Zenon
      <4>5. Returns(<<"restore">>) /\ <<"restore">> \in Seq(Ops) /\ <<"restore">> # <<>>
        BY DEF Returns, Ops
      <4>6. u = SubSeq(s, 4, Len(s))
        OBVIOUS
      <4> HIDE DEF u
      <4>7. Returns(<<"restore">> \o u)
        BY <4>3, <4>4, <4>5, Returning
      <4> QED
        BY <3>3, <4>6, <4>7
    <3> QED
      BY <2>2, <3>2, <3>3, Zenon
  <2>5. Scripted(r)'
    <3>1. kind[r] \in IF r \in Queued THEN scene.kinds ELSE scene.sideKinds
      BY <2>1, Zenon DEF Scripted
    <3> HIDE DEF s
    <3> QED
      BY <1>1, <2>1, <2>3, <2>4, <3>1, Zenon DEF Scripted, OnScript, Queued
  <2> QED
    BY <1>2, <2>5, Zenon
<1> QED
  BY <1>3, <1>4, Zenon

\* How much a turn has left to do says what is next.
LEMMA TurnPlace ==
    ASSUME NEW s \in Seq(Ops), s # <<>>, Len(s) <= 14,
           \A j \in 1..Len(s) : s[j] = Turning[(14 - Len(s)) + j]
    PROVE  LET n == Len(s)  h == Head(s) IN
           /\ n \in 1..14
           /\ h = "user" <=> n = 8
           /\ h = "ask" <=> n = 5
           /\ h = "replace" <=> n = 4
           /\ h = "reply" <=> n = 3
           /\ h = "number" <=> n = 7 \/ n = 2
           /\ h = "insert" <=> n = 6 \/ n = 1
<1> DEFINE n == Len(s)
           h == Head(s)
<1>1. n \in Nat /\ n > 0 /\ n <= 14 /\ h = s[1] /\ \A j \in 1..n : s[j] = Turning[(14 - n) + j]
  OBVIOUS
<1> HIDE DEF n, h
<1>2. n \in 1..14 /\ 1 \in 1..n
  BY <1>1
<1>3. h = Turning[(14 - n) + 1]
  BY <1>1, <1>2, Zenon
<1>4. \A m \in 1..14 :
         /\ Turning[(14 - m) + 1] = "user" <=> m = 8
         /\ Turning[(14 - m) + 1] = "ask" <=> m = 5
         /\ Turning[(14 - m) + 1] = "replace" <=> m = 4
         /\ Turning[(14 - m) + 1] = "reply" <=> m = 3
         /\ Turning[(14 - m) + 1] = "number" <=> m = 7 \/ m = 2
         /\ Turning[(14 - m) + 1] = "insert" <=> m = 6 \/ m = 1
  <2>1. \A i \in 1..14 : \/ i = 1 \/ i = 2 \/ i = 3 \/ i = 4 \/ i = 5 \/ i = 6 \/ i = 7
                         \/ i = 8 \/ i = 9 \/ i = 10 \/ i = 11 \/ i = 12 \/ i = 13 \/ i = 14
    OBVIOUS
  <2>2. ASSUME NEW i \in 1..14
        PROVE  /\ Turning[i] = "user" <=> i = 7
               /\ Turning[i] = "ask" <=> i = 10
               /\ Turning[i] = "replace" <=> i = 11
               /\ Turning[i] = "reply" <=> i = 12
               /\ Turning[i] = "number" <=> i = 8 \/ i = 13
               /\ Turning[i] = "insert" <=> i = 9 \/ i = 14
    BY <2>1, TurnScript
  <2> SUFFICES ASSUME NEW m \in 1..14
               PROVE  /\ Turning[(14 - m) + 1] = "user" <=> m = 8
                      /\ Turning[(14 - m) + 1] = "ask" <=> m = 5
                      /\ Turning[(14 - m) + 1] = "replace" <=> m = 4
                      /\ Turning[(14 - m) + 1] = "reply" <=> m = 3
                      /\ Turning[(14 - m) + 1] = "number" <=> m = 7 \/ m = 2
                      /\ Turning[(14 - m) + 1] = "insert" <=> m = 6 \/ m = 1
    OBVIOUS
  <2> DEFINE i == (14 - m) + 1
  <2>3. i \in 1..14 /\ m = 15 - i
    OBVIOUS
  <2> HIDE DEF i
  <2>4. /\ i = 7 <=> m = 8
        /\ i = 10 <=> m = 5
        /\ i = 11 <=> m = 4
        /\ i = 12 <=> m = 3
        /\ i = 8 \/ i = 13 <=> m = 7 \/ m = 2
        /\ i = 9 \/ i = 14 <=> m = 6 \/ m = 1
    BY <2>3
  <2>5. /\ Turning[i] = "user" <=> m = 8
        /\ Turning[i] = "ask" <=> m = 5
        /\ Turning[i] = "replace" <=> m = 4
        /\ Turning[i] = "reply" <=> m = 3
        /\ Turning[i] = "number" <=> m = 7 \/ m = 2
        /\ Turning[i] = "insert" <=> m = 6 \/ m = 1
    <3>1. /\ Turning[i] = "user" <=> i = 7
          /\ Turning[i] = "ask" <=> i = 10
          /\ Turning[i] = "replace" <=> i = 11
          /\ Turning[i] = "reply" <=> i = 12
          /\ Turning[i] = "number" <=> i = 8 \/ i = 13
          /\ Turning[i] = "insert" <=> i = 9 \/ i = 14
      BY <2>2, <2>3, Zenon
    <3> QED
      BY <2>4, <3>1
  <2> QED
    BY <2>5, Zenon DEF i
<1>5. /\ n \in 1..14
      /\ h = "user" <=> n = 8
      /\ h = "ask" <=> n = 5
      /\ h = "replace" <=> n = 4
      /\ h = "reply" <=> n = 3
      /\ h = "number" <=> n = 7 \/ n = 2
      /\ h = "insert" <=> n = 6 \/ n = 1
  BY <1>2, <1>3, <1>4
<1> QED
  BY <1>5, Zenon DEF n, h

\* Where a turn that has begun stands.
LEMMA TurnAt ==
    ASSUME State, NEW r \in Requests, Scripted(r), kind[r] = "turn", InFlight(r)
    PROVE  LET n == Len(todo[r]) IN
           /\ n \in 1..14
           /\ At(r, "user") <=> n = 8
           /\ At(r, "ask") <=> n = 5
           /\ At(r, "replace") <=> n = 4
           /\ At(r, "reply") <=> n = 3
           /\ At(r, "number") <=> n = 7 \/ n = 2
           /\ At(r, "insert") <=> n = 6 \/ n = 1
<1>1. todo[r] \in Seq(Ops) /\ todo[r] # <<>> /\ ~At(r, "start")
  BY Zenon DEF State, Paths, InFlight, Done
<1>2. /\ Len(todo[r]) <= 14
      /\ \A j \in 1..Len(todo[r]) : todo[r][j] = Turning[(14 - Len(todo[r])) + j]
  BY <1>1, Zenon DEF Scripted, OnScript
<1>3. \A op : At(r, op) <=> Head(todo[r]) = op
  BY <1>1, Zenon DEF At
<1> QED
  BY <1>1, <1>2, <1>3, TurnPlace, Zenon

-----------------------------------------------------------------------------
(* One request at a time holds a Session's lock, and numbers a message *)

Meet(r, q) == PodOf(q) = PodOf(r) /\ key[q] = key[r] /\ idx[q] = idx[r]

Exclusive ==
    \A r, q \in Requests : (Locking(r) /\ Locking(q) /\ Meet(r, q)) => q = r

LEMMA ExclusiveInit == Init => Exclusive
<1> SUFFICES ASSUME Init, NEW r \in Requests PROVE ~Locking(r)
  BY Zenon DEF Exclusive
<1>1. Head(todo[r]) = "start"
  BY DEF Init
<1> QED
  BY <1>1 DEF Locking, LockOps

LEMMA ExclusiveNext ==
    ASSUME State, Exclusive, NEW r \in Requests, Start(r) \/ Step(r)
    PROVE  Exclusive'
<1>1. scene' = scene /\ \A q \in Requests \ {r} :
        todo'[q] = todo[q] /\ key'[q] = key[q] /\ idx'[q] = idx[q]
  BY Started, StepMoves, Zenon DEF Moves, Alone
<1>2. ASSUME Locking(r)', NEW q \in Requests \ {r}, Locking(q), Meet(r, q)' PROVE FALSE
  <2>1. Step(r)
    <3>1. ASSUME Start(r) PROVE FALSE
      <4>1. todo'[r] # <<>> => Head(todo'[r]) \in {"drop", "resolve"}
        BY <3>1, Started, Scripts
      <4> QED
        BY <1>2, <4>1 DEF Locking, LockOps
    <3> QED
      BY <3>1, Zenon
  <2>2. At(r, "user") \/ At(r, "reply") \/ At(r, "number")
    <3>1. todo[r] # <<>> /\ Leads(Head(todo[r]), Head(todo'[r]))
      BY <1>2, <2>1, StepMoves, Zenon DEF Locking, Moves, InFlight, Done
    <3>2. Head(todo'[r]) \in {"number", "insert"}
      BY <1>2, Zenon DEF Locking, LockOps
    <3>3. Head(todo[r]) \in {"user", "reply", "number"}
      BY <3>1, <3>2 DEF Leads, Follows
    <3> QED
      BY <3>1, <3>3 DEF At
  <2>3. AppendMsg(r) \/ Number(r)
    BY <2>1, <2>2, Acts, Zenon
  <2>4. key' = key /\ idx' = idx
    BY <2>3, Zenon DEF AppendMsg, Number
  <2>5. Meet(r, q)
    BY <1>1, <1>2, <2>4, Zenon DEF Meet, PodOf
  <2>6. CASE AppendMsg(r)
    <3>1. MyObjFree(r)
      BY <2>6, Zenon DEF AppendMsg
    <3>2. ~At(q, "number") /\ ~At(q, "insert")
      BY <2>5, <3>1, Zenon DEF MyObjFree, ObjFree, Meet
    <3> QED
      BY <1>2, <3>2 DEF Locking, LockOps, At
  <2>7. CASE Number(r)
    <3>1. Locking(r)
      BY <2>7 DEF Number, At, Locking, LockOps
    <3> QED
      BY <1>2, <2>5, <3>1, Zenon DEF Exclusive
  <2> QED
    BY <2>3, <2>6, <2>7, Zenon
<1>3. \A q \in Requests \ {r} : Locking(q)' = Locking(q)
  BY <1>1, Zenon DEF Locking
<1>4. ASSUME NEW s \in Requests, NEW q \in Requests, Locking(s)', Locking(q)', Meet(s, q)'
      PROVE  q = s
  <2>1. CASE s = r
    BY <1>2, <1>3, <1>4, <2>1, Zenon
  <2>2. CASE q = r
    <3>1. Meet(q, s)'
      BY <1>4, Zenon DEF Meet
    <3> QED
      BY <1>2, <1>3, <1>4, <2>2, <3>1, Zenon
  <2>3. CASE s # r /\ q # r
    <3>1. Meet(s, q)
      BY <1>1, <1>4, <2>3, Zenon DEF Meet, PodOf
    <3> QED
      BY <1>3, <1>4, <2>3, <3>1, Zenon DEF Exclusive
  <2> QED
    BY <2>1, <2>2, <2>3, Zenon
<1> QED
  BY <1>4, Zenon DEF Exclusive

\* All requests come to one pod; and where there are both /retry and /undo, the
\* one comes in no conversation where the other does.
OnePod(c) == \A r, q \in Requests : c.podOf[r] = c.podOf[q]

Rewinds(c) ==
    \/ "retry" \notin c.kinds \cup c.sideKinds \/ "undo" \notin c.kinds \cup c.sideKinds
    \/ Len(c.queue) <= 1 /\ {"retry", "undo"} \cap c.sideKinds = {}

\* A conversation that keeps its session, on one pod.
Together(c) == Steady(c) /\ OnePod(c) /\ Rewinds(c)

\* The scenes whose rows nobody rewrites from what another pod, or a rewound
\* object, still holds: an array older than the row comes only out of the two
\* windows of MarkStale.
Undisturbed(c) == c.side = {} \/ Together(c)

\* Where two of those locks are, they are one.
LEMMA OneLocks ==
    ASSUME Shared, Exclusive, Undisturbed(scene), NEW r \in Requests, NEW q \in Requests,
           Locking(r), Locking(q)
    PROVE  key[q] = key[r] => q = r
<1>1. PICK a \in LockOps : At(r, a)
  BY DEF Locking, At
<1>2. PICK b \in LockOps : At(q, b)
  BY DEF Locking, At
<1>3. a \in ObjOps /\ b \in ObjOps
  BY DEF LockOps, ObjOps
<1>4. CASE scene.side = {}
  <2>1. InFlight(r) /\ InFlight(q)
    BY DEF Locking, LockOps, InFlight, Done, At
  <2> QED
    BY <1>4, <2>1, TheOnly, Zenon DEF Shared
<1>5. CASE Together(scene)
  <2>1. idx[r] = 1 /\ idx[q] = 1
    BY <1>1, <1>2, <1>3, <1>5, SameOne, Zenon DEF Together
  <2>2. PodOf(q) = PodOf(r)
    BY <1>5, Zenon DEF Together, OnePod, PodOf
  <2> QED
    BY <2>1, <2>2, Zenon DEF Exclusive, Meet
<1> QED
  BY <1>4, <1>5, Zenon DEF Undisturbed

\* The number that a message has got is above those of the archive.
Numbered ==
    Undisturbed(scene) =>
        \A r \in Requests : At(r, "insert") => \A e \in archive[key[r]] : e[1] < num[r]

LEMMA NumberedInit == Init => Numbered
BY DEF Init, Numbered, At

LEMMA NumberedNext ==
    ASSUME Shared, Exclusive, Numbered, NEW r \in Requests, Start(r) \/ Step(r)
    PROVE  Numbered'
<1>0. State
  BY Zenon DEF Shared
<1>1. scene' = scene /\ \A q \in Requests \ {r} :
        todo'[q] = todo[q] /\ key'[q] = key[q] /\ num'[q] = num[q]
  BY <1>0, Started, StepMoves, Zenon DEF Moves, Alone
<1> SUFFICES ASSUME Undisturbed(scene), NEW q \in Requests, At(q, "insert")', NEW e \in archive'[key'[q]]
             PROVE  e[1] < num'[q]
  BY <1>1, Zenon DEF Numbered
<1>2. archive \in [Keys -> SUBSET (Nat \X Messages)] /\ num \in [Requests -> Nat] /\ key[r] \in Keys
      /\ key[q] \in Keys
  BY <1>0, Zenon DEF State, Tables, Locals
<1>3. CASE q = r
  <2>1. Step(r)
    <3>1. ASSUME Start(r) PROVE FALSE
      <4>1. todo'[r] # <<>> => Head(todo'[r]) \in {"drop", "resolve"}
        BY <1>0, <3>1, Started, Scripts
      <4> QED
        BY <1>3, <4>1 DEF At
    <3> QED
      BY <3>1, Zenon
  <2>2. At(r, "number")
    <3>1. todo[r] # <<>> /\ Leads(Head(todo[r]), Head(todo'[r])) /\ Head(todo'[r]) = "insert"
      BY <1>0, <1>3, <2>1, StepMoves, Zenon DEF At, Moves, InFlight, Done
    <3>2. Head(todo[r]) = "number"
      BY <3>1 DEF Leads, Follows
    <3> QED
      BY <3>1, <3>2, Zenon DEF At
  <2>3. Number(r)
    BY <2>1, <2>2, Acts, Zenon
  <2> DEFINE S == {x[1] : x \in archive[key[r]]} \cup {-1}
  <2>4. archive' = archive /\ key' = key /\ num'[r] = Max(S) + 1
    BY <1>2, <2>3 DEF Number, db
  <2>5. PICK n \in Nat : \A x \in archive[key[r]] : x[1] <= n
    BY <1>0, <1>2, Zenon DEF State, Tables
  <2>6. e \in archive[key[r]] /\ e[1] \in S
    BY <1>3, <2>4
  <2>7. \A x \in S : x \in Int /\ -1 <= x /\ x <= n
    BY <1>2, <2>5
  <2>8. S # {}
    OBVIOUS
  <2> HIDE DEF S
  <2>9. Max(S) \in S /\ \A x \in S : Max(S) >= x
    BY <2>5, <2>7, <2>8, MaxOf
  <2>10. e[1] \in Int /\ Max(S) \in Int /\ Max(S) >= e[1]
    BY <2>6, <2>7, <2>9
  <2> QED
    BY <1>3, <2>4, <2>10
<1>4. CASE q # r
  <2>1. At(q, "insert") /\ key'[q] = key[q] /\ num'[q] = num[q]
    BY <1>1, <1>4, Zenon DEF At
  <2>2. archive'[key[q]] \subseteq archive[key[q]]
    <3>1. CASE Start(r)
      BY <1>0, <3>1, Started DEF db
    <3>2. CASE Step(r) /\ ~Insert(r) /\ ~Purge(r)
      BY <3>2, Rests
    <3>3. CASE Insert(r)
      <4>1. Locking(r) /\ Locking(q)
        BY <2>1, <3>3 DEF Insert, Locking, At, LockOps
      <4>2. key[q] # key[r]
        BY <1>4, <4>1, OneLocks, Zenon
      <4> QED
        BY <1>2, <3>3, <4>2 DEF Insert
    <3>4. CASE Purge(r)
      BY <1>2, <3>4 DEF Purge
    <3> QED
      BY <3>1, <3>2, <3>3, <3>4, Zenon
  <2> QED
    BY <2>1, <2>2, Zenon DEF Numbered
<1> QED
  BY <1>3, <1>4, Zenon

LEMMA ArchiveFits == ASSUME State, Numbered, Undisturbed(scene) PROVE ArchiveKeeps
<1> SUFFICES ASSUME NEW r \in Requests, At(r, "insert"), NEW e \in archive[key[r]], e[1] = num[r]
             PROVE  FALSE
  BY Zenon DEF ArchiveKeeps, Taken
<1>1. e[1] < num[r] /\ num[r] \in Nat
  BY Zenon DEF Numbered, State, Locals
<1> QED
  BY <1>1

-----------------------------------------------------------------------------
(* With nobody beside the queue: the object at hand has the row's messages *)

Empty(k) == \A p \in Pods : \A i \in 1..Len(objs[p][k]) : objs[p][k][i].msgs = <<>>

Held(r) == \E op \in ObjOps : At(r, op)

\* What a request that works on its session relies on: the row is there, or no
\* pod has messages of that session; the object has the row's messages, and
\* so has the read that it is about to get.
Abreast(r) ==
    Using(r) =>
        /\ key[r] \in Rows \/ Empty(key[r])
        /\ Held(r) => Obj(r).msgs = row[key[r]]
        /\ At(r, "install") => seen[r] = row[key[r]] /\ (got[r] = NoRow => key[r] \notin Rows)

OneByOne ==
    scene.side = {} =>
        /\ \A k \in Keys : k \notin Rows => row[k] = <<>>
        /\ \A k \in Keys : k > minted => Empty(k)
        /\ \A r \in Requests : Abreast(r)

LEMMA OneByOneInit == Init => OneByOne
<1> SUFFICES ASSUME Init PROVE OneByOne
  OBVIOUS
<1>1. \A r \in Requests : ~Using(r)
  BY DEF Init, Using, InFlight, At, Done
<1>2. \A k \in Keys : k \notin Rows => row[k] = <<>>
  BY DEF Init, Rows, ToSet
<1>3. \A k \in Keys : Empty(k)
  BY DEF Init, Empty
<1> QED
  BY <1>1, <1>2, <1>3, Zenon DEF OneByOne, Abreast

\* An object that changes or comes leaves the other sessions' as they are.
LEMMA OthersEmpty ==
    ASSUME State, State', NEW p \in Pods, NEW l \in Keys, NEW i \in Nat, NEW o \in Object,
           (i \in 1..Len(objs[p][l]) /\ Swapped(p, l, i, o)) \/ Grown(p, l, o),
           NEW k \in Keys, Empty(k), k # l \/ o.msgs = <<>>
    PROVE  Empty(k)'
<1> SUFFICES ASSUME NEW q \in Pods, NEW j \in 1..Len(objs'[q][k])
             PROVE  objs'[q][k][j].msgs = <<>>
  BY Zenon DEF Empty
<1>1. Len(objs[q][k]) \in Nat /\ Len(objs'[q][k]) \in Nat
  <2>1. objs \in [Pods -> [Keys -> Seq(Object)]] /\ objs' \in [Pods -> [Keys -> Seq(Object)]]
    BY Zenon DEF State, Maps
  <2>2. objs[q][k] \in Seq(Object) /\ objs'[q][k] \in Seq(Object)
    BY <2>1, Zenon
  <2> QED
    BY <2>2
<1>2. CASE q # p \/ k # l
  <2>1. objs'[q][k] = objs[q][k]
    BY <1>2, Zenon DEF Swapped, Grown
  <2> QED
    BY <2>1, Zenon DEF Empty
<1>3. CASE q = p /\ k = l
  <2>1. CASE i \in 1..Len(objs[p][l]) /\ Swapped(p, l, i, o)
    <3>1. j \in 1..Len(objs[p][l])
      BY <1>3, <2>1 DEF Swapped
    <3>2. j = i => objs'[q][k][j] = o
      BY <1>3, <2>1, Zenon DEF Swapped
    <3>3. j # i => objs'[q][k][j] = objs[q][k][j]
      BY <1>3, <2>1, <3>1, Zenon DEF Swapped
    <3> QED
      BY <1>3, <3>1, <3>2, <3>3, Zenon DEF Empty
  <2>2. CASE Grown(p, l, o)
    <3>1. Len(objs'[p][l]) = Len(objs[p][l]) + 1
      BY <2>2, Zenon DEF Grown
    <3>2. j \in 1..Len(objs[p][l]) \/ j = Len(objs[p][l]) + 1
      BY <1>1, <1>3, <3>1
    <3>3. j = Len(objs[p][l]) + 1 => objs'[q][k][j] = o
      BY <1>3, <2>2, Zenon DEF Grown
    <3>4. j \in 1..Len(objs[p][l]) => objs'[q][k][j] = objs[q][k][j]
      BY <1>3, <2>2, Zenon DEF Grown
    <3> QED
      BY <1>3, <3>2, <3>3, <3>4, Zenon DEF Empty
  <2> QED
    BY <2>1, <2>2, Zenon
<1> QED
  BY <1>2, <1>3, Zenon

\* The step of a request whose key stays, and that leaves the rows alone.
LEMMA QuietAbreast ==
    ASSUME State, State', OneByOne, scene.side = {}, NEW r \in Requests,
           row' = row, recent' = recent, minted' = minted, key' = key,
           NEW o \in Object,
           \/ objs' = objs
           \/ /\ key[r] \in 1..minted
              /\ key[r] \in Rows \/ o.msgs = <<>>
              /\ \E i \in Nat : \/ i \in 1..Len(Objects(r)) /\ Swapped(PodOf(r), key[r], i, o)
                                \/ Grown(PodOf(r), key[r], o)
    PROVE  /\ \A k \in Keys : k \notin Rows' => row'[k] = <<>>
           /\ \A k \in Keys : k > minted' => Empty(k)'
           /\ Using(r) => key'[r] \in Rows' \/ Empty(key[r])'
<1>1. Rows' = Rows /\ PodOf(r) \in Pods /\ key[r] \in Keys /\ minted \in Nat
  BY Mine DEF Rows, State, Tables
<1>2. \A k \in Keys : k \notin Rows' => row'[k] = <<>>
  BY <1>1, Zenon DEF OneByOne
<1>3. CASE objs' = objs
  <2>1. \A k \in Keys : Empty(k)' = Empty(k)
    BY <1>3, Zenon DEF Empty
  <2>2. Empty(key[r])' = Empty(key[r])
    BY <1>3, Zenon DEF Empty
  <2>3. \A k \in Keys : k > minted' => Empty(k)'
    BY <2>1, Zenon DEF OneByOne
  <2> QED
    BY <1>1, <1>2, <2>2, <2>3, Zenon DEF OneByOne, Abreast
<1>4. CASE objs' # objs
  <2>1. PICK i \in Nat : \/ i \in 1..Len(objs[PodOf(r)][key[r]]) /\ Swapped(PodOf(r), key[r], i, o)
                         \/ Grown(PodOf(r), key[r], o)
    BY <1>4, Zenon DEF Objects
  <2>2. \A k \in Keys : (Empty(k) /\ (k # key[r] \/ o.msgs = <<>>)) => Empty(k)'
    BY <1>1, <2>1, OthersEmpty, Zenon
  <2>3. \A k \in Keys : k > minted => k # key[r]
    BY <1>1, <1>4
  <2>4. \A k \in Keys : k > minted' => Empty(k)'
    BY <2>2, <2>3, Zenon DEF OneByOne
  <2>5. Using(r) => key'[r] \in Rows' \/ Empty(key[r])'
    <3>1. CASE o.msgs = <<>> /\ Empty(key[r])
      <4>1. \A p \in Pods : \A j \in 1..Len(objs'[p][key[r]]) : objs'[p][key[r]][j].msgs = <<>>
        BY <1>1, <2>2, <3>1, Zenon DEF Empty
      <4> QED
        BY <4>1, Zenon DEF Empty
    <3>2. CASE ~(o.msgs = <<>> /\ Empty(key[r]))
      <4>1. Using(r) => key[r] \in Rows
        BY <1>4, <3>2, Zenon DEF OneByOne, Abreast
      <4> QED
        BY <1>1, <4>1, Zenon
    <3> QED
      BY <3>1, <3>2, Zenon
  <2> QED
    BY <1>2, <2>4, <2>5, Zenon
<1> QED
  BY <1>3, <1>4, Zenon

LEMMA AbreastBy ==
    ASSUME State, Ordered, scene.side = {}, NEW r \in Requests, Start(r) \/ Step(r),
           \A k \in Keys : k \notin Rows' => row'[k] = <<>>,
           \A k \in Keys : k > minted' => Empty(k)',
           Abreast(r)'
    PROVE  OneByOne'
<1>1. Alone(r)
  BY Started, StepMoves, Zenon DEF Moves
<1>2. ASSUME NEW q \in Requests \ {r} PROVE Abreast(q)'
  <2>1. CASE Step(r)
    <3>1. InFlight(r)
      BY <2>1, StepMoves, Zenon DEF Moves
    <3>2. ~InFlight(q)
      BY <3>1, TheOnly, Zenon
    <3>3. ~InFlight(q)'
      BY <1>1, <3>2, OthersSame, Zenon
    <3> QED
      BY <3>3, Zenon DEF Abreast, Using
  <2>2. CASE Start(r)
    <3>1. ~InFlight(q)
      <4>1. r \in Queued /\ scene.queue \in Seq(Requests) /\ At(r, "start")
        BY <2>2, SessionAssumption DEF Start, State, Histories, Scene
      <4>2. PICK i \in DOMAIN scene.queue : scene.queue[i] = r
        BY <4>1 DEF Queued, ToSet
      <4>3. SUFFICES ASSUME InFlight(q) PROVE FALSE
        BY Zenon
      <4>4. q \in Queued /\ ~Done(q) /\ ~At(q, "start")
        BY <4>3, Zenon DEF Ordered, InFlight
      <4>5. PICK j \in DOMAIN scene.queue : scene.queue[j] = q
        BY <4>1, <4>4 DEF Queued, ToSet
      <4>6. \A n \in 1..i - 1 : Done(scene.queue[n])
        BY <2>2, <4>2, Zenon DEF Start
      <4>7. ~(j < i) /\ j # i
        BY <4>1, <4>2, <4>4, <4>5, <4>6
      <4>8. i < j
        BY <4>1, <4>7
      <4>9. Done(r)
        BY <4>2, <4>4, <4>5, <4>8, Zenon DEF Ordered
      <4> QED
        BY <4>1, <4>9, Zenon DEF At, Done
    <3>2. ~InFlight(q)'
      BY <1>1, <3>1, OthersSame, Zenon
    <3> QED
      BY <3>2, Zenon DEF Abreast, Using
  <2> QED
    BY <2>1, <2>2, Zenon
<1> QED
  BY <1>2, Zenon DEF OneByOne

\* Where a step of a Get, and of /undo, comes from and goes to.
LEMMA Afters ==
    ASSUME State, Told, NEW r \in Requests, Scripted(r), Step(r)
    PROVE  /\ At(r, "install")' => At(r, "load")
           /\ At(r, "load") => At(r, "install")'
           /\ At(r, "restore") => At(r, "resolve")'
           /\ \A a, b : At(r, a) /\ At(r, b) => a = b
           /\ \A a, b : At(r, a)' /\ At(r, b)' => a = b
<1>1. /\ todo[r] # <<>> /\ (todo'[r] # <<>> => Leads(Head(todo[r]), Head(todo'[r])))
      /\ Head(todo[r]) \notin Ends => todo'[r] # <<>>
  BY StepMoves, Zenon DEF Moves, InFlight, Done
<1>2. \A a : /\ Leads(a, "install") => a = "load"
             /\ Leads("load", a) => a = "install"
  BY DEF Leads, Follows
<1>3. At(r, "install")' => At(r, "load")
  BY <1>1, <1>2, Zenon DEF At
<1>4. At(r, "load") => At(r, "install")'
  <2>1. "load" \notin Ends
    BY DEF Ends
  <2> QED
    BY <1>1, <1>2, <2>1, Zenon DEF At
<1>5. ASSUME At(r, "restore") PROVE At(r, "resolve")'
  <2>1. todo[r] \in Seq(Ops) /\ todo[r] \in Seq(Vocabulary(kind[r])) /\ Head(todo[r]) = "restore"
    BY <1>5, Zenon DEF State, Paths, Told, At
  <2>2. "restore" \in Vocabulary(kind[r])
    BY <1>1, <2>1
  <2>3. kind[r] = "undo"
    BY <2>2 DEF Vocabulary
  <2>4. Returns(todo[r])
    BY <2>3, Zenon DEF Scripted
  <2>5. "restore" \notin Ends
    BY DEF Ends
  <2>6. todo'[r] # <<>> /\ todo'[r] = Tail(todo[r])
    <3>1. ~At(r, "ask") /\ ~At(r, "lastTurn") /\ ~At(r, "lastUser") /\ ~At(r, "hasSnap")
      BY <1>5 DEF At
    <3> QED
      BY <1>1, <2>1, <2>5, <3>1, Shortened, Zenon
  <2>7. 1 < Len(todo[r]) /\ Head(todo'[r]) = todo[r][1 + 1] /\ todo[r][1] = "restore"
        /\ 1 \in 1..Len(todo[r])
    BY <1>1, <2>1, <2>6
  <2>8. Head(todo'[r]) = "resolve"
    BY <2>4, <2>7 DEF Returns
  <2> QED
    BY <2>6, <2>8, Zenon DEF At
<1> QED
  BY <1>3, <1>4, <1>5, Zenon DEF At

LEMMA OneByOneNext ==
    ASSUME Shared, Serial, OneByOne, \A q \in Requests : Scripted(q) /\ Holding(q), scene.side = {},
           NEW r \in Requests, Step(r), State'
    PROVE  OneByOne'
<1>0. State /\ Told /\ Ordered /\ Scripted(r) /\ Holding(r) /\ Abreast(r)
  BY Zenon DEF Shared, OneByOne
<1>1. /\ \A k \in Keys : k \notin Rows => row[k] = <<>>
      /\ \A k \in Keys : k > minted => Empty(k)
  BY Zenon DEF OneByOne
<1>2. ASSUME \A k \in Keys : k \notin Rows' => row'[k] = <<>>,
             \A k \in Keys : k > minted' => Empty(k)',
             Abreast(r)'
      PROVE  OneByOne'
  BY <1>0, <1>2, AbreastBy, Zenon
<1>3. /\ key \in [Requests -> Keys] /\ row \in [Keys -> Seq(Messages)] /\ PodOf(r) \in Pods
      /\ key[r] \in Keys /\ minted \in Nat /\ scene' = scene /\ PodOf(r)' = PodOf(r) /\ kind' = kind
      /\ got \in [Requests -> Seq(Messages) \cup {NoRow}] /\ seen \in [Requests -> Seq(Messages)]
  <2>1. scene' = scene /\ kind' = kind /\ minted \in Nat
    BY <1>0, Stands, Zenon DEF Moves
  <2> QED
    BY <1>0, <2>1, Mine, Zenon DEF State, Locals, Tables, Histories, PodOf
<1>4. Blank \in Object
  BY DEF Blank, Object
<1>5. ASSUME NEW o \in Object,
             row' = row, recent' = recent, minted' = minted, key' = key,
             \/ objs' = objs
             \/ /\ key[r] \in 1..minted
                /\ key[r] \in Rows \/ o.msgs = <<>>
                /\ \E i \in Nat : \/ i \in 1..Len(Objects(r)) /\ Swapped(PodOf(r), key[r], i, o)
                                  \/ Grown(PodOf(r), key[r], o),
             Using(r)' => /\ Using(r)
                          /\ Held(r)' => Obj(r)'.msgs = row[key[r]]
                          /\ At(r, "install")' =>
                               seen'[r] = row[key[r]] /\ (got'[r] = NoRow => key[r] \notin Rows)
      PROVE  OneByOne'
  <2>1. /\ \A k \in Keys : k \notin Rows' => row'[k] = <<>>
        /\ \A k \in Keys : k > minted' => Empty(k)'
        /\ Using(r) => key'[r] \in Rows' \/ Empty(key[r])'
    BY <1>0, <1>5, QuietAbreast, Zenon
  <2>2. Rows' = Rows
    BY <1>5, Zenon DEF Rows
  <2>3. key'[r] = key[r]
    BY <1>5, Zenon
  <2>4. Abreast(r)'
    BY <1>5, <2>1, <2>2, <2>3, Zenon DEF Abreast
  <2> QED
    BY <1>2, <2>1, <2>4, Zenon
<1>9. ASSUME row' = row, recent' = recent, minted' = minted, key' = key, objs' = objs,
             Using(r)' => /\ Using(r)
                          /\ Held(r)' => Obj(r)'.msgs = row[key[r]]
                          /\ At(r, "install")' =>
                               seen'[r] = row[key[r]] /\ (got'[r] = NoRow => key[r] \notin Rows)
      PROVE  OneByOne'
  BY <1>4, <1>5, <1>9, Zenon
<1>6. ASSUME NEW op, At(r, op), kind[r] # "delete", op # "resolve"
      PROVE  Using(r) /\ key[r] \in 1..minted
  <2>1. Using(r)
    BY <1>0, <1>6, Stands, Afters, Zenon
  <2>2. key[r] <= minted
    BY <2>1, Zenon DEF Serial
  <2>3. key[r] \in Nat /\ key[r] >= 1
    BY <1>3 DEF Keys
  <2> QED
    BY <1>3, <2>1, <2>2, <2>3
<1>7. CASE kind[r] = "delete"
  <2>1. ~Using(r)'
    BY <1>3, <1>7, Zenon DEF Using
  <2>2. Drop(r) \/ Purge(r) \/ DeleteRow(r)
    BY <1>0, <1>7, Stands, Acts, Zenon
  <2>3. CASE Drop(r) \/ Purge(r)
    <3>1. row' = row /\ recent' = recent /\ minted' = minted /\ key' = key /\ objs' = objs
      BY <2>3, Zenon DEF Drop, Purge, db, pods
    <3> QED
      BY <1>9, <2>1, <3>1, Zenon
  <2>4. CASE DeleteRow(r)
    <3>1. /\ row' = [row EXCEPT ![key[r]] = <<>>] /\ recent' = RemoveFirst(recent, key[r])
          /\ minted' = minted /\ objs' = objs
      BY <2>4, Zenon DEF DeleteRow, pods
    <3>2. Rows' = Rows \ {key[r]}
      BY <1>0, <1>3, <3>1, Removed DEF State, Tables, Rows
    <3>3. \A k \in Keys : k \notin Rows' => row'[k] = <<>>
      BY <1>1, <1>3, <3>1, <3>2
    <3>4. \A k \in Keys : k > minted' => Empty(k)'
      BY <1>1, <3>1, Zenon DEF Empty
    <3>5. Abreast(r)'
      BY <2>1, Zenon DEF Abreast
    <3> QED
      BY <1>2, <3>3, <3>4, <3>5, Zenon
  <2> QED
    BY <2>2, <2>3, <2>4, Zenon
<1>8. CASE ResolveOrMintKey(r)
  <2>1. row' = row /\ recent' = recent /\ objs' = objs /\ Rows' = Rows
    BY <1>8, Zenon DEF ResolveOrMintKey, pods, Rows
  <2>2. \/ key'[r] = Head(recent) /\ minted' = minted /\ recent # <<>>
        \/ minted' = minted + 1 /\ key'[r] = minted + 1 /\ minted + 1 \in Keys
    <3>1. CASE recent # <<>>
      BY <1>3, <1>8, <3>1 DEF ResolveOrMintKey
    <3>2. CASE recent = <<>>
      <4>1. minted < MaxKey /\ minted' = minted + 1 /\ key' = [key EXCEPT ![r] = minted + 1]
        BY <1>8, <3>2, Zenon DEF ResolveOrMintKey
      <4>2. minted + 1 \in Keys
        BY <1>3, <4>1, SessionAssumption DEF Keys
      <4> QED
        BY <1>3, <4>1, <4>2
    <3> QED
      BY <3>1, <3>2
  <2>3. key'[r] \in Rows' \/ Empty(key[r])'
    <3>1. CASE key'[r] = Head(recent) /\ recent # <<>>
      BY <1>0, <2>1, <3>1, Stands, Zenon
    <3>2. CASE key'[r] = minted + 1 /\ minted + 1 \in Keys
      <4>1. Empty(minted + 1)
        BY <1>1, <1>3, <3>2
      <4>2. \A p \in Pods : \A i \in 1..Len(objs'[p][key'[r]]) : objs'[p][key'[r]][i].msgs = <<>>
        BY <2>1, <3>2, <4>1, Zenon DEF Empty
      <4> QED
        BY <4>2, Zenon DEF Empty
    <3> QED
      BY <2>2, <3>1, <3>2, Zenon
  <2>4. At(r, "load")'
    BY <1>0, <1>8, Comes, Zenon DEF ResolveOrMintKey
  <2>5. ~Held(r)' /\ ~At(r, "install")'
    BY <2>4 DEF Held, At, ObjOps
  <2>6. Abreast(r)'
    BY <2>3, <2>5, Zenon DEF Abreast
  <2>7. \A k \in Keys : k > minted' => Empty(k)'
    <3>1. \A k \in Keys : k > minted' => k > minted
      BY <1>3, <2>2 DEF Keys
    <3> QED
      BY <1>1, <2>1, <3>1, Zenon DEF Empty
  <2>8. \A k \in Keys : k \notin Rows' => row'[k] = <<>>
    BY <1>1, <2>1, Zenon
  <2> QED
    BY <1>2, <2>6, <2>7, <2>8, Zenon
<1>10. CASE Load(r)
  <2>1. row' = row /\ recent' = recent /\ minted' = minted /\ key' = key /\ objs' = objs /\ At(r, "load")
        /\ got' = [got EXCEPT ![r] = IF key[r] \in Rows THEN row[key[r]] ELSE NoRow]
        /\ seen' = [seen EXCEPT ![r] = row[key[r]]]
    BY <1>10, Zenon DEF Load, db, pods
  <2>2. got'[r] = (IF key[r] \in Rows THEN row[key[r]] ELSE NoRow) /\ seen'[r] = row[key[r]]
    BY <1>3, <2>1, Zenon
  <2>3. got'[r] = NoRow => key[r] \notin Rows
    BY <1>3, <2>2, NoRowAssumption
  <2>4. ~Held(r)'
    <3>1. At(r, "install")'
      BY <1>0, <2>1, Afters, Zenon
    <3> QED
      BY <3>1 DEF Held, At, ObjOps
  <2>5. Using(r)
    BY <1>0, <1>7, <2>1, Stands, Afters, Zenon
  <2> QED
    BY <1>9, <2>1, <2>2, <2>3, <2>4, <2>5, Zenon
<1>11. CASE Install(r)
  <2> DEFINE p == PodOf(r)
             k == key[r]
             c == cur[p][k]
             read == IF got[r] = NoRow THEN <<>> ELSE got[r]
  <2>1. At(r, "install") /\ row' = row /\ recent' = recent /\ minted' = minted /\ key' = key
    BY <1>11, Zenon DEF Install, db
  <2>2. kind[r] # "delete"
    BY <1>0, <2>1, Stands, Afters, Zenon
  <2>3. Using(r) /\ k \in 1..minted
    BY <1>6, <2>1, <2>2
  <2>4. /\ k \in Rows \/ Empty(k)
        /\ seen[r] = row[k] /\ (got[r] = NoRow => k \notin Rows)
    BY <1>0, <2>1, <2>3, Zenon DEF Abreast
  <2>5. read = row[k] /\ (k \in Rows \/ read = <<>>)
    <3>1. k \notin Rows => row[k] = <<>>
      BY <1>1, <1>3, Zenon
    <3>2. got[r] # NoRow => got[r] = seen[r]
      BY <1>0, <2>1, Zenon DEF Holding
    <3> QED
      BY <2>4, <3>1, <3>2
  <2>6. Obj(r)' = objs'[p][k][idx'[r]]
    BY <1>3, <2>1, Zenon DEF Obj
  <2>7. ~At(r, "install")'
    <3>1. ~At(r, "load")
      BY <2>1 DEF At
    <3> QED
      BY <1>0, <3>1, Afters, Zenon
  <2> HIDE DEF read
  <2>8. CASE \E o \in Object : idx'[r] = Len(objs[p][k]) + 1 /\ Grown(p, k, o) /\ o.msgs = read
    <3>1. PICK o \in Object : idx'[r] = Len(objs[p][k]) + 1 /\ Grown(p, k, o) /\ o.msgs = read
      BY <2>8, Zenon
    <3>2. Obj(r)'.msgs = row[k]
      BY <2>5, <2>6, <3>1, Zenon DEF Grown
    <3>3. 0 \in Nat
      OBVIOUS
    <3> QED
      BY <1>5, <2>1, <2>3, <2>5, <2>7, <3>1, <3>2, <3>3, Zenon
  <2>9. CASE \E o \in Object : c \in 1..Len(objs[p][k]) /\ idx'[r] = c /\ Swapped(p, k, c, o) /\ o.msgs = read
    <3>1. PICK o \in Object : /\ c \in 1..Len(objs[p][k]) /\ idx'[r] = c
                             /\ Swapped(p, k, c, o) /\ o.msgs = read
      BY <2>9, Zenon
    <3>2. Obj(r)'.msgs = row[k]
      BY <2>5, <2>6, <3>1, Zenon DEF Swapped
    <3>3. c \in Nat /\ c \in 1..Len(Objects(r))
      BY <3>1 DEF Objects
    <3> QED
      BY <1>5, <2>1, <2>3, <2>5, <2>7, <3>1, <3>2, <3>3, Zenon
  <2>10. CASE c \in 1..Len(objs[p][k]) /\ idx'[r] = c /\ objs' = objs /\ got[r] = NoRow
    <3>1. row[k] = <<>> /\ Empty(k)
      BY <1>1, <1>3, <2>4, <2>10, Zenon
    <3>2. Obj(r)'.msgs = row[k]
      BY <1>3, <2>6, <2>10, <3>1, Zenon DEF Empty
    <3> QED
      BY <1>9, <2>1, <2>3, <2>7, <2>10, <3>2, Zenon
  <2>11. \/ <2>8!1 \/ <2>9!1 \/ <2>10!1
    BY <1>0, <1>11, LoadedIs DEF read
  <2> QED
    BY <2>8, <2>9, <2>10, <2>11, Zenon
<1>12. CASE AppendMsg(r) \/ ReplaceMessages(r)
  <2>1. \E ms \in Seq(Messages) : Writes(r, ms)
    <3>1. CASE AppendMsg(r)
      BY <1>0, <3>1, AppendIs, Adds, Zenon
    <3>2. CASE ReplaceMessages(r)
      BY <1>0, <3>2, ReplaceIs, Zenon
    <3> QED
      BY <1>12, <3>1, <3>2, Zenon
  <2>2. PICK ms \in Seq(Messages), o \in Object :
          /\ row' = [row EXCEPT ![key[r]] = ms] /\ Rows' = Rows \cup {key[r]}
          /\ Swapped(PodOf(r), key[r], idx[r], o) /\ o.msgs = ms
    BY <2>1, Zenon DEF Writes, Turns
  <2>3. PICK op \in {"user", "reply", "replace"} : At(r, op)
    BY <1>12 DEF AppendMsg, ReplaceMessages
  <2>4. op \in ObjOps /\ op # "resolve" /\ op # "load"
    BY DEF ObjOps
  <2>5. kind[r] # "delete"
    BY <1>0, <2>3, Stands, Afters, Zenon
  <2>6. key' = key /\ idx' = idx /\ minted' = minted
    BY <1>12, Zenon DEF AppendMsg, ReplaceMessages
  <2>7. idx[r] \in 1..Len(objs[PodOf(r)][key[r]]) /\ idx[r] \in Nat
    <3>1. idx[r] \in 1..Len(objs[PodOf(r)][key[r]])
      BY <1>0, <2>3, <2>4, Mine, Zenon DEF Objects
    <3> QED
      BY <3>1
  <2>8. key[r] \in 1..minted
    BY <1>6, <2>3, <2>4, <2>5, Zenon
  <2>9. \A k \in Keys : k \notin Rows' => row'[k] = <<>>
    BY <1>1, <1>3, <2>2
  <2>10. \A k \in Keys : k > minted' => Empty(k)'
    <3>1. \A k \in Keys : k > minted => k # key[r]
      BY <1>3, <2>8 DEF Keys
    <3>2. \A k \in Keys : (Empty(k) /\ k # key[r]) => Empty(k)'
      BY <1>0, <1>3, <2>2, <2>7, OthersEmpty, Zenon
    <3> QED
      BY <1>1, <2>6, <3>1, <3>2, Zenon
  <2>11. key'[r] \in Rows' /\ Obj(r)'.msgs = row'[key'[r]]
    <3>1. Obj(r)' = o
      BY <1>3, <2>2, <2>6, Zenon DEF Obj, Swapped
    <3>2. row'[key[r]] = ms
      BY <1>3, <2>2
    <3> QED
      BY <2>2, <2>6, <3>1, <3>2
  <2>12. ~At(r, "install")'
    <3>1. ~At(r, "load")
      BY <1>0, <2>3, <2>4, Afters, Zenon
    <3> QED
      BY <1>0, <3>1, Afters, Zenon
  <2>13. Abreast(r)'
    BY <2>11, <2>12, Zenon DEF Abreast
  <2> QED
    BY <1>2, <2>9, <2>10, <2>13, Zenon
<1>13. ASSUME NEW op \in ObjOps, At(r, op), op \notin {"user", "reply", "replace", "restore"}
       PROVE  OneByOne'
  <2>1. kind[r] # "delete" /\ op # "resolve" /\ op # "load" /\ op # "open" /\ op # "publish"
        /\ op # "purge" /\ op # "drop" /\ op # "deleteRow" /\ op # "install"
    <3>1. op # "resolve" /\ op # "load" /\ op # "open" /\ op # "publish"
          /\ op # "purge" /\ op # "drop" /\ op # "deleteRow" /\ op # "install"
      BY DEF ObjOps
    <3> QED
      BY <1>0, <1>13, <3>1, Stands, Afters, Zenon
  <2>2. Using(r) /\ key[r] \in 1..minted
    BY <1>6, <1>13, <2>1, Zenon
  <2>3. /\ Obj(r).msgs = row[key[r]] /\ (key[r] \in Rows \/ Obj(r).msgs = <<>>)
    <3>1. Held(r)
      BY <1>13, Zenon DEF Held
    <3> QED
      BY <1>0, <1>1, <1>3, <2>2, <3>1, Zenon DEF Abreast
  <2>4. ~At(r, "install")'
    BY <1>0, <1>13, <2>1, Afters, Zenon
  <2>5. \A a \in {"resolve", "load", "open", "publish", "purge", "drop", "deleteRow", "install",
                  "user", "reply", "replace", "restore"} : ~At(r, a)
    <3>1. \A a \in {"resolve", "load", "open", "publish", "purge", "drop", "deleteRow", "install",
                    "user", "reply", "replace", "restore"} : a # op
      BY <1>13, <2>1
    <3> QED
      BY <1>0, <1>13, <3>1, Afters, Zenon
  <2>6. /\ ~AppendMsg(r) /\ ~ReplaceMessages(r) /\ ~OpenRow(r) /\ ~DeleteRow(r) /\ ~Undo(r)
        /\ ~Install(r) /\ ~Publish(r) /\ ~ResolveOrMintKey(r)
    BY <2>5 DEF AppendMsg, ReplaceMessages, OpenRow, DeleteRow, Undo, Install, Publish, ResolveOrMintKey
  <2>7. row' = row /\ recent' = recent /\ key' = key /\ minted' = minted /\ idx' = idx
    BY <2>6, Rests, Zenon
  <2>8. CASE ~Snapshot(r) /\ ~SetAuthMode(r)
    <3>1. objs' = objs
      BY <2>6, <2>8, Rests, Zenon
    <3>2. Obj(r)' = Obj(r)
      BY <1>3, <2>7, <3>1, Zenon DEF Obj
    <3> QED
      BY <1>9, <2>2, <2>3, <2>4, <2>7, <3>1, <3>2, Zenon
  <2>9. CASE Snapshot(r) \/ SetAuthMode(r)
    <3>1. PICK o \in Object : Swapped(PodOf(r), key[r], idx[r], o) /\ o.msgs = Obj(r).msgs
      BY <1>0, <2>9, MarkIs, Zenon DEF Turns
    <3>2. idx[r] \in 1..Len(Objects(r))
      BY <1>0, <1>13, Mine, Zenon
    <3>3. Obj(r)' = o
      BY <1>3, <2>7, <3>1, Zenon DEF Obj, Swapped
    <3>4. idx[r] \in Nat
      BY <3>2
    <3> QED
      BY <1>5, <2>2, <2>3, <2>4, <2>7, <3>1, <3>2, <3>3, <3>4, Zenon
  <2> QED
    BY <2>8, <2>9, Zenon
<1>14. CASE Undo(r)
  <2>1. At(r, "restore") /\ "restore" # "resolve" /\ "restore" \in ObjOps /\ row' = row /\ recent' = recent
        /\ minted' = minted /\ key' = key
    BY <1>14 DEF Undo, db, ObjOps
  <2>2. kind[r] # "delete"
    BY <1>0, <2>1, Stands, Afters, Zenon
  <2>3. Using(r) /\ key[r] \in 1..minted
    BY <1>6, <2>1, <2>2
  <2>4. ~Using(r)'
    BY <1>0, <2>1, Afters, Zenon DEF Using
  <2>5. CASE objs' = objs
    BY <1>9, <2>1, <2>4, <2>5, Zenon
  <2>6. CASE \E o \in Object : Swapped(PodOf(r), key[r], idx[r], o)
    <3>1. PICK o \in Object : Swapped(PodOf(r), key[r], idx[r], o)
      BY <2>6, Zenon
    <3>2. idx[r] \in 1..Len(objs[PodOf(r)][key[r]]) /\ idx[r] \in Nat
      <4>1. idx[r] \in 1..Len(objs[PodOf(r)][key[r]])
        BY <1>0, <2>1, Mine, Zenon DEF Objects
      <4> QED
        BY <4>1
    <3>3. \A k \in Keys : k > minted => k # key[r]
      BY <1>3, <2>3 DEF Keys
    <3>4. \A k \in Keys : k > minted' => Empty(k)'
      BY <1>0, <1>1, <1>3, <2>1, <3>1, <3>2, <3>3, OthersEmpty, Zenon
    <3>5. \A k \in Keys : k \notin Rows' => row'[k] = <<>>
      BY <1>1, <2>1, Zenon DEF Rows
    <3>6. Abreast(r)'
      BY <2>4, Zenon DEF Abreast
    <3> QED
      BY <1>2, <3>4, <3>5, <3>6, Zenon
  <2> QED
    BY <1>0, <1>14, <2>5, <2>6, UndoIs, Zenon DEF Turns
<1>15. CASE OpenRow(r)
  <2> DEFINE n == minted + 1
  <2>1. /\ At(r, "open") /\ minted < MaxKey /\ minted' = n /\ key' = [key EXCEPT ![r] = n]
        /\ row' = [row EXCEPT ![n] = <<>>] /\ Touch(n) /\ objs' = objs
    BY <1>15, Zenon DEF OpenRow, SaveSession, pods
  <2>2. n \in Keys /\ n > minted /\ n \in Nat
    BY <1>3, <2>1, SessionAssumption DEF Keys
  <2> HIDE DEF n
  <2>3. Rows' = Rows \cup {n}
    BY <1>0, <2>1, <2>2, Touched, Zenon DEF State
  <2>4. \A k \in Keys : k \notin Rows' => row'[k] = <<>>
    BY <1>1, <1>3, <2>1, <2>2, <2>3
  <2>5. \A k \in Keys : k > minted' => Empty(k)'
    <3>1. \A k \in Keys : k > minted' => k > minted
      BY <1>3, <2>1, <2>2 DEF Keys
    <3> QED
      BY <1>1, <2>1, <3>1, Zenon DEF Empty
  <2>6. key'[r] \in Rows'
    BY <1>3, <2>1, <2>3
  <2>7. ~Held(r)' /\ ~At(r, "install")'
    <3>1. At(r, "publish")'
      BY <1>0, <2>1, Comes, Zenon
    <3> QED
      BY <3>1 DEF Held, At, ObjOps
  <2>8. Abreast(r)'
    BY <2>6, <2>7, Zenon DEF Abreast
  <2> QED
    BY <1>2, <2>4, <2>5, <2>8, Zenon
<1>16. CASE Publish(r)
  <2>1. At(r, "publish") /\ "publish" # "resolve" /\ row' = row /\ recent' = recent
        /\ minted' = minted /\ key' = key
    BY <1>16 DEF Publish, db
  <2>2. kind[r] # "delete"
    BY <1>0, <2>1, Stands, Afters, Zenon
  <2>3. Using(r) /\ key[r] \in 1..minted
    BY <1>6, <2>1, <2>2
  <2>4. ~Using(r)'
    BY <1>0, <2>1, Comes, Zenon DEF Using
  <2>5. Grown(PodOf(r), key[r], Blank)
    <3>1. /\ objs' = [objs EXCEPT ![PodOf(r)][key[r]] = Append(@, Blank)]
          /\ cur' = [cur EXCEPT ![PodOf(r)][key[r]] = Len(objs[PodOf(r)][key[r]]) + 1]
      BY <1>16, Zenon DEF Publish
    <3> QED
      BY <1>0, <1>3, <1>4, <3>1, Created, Zenon DEF State
  <2>6. Blank.msgs = <<>> /\ 0 \in Nat
    BY DEF Blank
  <2> QED
    BY <1>4, <1>5, <2>1, <2>3, <2>4, <2>5, <2>6, Zenon
<1> QED
  <2>1. PICK op \in Ops : At(r, op)
    <3>1. InFlight(r) /\ todo[r] \in Seq(Ops)
      BY <1>0, StepMoves, Zenon DEF Moves, State, Paths
    <3> QED
      BY <3>1 DEF InFlight, Done, At
  <2>2. CASE op \in ObjOps \ {"user", "reply", "replace", "restore"}
    BY <1>13, <2>1, <2>2
  <2>3. CASE op \notin ObjOps \ {"user", "reply", "replace", "restore"}
    <3>1. \/ ResolveOrMintKey(r) \/ Load(r) \/ Install(r) \/ AppendMsg(r) \/ ReplaceMessages(r)
          \/ Undo(r) \/ OpenRow(r) \/ Publish(r) \/ Drop(r) \/ Purge(r) \/ DeleteRow(r)
      BY <2>1, <2>3 DEF Step, Number, Insert, Ask, LastUser, Snapshot, HasSnapshot, LastTurn,
         SetAuthMode, ObjOps, At
    <3>2. Drop(r) \/ Purge(r) \/ DeleteRow(r) => kind[r] = "delete"
      BY <1>0, Stands, Zenon DEF Drop, Purge, DeleteRow
    <3> QED
      BY <1>7, <1>8, <1>10, <1>11, <1>12, <1>14, <1>15, <1>16, <3>1, <3>2, Zenon
  <2> QED
    BY <2>2, <2>3, Zenon

LEMMA OneByOneStart ==
    ASSUME Shared, OneByOne, NEW r \in Requests, Start(r)
    PROVE  OneByOne'
<1>1. State /\ Ordered /\ UNCHANGED <<db, pods>> /\ scene' = scene /\ InFlight(r)'
  BY Started, Zenon DEF Shared
<1> SUFFICES ASSUME scene.side = {} PROVE OneByOne'
  BY <1>1, Zenon DEF OneByOne
<1>2. PICK k \in Kinds : kind'[r] = k /\ todo'[r] = Script(k)
  BY <1>1, Started, Zenon
<1>3. ~Using(r)'
  <2>1. kind'[r] # "delete" => At(r, "resolve")'
    BY <1>2, Scripts, Zenon DEF At
  <2> QED
    BY <2>1, Zenon DEF Using
<1>4. \A l \in Keys : l \notin Rows' => row'[l] = <<>>
  BY <1>1, Zenon DEF OneByOne, db, Rows
<1>5. \A l \in Keys : l > minted' => Empty(l)'
  BY <1>1, Zenon DEF OneByOne, db, pods, Empty
<1>6. Abreast(r)'
  BY <1>3, Zenon DEF Abreast
<1> QED
  BY <1>1, <1>4, <1>5, <1>6, AbreastBy, Zenon
-----------------------------------------------------------------------------
(* In one session on one pod: so it has while no outdated array was put there *)

\* The objects of the pod that all requests come to.
Alike == \A r \in Requests : \A i \in 1..Len(objs[PodOf(r)][1]) : objs[PodOf(r)][1][i].msgs = row[1]

Snapped == \E r \in Requests : \E i \in 1..Len(objs[PodOf(r)][1]) : objs[PodOf(r)][1][i].snap # NoSnap

\* A /retry that has begun.
Retried == \E q \in Requests : kind[q] = "retry" /\ ~At(q, "start")

OneObject ==
    Together(scene) =>
        /\ 1 \in stale \/ Alike
        /\ \A r \in Requests : At(r, "install") => got[r] # NoRow
        /\ \A r \in Requests : ~At(r, "restore")
        /\ Snapped => Retried

LEMMA OneObjectInit == Init => OneObject
<1> SUFFICES ASSUME Init PROVE Alike /\ ~Snapped /\ \A r \in Requests : ~At(r, "install") /\ ~At(r, "restore")
  BY Zenon DEF OneObject
<1>1. \A r \in Requests : ~At(r, "install") /\ ~At(r, "restore")
  BY DEF Init, At
<1>2. ASSUME NEW r \in Requests PROVE objs[PodOf(r)][1] = <<>>
  BY SessionAssumption DEF Init, PodOf, Scene, Keys
<1> QED
  BY <1>1, <1>2 DEF Alike, Snapped

\* What holds of the pod's one object holds of them all.
LEMMA OneOfAll ==
    ASSUME State, State', Together(scene), scene' = scene, NEW r \in Requests,
           Len(objs'[PodOf(r)][1]) <= 1
    PROVE  /\ (Len(objs'[PodOf(r)][1]) = 1 => objs'[PodOf(r)][1][1].msgs = row'[1]) => Alike'
           /\ Snapped' => Len(objs'[PodOf(r)][1]) = 1 /\ objs'[PodOf(r)][1][1].snap # NoSnap
<1>1. \A q \in Requests : PodOf(q)' = PodOf(r)
  BY Zenon DEF Together, OnePod, PodOf
<1>2. Len(objs'[PodOf(r)][1]) \in Nat
  <2>1. PodOf(r) \in Pods /\ 1 \in Keys
    BY Mine, SessionAssumption DEF Keys
  <2> QED
    BY <2>1 DEF State, Maps
<1>3. \A i \in 1..Len(objs'[PodOf(r)][1]) : i = 1 /\ Len(objs'[PodOf(r)][1]) = 1
  <2> DEFINE n == Len(objs'[PodOf(r)][1])
  <2>1. n \in Nat /\ n <= 1
    BY <1>2
  <2> HIDE DEF n
  <2>2. \A i \in 1..n : i = 1 /\ n = 1
    BY <2>1
  <2> QED
    BY <2>2, Zenon DEF n
<1>4. ASSUME Len(objs'[PodOf(r)][1]) = 1 => objs'[PodOf(r)][1][1].msgs = row'[1] PROVE Alike'
  <2>1. SUFFICES ASSUME NEW q \in Requests, NEW i \in 1..Len(objs'[PodOf(q)'][1])
                 PROVE  objs'[PodOf(q)'][1][i].msgs = row'[1]
    BY Zenon DEF Alike
  <2>2. PodOf(q)' = PodOf(r)
    BY <1>1, Zenon
  <2>3. i \in 1..Len(objs'[PodOf(r)][1])
    BY <2>1, <2>2, Zenon
  <2>4. i = 1 /\ objs'[PodOf(r)][1][1].msgs = row'[1]
    BY <1>3, <1>4, <2>3, Zenon
  <2> QED
    BY <2>2, <2>4, Zenon
<1>5. ASSUME Snapped' PROVE Len(objs'[PodOf(r)][1]) = 1 /\ objs'[PodOf(r)][1][1].snap # NoSnap
  <2>1. PICK q \in Requests : \E i \in 1..Len(objs'[PodOf(q)'][1]) : objs'[PodOf(q)'][1][i].snap # NoSnap
    BY <1>5, Zenon DEF Snapped
  <2>2. PodOf(q)' = PodOf(r)
    BY <1>1, Zenon
  <2>3. PICK i \in 1..Len(objs'[PodOf(r)][1]) : objs'[PodOf(r)][1][i].snap # NoSnap
    BY <2>1, <2>2, Zenon
  <2>4. i = 1 /\ Len(objs'[PodOf(r)][1]) = 1
    BY <1>3, <2>3, Zenon
  <2> QED
    BY <2>3, <2>4, Zenon
<1> QED
  BY <1>4, <1>5, Zenon

LEMMA RewoundNot ==
    ASSUME Shared, \A q \in Requests : Scripted(q), Together(scene), Retried,
           NEW r \in Requests, At(r, "hasSnap")
    PROVE  FALSE
<1>1. kind[r] = "undo" /\ ~At(r, "start")
  <2>1. "hasSnap" \in Vocabulary(kind[r])
    BY DEF Shared, Told, At
  <2>2. kind[r] = "undo"
    BY <2>1 DEF Vocabulary
  <2> QED
    BY <2>2 DEF At
<1>2. PICK q \in Requests : kind[q] = "retry" /\ ~At(q, "start")
  BY Zenon DEF Retried
<1>3. /\ "undo" \in IF r \in Queued THEN scene.kinds ELSE scene.sideKinds
      /\ "retry" \in IF q \in Queued THEN scene.kinds ELSE scene.sideKinds
  BY <1>1, <1>2, Zenon DEF Scripted
<1>4. Len(scene.queue) <= 1 /\ r \in Queued /\ q \in Queued
  BY <1>3 DEF Together, Rewinds
<1>5. scene.queue \in Seq(Requests)
  BY SessionAssumption DEF Shared, State, Histories, Scene
<1>6. PICK i \in 1..Len(scene.queue), j \in 1..Len(scene.queue) : scene.queue[i] = r /\ scene.queue[j] = q
  BY <1>4, <1>5 DEF Queued, ToSet
<1>7. i = j
  BY <1>4, <1>5, <1>6
<1> QED
  BY <1>1, <1>2, <1>6, <1>7

LEMMA OneObjectNext ==
    ASSUME Shared, OneObject, \A q \in Requests : Scripted(q) /\ Holding(q),
           NEW r \in Requests, Start(r) \/ Step(r), State'
    PROVE  OneObject'
<1>0. State /\ Told /\ OneSession
  BY Zenon DEF Shared
<1>1. /\ scene' = scene /\ Alone(r)
      /\ \A q \in Requests \ {r} : \A op \in Ops : At(q, op)' = At(q, op)
      /\ "install" \in Ops /\ "restore" \in Ops /\ "start" \in Ops
  <2>1. scene' = scene /\ Alone(r)
    BY <1>0, Started, StepMoves, Zenon DEF Moves
  <2>2. "install" \in Ops /\ "restore" \in Ops /\ "start" \in Ops
    BY DEF Ops
  <2> QED
    BY <2>1, <2>2, OthersSame, Zenon
<1> SUFFICES ASSUME Together(scene) PROVE OneObject'
  BY <1>1, Zenon DEF OneObject
<1>2. /\ 1 \in stale \/ Alike
      /\ \A q \in Requests : At(q, "install") => got[q] # NoRow
      /\ \A q \in Requests : ~At(q, "restore")
      /\ Snapped => Retried
      /\ Steady(scene)
  BY Zenon DEF OneObject, Together
<1>3. ASSUME 1 \in stale' \/ Alike', At(r, "install")' => got'[r] # NoRow, ~At(r, "restore")',
             Snapped' => Retried'
      PROVE  OneObject'
  <2>1. \A q \in Requests : At(q, "install")' => got'[q] # NoRow
    BY <1>1, <1>2, <1>3, Zenon DEF Alone
  <2>2. \A q \in Requests : ~At(q, "restore")'
    BY <1>1, <1>2, <1>3, Zenon
  <2> QED
    BY <1>1, <1>3, <2>1, <2>2, Zenon DEF OneObject
<1>4. Retried => Retried'
  <2> SUFFICES ASSUME NEW q \in Requests, kind[q] = "retry", ~At(q, "start")
               PROVE  kind'[q] = "retry" /\ ~At(q, "start")'
    BY Zenon DEF Retried
  <2>1. CASE q # r
    BY <1>1, <2>1, Zenon DEF Alone
  <2>2. CASE q = r
    <3>1. Step(r)
      BY <1>0, <2>2, Started, Zenon
    <3> QED
      BY <1>0, <2>2, <3>1, StepMoves, Comes, Zenon DEF Moves
  <2> QED
    BY <2>1, <2>2, Zenon
<1>5. CASE Start(r)
  <2>1. UNCHANGED <<db, pods>> /\ stale' = stale
    BY <1>0, <1>5, Started, Zenon DEF hist
  <2>2. todo'[r] # <<>> => Head(todo'[r]) \in {"drop", "resolve"}
    BY <1>0, <1>5, Started, Scripts
  <2>3. ~At(r, "install")' /\ ~At(r, "restore")'
    BY <2>2 DEF At
  <2>4. Alike' = Alike /\ Snapped' = Snapped
    BY <1>1, <2>1, Zenon DEF Alike, Snapped, db, pods, PodOf
  <2> QED
    BY <1>2, <1>3, <1>4, <2>1, <2>3, <2>4, Zenon
<1>6. CASE Step(r)
  <2> DEFINE P == PodOf(r)
  <2>1. /\ P \in Pods /\ key[r] = 1 /\ Rows = {1} /\ 1 \in Keys /\ row \in [Keys -> Seq(Messages)]
        /\ Len(objs'[P][1]) <= 1 /\ cur[P][1] = Len(objs[P][1]) /\ Len(objs[P][1]) <= 1
        /\ Len(objs[P][1]) \in Nat /\ P' = P
    <3>1. P \in Pods /\ 1 \in Keys /\ row \in [Keys -> Seq(Messages)] /\ P' = P
      BY <1>0, <1>1, Mine, SessionAssumption DEF Keys, State, Tables, PodOf
    <3>2. Len(objs'[P][1]) <= 1
      BY <1>0, <1>2, <1>6, <3>1, OneMaps, Zenon
    <3>3. Len(objs[P][1]) \in Nat
      BY <1>0, <3>1 DEF State, Maps
    <3> QED
      BY <1>0, <1>2, <3>1, <3>2, <3>3, Zenon DEF OneSession
  <2>2. \/ ResolveOrMintKey(r) \/ Load(r) \/ Install(r)
        \/ AppendMsg(r) \/ Number(r) \/ Insert(r) \/ ReplaceMessages(r)
        \/ Ask(r) \/ LastUser(r) \/ Snapshot(r) \/ HasSnapshot(r) \/ LastTurn(r)
        \/ SetAuthMode(r)
    <3>1. ~Undo(r)
      BY <1>2, Zenon DEF Undo
    <3> QED
      BY <1>0, <1>2, <1>6, <3>1, SteadySteps, Zenon DEF Step, OpenRow, Publish, Drop, Purge, DeleteRow
  <2>3. At(r, "install")' => got'[r] # NoRow
    <3>1. SUFFICES ASSUME Load(r) PROVE got'[r] # NoRow
      BY <1>0, <1>6, Afters, Acts, Zenon
    <3>2. got'[r] = row[1]
      BY <1>0, <2>1, <3>1 DEF Load, State, Locals
    <3> QED
      BY <2>1, <3>2, NoRowAssumption
  <2>4. ~At(r, "restore")'
    <3>1. SUFFICES ASSUME At(r, "restore")' PROVE FALSE
      BY Zenon
    <3>2. At(r, "hasSnap")
      <4>1. todo[r] # <<>> /\ Leads(Head(todo[r]), Head(todo'[r])) /\ Head(todo'[r]) = "restore"
        BY <1>0, <1>6, <3>1, StepMoves, Zenon DEF At, Moves, InFlight, Done
      <4>2. Head(todo[r]) = "hasSnap"
        BY <4>1 DEF Leads, Follows
      <4> QED
        BY <4>1, <4>2, Zenon DEF At
    <3>3. HasSnapshot(r)
      BY <1>6, <3>2, Acts, Zenon
    <3>4. Obj(r).snap # NoSnap
      <4>1. SUFFICES ASSUME Next1(r) PROVE FALSE
        BY <3>3, Zenon DEF HasSnapshot
      <4>2. Follows("hasSnap", Head(todo'[r]))
        BY <1>0, <3>1, <3>2, <4>1, Advance, Zenon DEF At
      <4> QED
        BY <3>1, <4>2 DEF Follows, At
    <3>5. Snapped
      <4>1. idx[r] \in 1..Len(objs[P][1]) /\ Obj(r) = objs[P][1][idx[r]]
        BY <1>0, <2>1, <3>2, Mine DEF ObjOps, Objects, Obj
      <4> QED
        BY <3>4, <4>1, Zenon DEF Snapped
    <3> QED
      BY <1>2, <3>2, <3>5, RewoundNot, Zenon
  <2>5. ASSUME Len(objs'[P][1]) = 1 => objs'[P][1][1].msgs = row'[1] \/ 1 \in stale'
        PROVE  1 \in stale' \/ Alike'
    BY <1>0, <1>1, <2>1, <2>5, OneOfAll, Zenon
  <2>6. ASSUME Len(objs'[P][1]) = 1 /\ objs'[P][1][1].snap # NoSnap => Retried'
        PROVE  Snapped' => Retried'
    BY <1>0, <1>1, <2>1, <2>6, OneOfAll, Zenon
  <2>7. Len(objs[P][1]) = 1 => /\ objs[P][1][1].msgs = row[1] \/ 1 \in stale
                               /\ objs[P][1][1].snap # NoSnap => Retried
    <3>1. Len(objs[P][1]) = 1 => 1 \in 1..Len(objs[P][1])
      OBVIOUS
    <3> QED
      BY <1>2, <3>1, Zenon DEF Alike, Snapped
  <2>8. stale \subseteq stale'
    BY <1>6, Rests, Zenon
  <2>9. ASSUME NEW op \in ObjOps, At(r, op)
        PROVE  idx[r] = 1 /\ Len(objs[P][1]) = 1 /\ Obj(r) = objs[P][1][1]
    BY <1>2, <2>1, <2>9, SameOne, Zenon DEF Obj
  <2>10. CASE Install(r)
    <3>1. got[r] # NoRow /\ got[r] = seen[r]
      BY <1>2, <2>10, Zenon DEF Install, Holding
    <3>2. 1 \in stale' \/ got[r] = row[1]
      BY <2>1, <2>10, <3>1 DEF Install, MarkStale
    <3>3. row' = row
      BY <2>10, Zenon DEF Install, db
    <3>4. CASE \E o \in Object : cur[P][1] = 0 /\ Grown(P, 1, o) /\ o.msgs = got[r] /\ o.snap = NoSnap
      <4>1. Len(objs[P][1]) + 1 = 1
        BY <2>1, <3>4
      <4>2. objs'[P][1][1].msgs = got[r] /\ objs'[P][1][1].snap = NoSnap
        BY <3>4, <4>1, Zenon DEF Grown
      <4> QED
        BY <1>3, <2>3, <2>4, <2>5, <2>6, <3>2, <3>3, <4>2, Zenon
    <3>5. CASE \E o \in Object : /\ cur[P][1] \in 1..Len(objs[P][1]) /\ Swapped(P, 1, cur[P][1], o)
                                 /\ o.msgs = got[r] /\ o.snap = objs[P][1][cur[P][1]].snap
      <4> DEFINE n == Len(objs[P][1])
                 c == cur[P][1]
      <4>0. n \in Nat /\ n <= 1 /\ c \in 1..n
        BY <2>1, <3>5, Zenon
      <4> HIDE DEF n, c
      <4>1. c = 1 /\ n = 1
        BY <4>0
      <4> USE DEF n, c
      <4>2. \E o \in Object : Swapped(P, 1, 1, o) /\ o.msgs = got[r] /\ o.snap = objs[P][1][1].snap
        BY <3>5, <4>1, Zenon
      <4>3. PICK o \in Object : Swapped(P, 1, 1, o) /\ o.msgs = got[r] /\ o.snap = objs[P][1][1].snap
        BY <4>2, Zenon
      <4>4. objs'[P][1][1] = o
        BY <4>3, Zenon DEF Swapped
      <4>5. objs'[P][1][1].msgs = got[r] /\ objs'[P][1][1].snap = objs[P][1][1].snap
        BY <4>3, <4>4, Zenon
      <4> QED
        BY <1>3, <1>4, <2>3, <2>4, <2>5, <2>6, <2>7, <3>2, <3>3, <4>1, <4>5, Zenon
    <3> QED
      BY <1>0, <2>1, <2>10, <3>1, <3>4, <3>5, LoadedIs
  <2>11. CASE AppendMsg(r) \/ ReplaceMessages(r)
    <3>1. PICK ms : Writes(r, ms)
      BY <1>0, <2>11, AppendIs, ReplaceIs, Zenon
    <3>2. PICK o \in Object : Swapped(P, 1, idx[r], o) /\ o.msgs = ms /\ o.snap = Obj(r).snap
      BY <2>1, <3>1, Zenon DEF Writes, Turns
    <3>3. row'[1] = ms
      BY <2>1, <3>1 DEF Writes
    <3>4. idx[r] = 1 /\ Len(objs[P][1]) = 1 /\ Obj(r) = objs[P][1][1]
      <4>1. \E op \in {"user", "reply", "replace"} : At(r, op)
        BY <2>11 DEF AppendMsg, ReplaceMessages
      <4> QED
        BY <2>9, <4>1 DEF ObjOps
    <3>5. objs'[P][1][1] = o
      BY <3>2, <3>4, Zenon DEF Swapped
    <3> QED
      BY <1>3, <1>4, <2>3, <2>4, <2>5, <2>6, <2>7, <3>2, <3>3, <3>4, <3>5, Zenon
  <2>12. CASE Snapshot(r) \/ SetAuthMode(r)
    <3>1. PICK o \in Object : /\ Swapped(P, 1, idx[r], o) /\ o.msgs = Obj(r).msgs
                              /\ o.snap = Obj(r).snap \/ At(r, "snapshot")
      BY <1>0, <2>1, <2>12, MarkIs, Zenon DEF Turns
    <3>2. row' = row
      BY <2>12, Zenon DEF Snapshot, SetAuthMode, db
    <3>3. idx[r] = 1 /\ Len(objs[P][1]) = 1 /\ Obj(r) = objs[P][1][1]
      <4>1. \E op \in {"snapshot", "setMode"} : At(r, op)
        BY <2>12 DEF Snapshot, SetAuthMode
      <4> QED
        BY <2>9, <4>1 DEF ObjOps
    <3>4. objs'[P][1][1] = o
      BY <3>1, <3>3, Zenon DEF Swapped
    <3>5. At(r, "snapshot") => Retried
      <4>1. SUFFICES ASSUME At(r, "snapshot") PROVE Retried
        OBVIOUS
      <4>2. "snapshot" \in Vocabulary(kind[r])
        BY <1>0, <4>1 DEF Told, At
      <4>3. kind[r] = "retry" /\ ~At(r, "start")
        BY <4>1, <4>2 DEF Vocabulary, At
      <4> QED
        BY <4>3, Zenon DEF Retried
    <3> QED
      BY <1>3, <1>4, <2>3, <2>4, <2>5, <2>6, <2>7, <2>8, <3>1, <3>2, <3>3, <3>4, <3>5
  <2>13. CASE ~Install(r) /\ ~AppendMsg(r) /\ ~ReplaceMessages(r) /\ ~Snapshot(r) /\ ~SetAuthMode(r)
    <3>1. row' = row /\ objs' = objs
      BY <2>2, <2>13, Zenon DEF ResolveOrMintKey, Load, Number, Insert, Ask, LastUser, HasSnapshot,
         LastTurn, db, pods
    <3>2. Alike' = Alike /\ Snapped' = Snapped
      BY <1>1, <3>1, Zenon DEF Alike, Snapped, PodOf
    <3> QED
      BY <1>2, <1>3, <1>4, <2>3, <2>4, <2>8, <3>2
  <2> QED
    BY <2>10, <2>11, <2>12, <2>13, Zenon
<1> QED
  BY <1>5, <1>6, Zenon

-----------------------------------------------------------------------------
(* What a step takes from a row, and what it adds *)

\* The object that a request works on has the messages of the row.
LEMMA Latest ==
    ASSUME Shared, OneByOne, OneObject, Undisturbed(scene), NEW r \in Requests, Held(r),
           key[r] \notin stale
    PROVE  Obj(r).msgs = row[key[r]]
<1>1. PICK op \in ObjOps : At(r, op)
  BY Zenon DEF Held
<1>2. CASE scene.side = {}
  <2>1. Using(r)
    <3>1. InFlight(r) /\ ~At(r, "resolve")
      BY <1>1 DEF ObjOps, InFlight, Done, At
    <3>2. kind[r] # "delete"
      BY <1>1 DEF ObjOps, Shared, Told, At, Done
    <3> QED
      BY <3>1, <3>2, Zenon DEF Using
  <2> QED
    BY <1>2, <2>1, Zenon DEF OneByOne, Abreast
<1>3. CASE Together(scene)
  <2>1. /\ key[r] = 1 /\ idx[r] = 1 /\ Len(objs[PodOf(r)][1]) = 1
    BY <1>1, <1>3, SameOne, Zenon DEF Together
  <2>2. Alike
    BY <1>3, <2>1, Zenon DEF OneObject
  <2>3. 1 \in 1..Len(objs[PodOf(r)][1])
    BY <2>1
  <2> QED
    BY <2>1, <2>2, <2>3, Zenon DEF Alike, Obj
<1> QED
  BY <1>2, <1>3, Zenon DEF Undisturbed

LEMMA RowSteps ==
    ASSUME Shared, Serial, OneByOne, OneObject, Undisturbed(scene), \A q \in Requests : Holding(q),
           NEW r \in Requests, Step(r), NEW k \in Keys \ stale'
    PROVE  /\ todo'[r] # todo[r]
           /\ Lost(k) # {} => key[r] = k /\ Drops(r)
           /\ \A m \in ToSet(row'[k]) \ ToSet(row[k]) : m = Summary \/ (m[1] = r /\ At(r, m[2]))
<1>0. /\ State /\ Told /\ row \in [Keys -> Seq(Messages)] /\ key[r] \in Keys /\ k \notin stale
      /\ minted \in Nat
  <2>1. State /\ Told
    BY Zenon DEF Shared
  <2>2. row \in [Keys -> Seq(Messages)] /\ minted \in Nat
    BY <2>1, Stands, Zenon DEF State, Tables
  <2> QED
    BY <2>1, <2>2, Mine, Rests, Zenon
<1>1. todo'[r] # todo[r]
  <2>1. todo[r] # <<>> /\ (todo'[r] # <<>> => Leads(Head(todo[r]), Head(todo'[r])))
    BY <1>0, StepMoves, Zenon DEF Moves, InFlight, Done
  <2>2. \A a : ~Leads(a, a)
    BY DEF Leads, Follows
  <2> QED
    BY <2>1, <2>2, Zenon
<1>2. ASSUME row'[k] = row[k]
      PROVE  /\ Lost(k) = {}
             /\ \A m \in ToSet(row'[k]) \ ToSet(row[k]) : m = Summary \/ (m[1] = r /\ At(r, m[2]))
  BY <1>2, Zenon DEF Lost
<1>3. CASE AppendMsg(r)
  <2>1. PICK part \in {"user", "reply"} :
          /\ At(r, part) /\ Obj(r).msgs \in Seq(Messages) /\ <<r, part>> \in Messages
          /\ row' = [row EXCEPT ![key[r]] = Append(Obj(r).msgs, <<r, part>>)]
    BY <1>0, <1>3, AppendIs, Zenon DEF Writes
  <2>2. CASE k # key[r]
    BY <1>0, <1>1, <1>2, <2>1, <2>2
  <2>3. CASE k = key[r]
    <3>1. Held(r)
      BY <2>1 DEF Held, ObjOps
    <3>2. row'[k] = Append(row[k], <<r, part>>)
      <4>1. Obj(r).msgs = row[k]
        BY <1>0, <2>3, <3>1, Latest, Zenon
      <4> QED
        BY <1>0, <2>1, <2>3, <4>1
    <3>3. ToSet(row'[k]) = ToSet(row[k]) \cup {<<r, part>>}
      BY <1>0, <2>1, <3>2, Adds
    <3>4. Lost(k) = {} /\ \A m \in ToSet(row'[k]) \ ToSet(row[k]) : m = <<r, part>>
      BY <3>3 DEF Lost
    <3> QED
      BY <1>1, <2>1, <3>4
  <2> QED
    BY <2>2, <2>3, Zenon
<1>4. CASE ReplaceMessages(r)
  <2>1. /\ At(r, "replace") /\ got[r] \in Seq(Messages) /\ row' = [row EXCEPT ![key[r]] = got[r]]
        /\ Outdated(r) => key[r] \in stale'
    BY <1>0, <1>4, ReplaceIs DEF Writes, MarkStale
  <2>2. CASE k # key[r]
    BY <1>0, <1>1, <1>2, <2>1, <2>2
  <2>3. CASE k = key[r]
    <3>1. Held(r) /\ ~Outdated(r)
      BY <2>1, <2>3 DEF Held, ObjOps
    <3>2. seen[r] = row[k]
      <4>1. Obj(r).msgs = row[k]
        BY <1>0, <2>3, <3>1, Latest, Zenon
      <4> QED
        BY <3>1, <4>1, Zenon DEF Outdated
    <3>3. row'[k] = got[r] /\ ToSet(got[r]) \subseteq ToSet(row[k]) \cup {Summary}
      BY <1>0, <2>1, <2>3, <3>2 DEF Holding
    <3>4. Drops(r)
      BY <1>1, <2>1, <3>1, Zenon DEF Drops
    <3> QED
      BY <1>1, <2>3, <3>3, <3>4
  <2> QED
    BY <2>2, <2>3, Zenon
<1>5. CASE OpenRow(r)
  <2>1. scene.side = {}
    BY <1>0, <1>5, SteadySteps, Zenon DEF Undisturbed, Together, OpenRow
  <2>2. minted < MaxKey /\ row' = [row EXCEPT ![minted + 1] = <<>>]
    BY <1>5, Zenon DEF OpenRow, SaveSession
  <2>3. minted + 1 \in Keys /\ minted + 1 \notin 1..minted
    BY <1>0, <2>2, SessionAssumption DEF Keys
  <2>4. row[minted + 1] = <<>>
    BY <2>1, <2>3, Zenon DEF OneByOne, Serial
  <2>5. row'[k] = row[k]
    BY <1>0, <2>2, <2>3, <2>4
  <2> QED
    BY <1>1, <1>2, <2>5, Zenon
<1>6. CASE DeleteRow(r)
  <2>1. At(r, "deleteRow") /\ row' = [row EXCEPT ![key[r]] = <<>>]
    BY <1>6, Zenon DEF DeleteRow
  <2>2. CASE k # key[r]
    BY <1>0, <1>1, <1>2, <2>1, <2>2
  <2>3. CASE k = key[r]
    <3>1. ToSet(row'[k]) = {}
      BY <1>0, <2>1, <2>3 DEF ToSet
    <3> QED
      BY <1>1, <2>1, <2>3, <3>1, Zenon DEF Drops
  <2> QED
    BY <2>2, <2>3, Zenon
<1>7. CASE ~AppendMsg(r) /\ ~ReplaceMessages(r) /\ ~OpenRow(r) /\ ~DeleteRow(r)
  <2>1. row' = row
    BY <1>7, Rests, Zenon
  <2> QED
    BY <1>1, <1>2, <2>1, Zenon
<1> QED
  BY <1>3, <1>4, <1>5, <1>6, <1>7, Zenon

-----------------------------------------------------------------------------
(* What the prompt of a turn has *)

\* From the user's message to the reply.  What others than the queue's requests
\* say meanwhile need not be in the prompt; with nobody beside the queue there
\* is no such thing.
Asked(r) ==
    (r \in Queued /\ kind[r] = "turn" /\ InFlight(r)) =>
        /\ (At(r, "reply") /\ key[r] \notin stale) =>
             \A m \in ToSet(row[key[r]]) : m[1] \notin scene.side => m \in ToSet(got[r]) \cup {Summary}
        /\ scene.side = {} =>
             /\ Len(todo[r]) \in 5..7 => row[key[r]] # <<>> /\ Last(row[key[r]]) = <<r, "user">>
             /\ Len(todo[r]) \in 3..4 => got[r] # <<>> /\ Last(got[r]) = <<r, "user">>
             /\ At(r, "reply") => ToSet(got[r]) = ToSet(row[key[r]])

LEMMA AskedInit == Init => \A r \in Requests : Asked(r)
<1> SUFFICES ASSUME Init, NEW r \in Requests PROVE ~InFlight(r)
  BY Zenon DEF Asked
<1> QED
  BY DEF Init, InFlight, At

\* How far a step of a turn goes.
LEMMA TurnGoes ==
    ASSUME State, Told, NEW r \in Requests, Scripted(r), kind[r] = "turn", Step(r)
    PROVE  /\ Len(todo[r]) \in Nat
           /\ \/ Len(todo'[r]) = Len(todo[r]) - 1
              \/ At(r, "ask") /\ Len(todo[r]) = 5 /\ Len(todo'[r]) = 3
<1>1. InFlight(r) /\ todo[r] \in Seq(Ops) /\ todo[r] # <<>> /\ todo[r] \in Seq(Vocabulary("turn"))
  BY StepMoves, Zenon DEF Moves, InFlight, Done, State, Paths, Told
<1>2. ~At(r, "lastTurn") /\ ~At(r, "lastUser") /\ ~At(r, "hasSnap")
  <2>1. Head(todo[r]) \in Vocabulary("turn")
    BY <1>1
  <2> QED
    BY <2>1 DEF Vocabulary, At
<1>3. \/ todo'[r] = Tail(todo[r])
      \/ At(r, "ask") /\ todo'[r] = SubSeq(todo[r], 3, Len(todo[r]))
  BY <1>2, Shortened, Zenon
<1>4. At(r, "ask") => Len(todo[r]) = 5
  BY <1>1, TurnAt, Zenon
<1>5. CASE todo'[r] = Tail(todo[r])
  BY <1>1, <1>5
<1>6. CASE At(r, "ask") /\ todo'[r] = SubSeq(todo[r], 3, Len(todo[r]))
  <2>1. todo'[r] = SubSeq(todo[r], 2 + 1, Len(todo[r])) /\ Len(todo[r]) = 5 /\ 2 \in Nat /\ 2 <= 5
    BY <1>4, <1>6
  <2>2. Len(SubSeq(todo[r], 2 + 1, Len(todo[r]))) = Len(todo[r]) - 2
    BY <1>1, <2>1, Lefts
  <2> QED
    BY <1>6, <2>1, <2>2
<1> QED
  BY <1>3, <1>5, <1>6, Zenon

\* The array that a turn takes to the model.
LEMMA AskIs ==
    ASSUME State, NEW r \in Requests, Ask(r), Len(Obj(r).msgs) # 0
    PROVE  /\ got'[r] # <<>> /\ Last(got'[r]) = Last(Obj(r).msgs) /\ row' = row /\ key' = key
           /\ Len(todo[r]) = 5 => Len(todo'[r]) = 4 \/ got'[r] = Obj(r).msgs
<1>1. Obj(r).msgs \in Seq(Messages) /\ got \in [Requests -> Seq(Messages) \cup {NoRow}]
      /\ todo[r] \in Seq(Ops) /\ todo \in [Requests -> Seq(Ops)]
  <2>1. At(r, "ask") /\ "ask" \in ObjOps
    BY DEF Ask, ObjOps
  <2> QED
    BY <2>1, Mine, Zenon DEF State, Locals, Paths
<1>2. row' = row /\ key' = key
  BY Zenon DEF Ask, db
<1>3. CASE got' = [got EXCEPT ![r] = Obj(r).msgs]
  <2>1. got'[r] = Obj(r).msgs
    BY <1>1, <1>3, Zenon
  <2>2. Obj(r).msgs # <<>>
    BY <1>1
  <2> QED
    BY <1>2, <2>1, <2>2, Zenon
<1>4. CASE Len(Obj(r).msgs) > PruneTurnAge /\ got' = [got EXCEPT ![r] = Compressed(Obj(r).msgs)] /\ Next1(r)
  <2>1. got'[r] = Compressed(Obj(r).msgs)
    BY <1>1, <1>4
  <2>2. Len(todo[r]) = 5 => Len(todo'[r]) = 4
    <3>1. todo'[r] = Tail(todo[r]) /\ todo[r] # <<>>
      BY <1>4, Advance, Zenon DEF Ask, At
    <3> QED
      BY <1>1, <3>1
  <2> QED
    BY <1>1, <1>2, <1>4, <2>1, <2>2, Compresses, Zenon
<1> QED
  BY <1>3, <1>4, Zenon DEF Ask

LEMMA AskedStep ==
    ASSUME Shared, OneByOne, OneObject, Undisturbed(scene), NEW r \in Requests, Scripted(r), Asked(r),
           Step(r), State', Scripted(r)'
    PROVE  Asked(r)'
<1>0. State /\ Told /\ kind' = kind /\ scene' = scene /\ InFlight(r) /\ key[r] \in Keys
      /\ row \in [Keys -> Seq(Messages)] /\ Queued' = Queued /\ stale \subseteq stale'
  <2>1. State /\ Told
    BY Zenon DEF Shared
  <2>2. kind' = kind /\ scene' = scene /\ InFlight(r)
    BY <2>1, StepMoves, Zenon DEF Moves
  <2>3. row \in [Keys -> Seq(Messages)]
    BY <2>1, Zenon DEF State, Tables
  <2> QED
    BY <2>1, <2>2, <2>3, Mine, Rests, Zenon DEF Queued
<1> SUFFICES ASSUME r \in Queued, kind[r] = "turn", InFlight(r)' PROVE Asked(r)'
  BY <1>0, Zenon DEF Asked
<1> DEFINE n == Len(todo[r])
           n1 == Len(todo'[r])
<1>1. /\ n \in Nat /\ (n1 = n - 1 \/ (At(r, "ask") /\ n = 5 /\ n1 = 3))
  BY <1>0, TurnGoes, Zenon
<1>2. /\ At(r, "user") <=> n = 8
      /\ At(r, "ask") <=> n = 5
      /\ At(r, "replace") <=> n = 4
      /\ At(r, "number") <=> n = 7 \/ n = 2
      /\ At(r, "insert") <=> n = 6 \/ n = 1
  BY <1>0, TurnAt, Zenon
<1>3. At(r, "reply")' <=> n1 = 3
  <2>1. todo'[r] \in Seq(Ops) /\ todo'[r] # <<>> /\ ~At(r, "start")' /\ kind'[r] = "turn"
    BY <1>0, Zenon DEF State, Paths, InFlight, Done
  <2>2. /\ Len(todo'[r]) <= 14
        /\ \A j \in 1..Len(todo'[r]) : todo'[r][j] = Turning[(14 - Len(todo'[r])) + j]
    BY <2>1, Zenon DEF Scripted, OnScript
  <2>3. Head(todo'[r]) = "reply" <=> n1 = 3
    BY <2>1, <2>2, TurnPlace, Zenon
  <2> QED
    BY <2>1, <2>3, Zenon DEF At
<1> HIDE DEF n, n1
<1>4. /\ n1 \in 5..7 => n \in 6..8
      /\ n1 = 4 => n = 5
      /\ n1 = 3 => n = 4 \/ n = 5
      /\ 5 \notin 6..8 /\ 4 \notin 5..7 /\ 3 \notin 5..7
  BY <1>1
<1>5. n = 4 => /\ ReplaceMessages(r) /\ key' = key /\ got' = got /\ row'[key[r]] = got[r]
  <2>1. SUFFICES ASSUME n = 4 PROVE ReplaceMessages(r) /\ key' = key /\ got' = got /\ row'[key[r]] = got[r]
    OBVIOUS
  <2>2. ReplaceMessages(r)
    BY <1>2, <2>1, Acts, Zenon
  <2> QED
    BY <1>0, <2>2, ReplaceIs DEF Writes
<1>6. n = 5 => /\ Ask(r) /\ Held(r) /\ row' = row /\ key' = key
               /\ n1 = 3 => got'[r] = Obj(r).msgs
  <2>1. SUFFICES ASSUME n = 5 PROVE /\ Ask(r) /\ Held(r) /\ row' = row /\ key' = key
                                    /\ n1 = 3 => got'[r] = Obj(r).msgs
    OBVIOUS
  <2>2. Ask(r) /\ Held(r) /\ At(r, "ask")
    <3>1. At(r, "ask") /\ "ask" \in ObjOps
      BY <1>2, <2>1 DEF ObjOps
    <3> QED
      BY <3>1, Acts, Zenon DEF Held
  <2>3. row' = row /\ key' = key
    BY <2>2, Zenon DEF Ask, db
  <2>4. n1 = 3 => ~Next1(r)
    <3>1. Next1(r) => todo'[r] = Tail(todo[r])
      BY <1>0, <2>2, Advance, Zenon
    <3>2. todo[r] # <<>> /\ todo[r] \in Seq(Ops)
      BY <1>0, <2>2, Zenon DEF At, State, Paths
    <3>3. Len(Tail(todo[r])) = Len(todo[r]) - 1
      BY <3>2
    <3>4. Next1(r) => n1 = n - 1
      BY <3>1, <3>3, Zenon DEF n, n1
    <3> QED
      BY <2>1, <3>4
  <2>5. n1 = 3 => got' = [got EXCEPT ![r] = Obj(r).msgs]
    BY <2>2, <2>4, Zenon DEF Ask
  <2> QED
    BY <1>0, <2>2, <2>3, <2>5, Zenon DEF State, Locals
<1>7. ASSUME At(r, "reply")', key'[r] \notin stale'
      PROVE  \A m \in ToSet(row'[key'[r]]) : m \in ToSet(got'[r])
  <2>1. CASE n = 4
    BY <1>5, <2>1, Zenon
  <2>2. CASE n = 5
    <3>1. got'[r] = Obj(r).msgs /\ row' = row /\ key' = key /\ Held(r)
      BY <1>3, <1>6, <1>7, <2>2, Zenon
    <3>2. Obj(r).msgs = row[key[r]]
      BY <1>0, <1>7, <3>1, Latest, Zenon
    <3> QED
      BY <3>1, <3>2, Zenon
  <2> QED
    BY <1>3, <1>4, <1>7, <2>1, <2>2, Zenon
<1>8. ASSUME scene.side = {}
      PROVE  /\ n1 \in 5..7 => row'[key'[r]] # <<>> /\ Last(row'[key'[r]]) = <<r, "user">>
             /\ n1 \in 3..4 => got'[r] # <<>> /\ Last(got'[r]) = <<r, "user">>
             /\ At(r, "reply")' => ToSet(got'[r]) = ToSet(row'[key'[r]])
  <2>1. /\ n \in 5..7 => row[key[r]] # <<>> /\ Last(row[key[r]]) = <<r, "user">>
        /\ n \in 3..4 => got[r] # <<>> /\ Last(got[r]) = <<r, "user">>
    BY <1>0, <1>8, Zenon DEF Asked, n
  <2>2. Held(r) => Obj(r).msgs = row[key[r]]
    <3>1. SUFFICES ASSUME Held(r) PROVE Using(r)
      BY <1>8, Zenon DEF OneByOne, Abreast
    <3>2. ~At(r, "resolve")
      BY <3>1 DEF Held, ObjOps, At
    <3>3. kind[r] # "delete"
      OBVIOUS
    <3> QED
      BY <1>0, <3>2, <3>3, Zenon DEF Using
  <2>3. ASSUME n = 8 PROVE row'[key'[r]] # <<>> /\ Last(row'[key'[r]]) = <<r, "user">>
    <3>1. AppendMsg(r) /\ At(r, "user")
      BY <1>2, <2>3, Acts, Zenon
    <3>2. PICK part \in {"user", "reply"} :
            /\ At(r, part) /\ Obj(r).msgs \in Seq(Messages) /\ <<r, part>> \in Messages /\ key' = key
            /\ row' = [row EXCEPT ![key[r]] = Append(Obj(r).msgs, <<r, part>>)]
      BY <1>0, <3>1, AppendIs, Zenon DEF Writes
    <3>3. part = "user"
      BY <3>1, <3>2 DEF At
    <3>4. row'[key'[r]] = Append(Obj(r).msgs, <<r, "user">>)
      BY <1>0, <3>2, <3>3
    <3> QED
      BY <3>2, <3>3, <3>4, Adds
  <2>4. ASSUME n \in 6..7 PROVE row'[key'[r]] # <<>> /\ Last(row'[key'[r]]) = <<r, "user">>
    <3>1. n \in 5..7 /\ (n = 6 \/ n = 7)
      BY <2>4
    <3>2. Number(r) \/ Insert(r)
      BY <1>2, <3>1, Acts, Zenon
    <3>3. row' = row /\ key' = key
      BY <3>2, Zenon DEF Number, Insert, db
    <3> QED
      BY <2>1, <3>1, <3>3, Zenon
  <2>5. ASSUME n = 5
        PROVE  /\ got'[r] # <<>> /\ Last(got'[r]) = <<r, "user">>
               /\ n1 = 3 => ToSet(got'[r]) = ToSet(row'[key'[r]])
    <3>1. Ask(r) /\ Held(r) /\ row' = row /\ key' = key /\ (n1 = 3 => got'[r] = Obj(r).msgs)
      BY <1>6, <2>5, Zenon
    <3>2. Obj(r).msgs = row[key[r]]
      BY <2>2, <3>1, Zenon
    <3>3. n \in 5..7
      BY <2>5
    <3>4. row[key[r]] # <<>> /\ Last(row[key[r]]) = <<r, "user">>
      BY <2>1, <3>3, Zenon
    <3>5. Len(Obj(r).msgs) # 0
      BY <1>0, <3>2, <3>4
    <3>6. got'[r] # <<>> /\ Last(got'[r]) = Last(Obj(r).msgs)
      BY <1>0, <3>1, <3>5, AskIs, Zenon
    <3> QED
      BY <3>1, <3>2, <3>4, <3>6, Zenon
  <2>6. ASSUME n = 4
        PROVE  /\ got'[r] # <<>> /\ Last(got'[r]) = <<r, "user">>
               /\ ToSet(got'[r]) = ToSet(row'[key'[r]])
    <3>1. n \in 3..4
      BY <2>6
    <3> QED
      BY <1>5, <2>1, <2>6, <3>1, Zenon
  <2>7. n1 \in 5..7 => n = 8 \/ n \in 6..7
    BY <1>4
  <2>8. n1 \in 3..4 => n = 5 \/ n = 4
    BY <1>4
  <2> QED
    BY <1>3, <1>4, <2>3, <2>4, <2>5, <2>6, <2>7, <2>8, Zenon
<1> QED
  BY <1>0, <1>7, <1>8, Zenon DEF Asked, n1

LEMMA AskedNext ==
    ASSUME Shared, Serial, Queueing, OneByOne, OneObject, Undisturbed(scene),
           \A q \in Requests : Scripted(q) /\ Holding(q) /\ Asked(q),
           NEW r \in Requests, Start(r) \/ Step(r), State', Scripted(r)'
    PROVE  \A q \in Requests : Asked(q)'
<1>0. State /\ Told /\ Ordered /\ scene' = scene /\ Alone(r) /\ Queued' = Queued
  <2>1. State /\ Told /\ Ordered
    BY Zenon DEF Shared
  <2> QED
    BY <2>1, Started, StepMoves, Zenon DEF Moves, Queued
<1>1. CASE Step(r)
  <2>1. Asked(r)'
    BY <1>1, AskedStep, Zenon
  <2>2. InFlight(r) /\ stale \subseteq stale'
    BY <1>0, <1>1, StepMoves, Rests, Zenon DEF Moves
  <2>3. ASSUME NEW q \in Requests \ {r}, q \in Queued, kind'[q] = "turn", InFlight(q)'
        PROVE  Asked(q)'
    <3>1. /\ kind[q] = "turn" /\ InFlight(q) /\ key'[q] = key[q] /\ todo'[q] = todo[q]
          /\ got'[q] = got[q] /\ Asked(q)
      BY <1>0, <2>3, OthersSame, Zenon DEF Alone
    <3>2. scene.side # {}
      BY <1>0, <2>2, <2>3, <3>1, TheOnly, Zenon
    <3>3. ASSUME At(q, "reply"), key[q] \notin stale', NEW m \in ToSet(row'[key[q]]), m[1] \notin scene.side
          PROVE  m \in ToSet(got[q]) \cup {Summary}
      <4>1. key[q] \notin stale /\ key[q] \in Keys \ stale'
        BY <1>0, <2>2, <3>3, Mine, Zenon
      <4>2. CASE m \in ToSet(row[key[q]])
        BY <2>3, <3>1, <3>3, <4>1, <4>2, Zenon DEF Asked
      <4>3. CASE m \notin ToSet(row[key[q]])
        <5>1. m = Summary \/ m[1] = r
          <6>1. m \in ToSet(row'[key[q]]) \ ToSet(row[key[q]])
            BY <3>3, <4>3, Zenon
          <6>2. \A p \in Requests : Holding(p)
            OBVIOUS
          <6>3. \A k \in Keys \ stale' : \A x \in ToSet(row'[k]) \ ToSet(row[k]) :
                   x = Summary \/ (x[1] = r /\ At(r, x[2]))
            BY <1>1, <6>2, RowSteps, Zenon
          <6> QED
            BY <4>1, <6>1, <6>3, Zenon
        <5>2. r \notin Queued
          BY <1>0, <2>2, <2>3, <3>1, OneOfQueue, Zenon
        <5>3. r \in scene.side
          BY <2>2, <5>2, Zenon DEF Queueing, InFlight
        <5> QED
          BY <3>3, <5>1, <5>3, Zenon
      <4> QED
        BY <4>2, <4>3, Zenon
    <3>4. At(q, "reply")' = At(q, "reply")
      BY <3>1, Zenon DEF At
    <3> QED
      BY <1>0, <3>1, <3>2, <3>3, <3>4, Zenon DEF Asked
  <2>4. ASSUME NEW q \in Requests \ {r} PROVE Asked(q)'
    BY <1>0, <2>3, <2>4, Zenon DEF Asked
  <2> QED
    BY <2>1, <2>4, Zenon
<1>2. CASE Start(r)
  <2>1. row' = row /\ got' = got /\ stale' = stale
    BY <1>0, <1>2, Started, Zenon DEF db, hist
  <2>2. ASSUME NEW q \in Requests \ {r} PROVE Asked(q)'
    <3>1. /\ kind'[q] = kind[q] /\ InFlight(q)' = InFlight(q) /\ key'[q] = key[q]
          /\ todo'[q] = todo[q] /\ Asked(q) /\ At(q, "reply")' = At(q, "reply")
      BY <1>0, <2>2, OthersSame, Zenon DEF Alone, At
    <3> QED
      BY <1>0, <2>1, <3>1, Zenon DEF Asked
  <2>3. SUFFICES ASSUME kind'[r] = "turn" PROVE Asked(r)'
    BY <2>2, Zenon DEF Asked
  <2>4. Len(todo'[r]) = 14 /\ ~At(r, "reply")'
    <3>1. todo'[r] = Turning
      BY <1>0, <1>2, <2>3, Started, Zenon DEF Turning
    <3> QED
      BY <3>1, TurnScript DEF At
  <2>5. Len(todo'[r]) \notin 5..7 /\ Len(todo'[r]) \notin 3..4
    BY <2>4
  <2> QED
    BY <2>4, <2>5, Zenon DEF Asked
<1> QED
  BY <1>1, <1>2, Zenon
-----------------------------------------------------------------------------
(* The history is complete, and no step takes away or brings back *)

Whole ==
    /\ Shared /\ Serial /\ Queueing /\ Exclusive /\ Numbered /\ OneByOne /\ OneObject
    /\ Undisturbed(scene)
    /\ \A r \in Requests : Scripted(r) /\ Holding(r) /\ Asked(r)

LEMMA WholeInit == ASSUME \A c \in Scenes : Undisturbed(c), Init PROVE Whole
<1>1. Shared
  BY InitState, ToldInit, OrderedInit, OneInit, Zenon DEF Shared
<1>2. Undisturbed(scene)
  BY Zenon DEF Init
<1> QED
  BY <1>1, <1>2, SerialInit, QueueingInit, ExclusiveInit, NumberedInit, OneByOneInit, OneObjectInit,
     ScriptedInit, HoldingInit, AskedInit, Zenon DEF Whole

LEMMA WholeSame == ASSUME Whole, UNCHANGED vars PROVE Whole'
<1>1. /\ Shared /\ Serial /\ Queueing /\ Exclusive /\ Numbered /\ OneByOne /\ OneObject
      /\ Undisturbed(scene) /\ \A r \in Requests : Scripted(r) /\ Holding(r) /\ Asked(r)
  BY Zenon DEF Whole
<1>2. UNCHANGED <<scene, recent, row, archive, minted, objs, cur, kind, todo, key, idx, got, num,
                  opened, seen, stale>>
  BY Zenon DEF vars, db, pods, hist
<1>3. Shared'
  BY <1>1, SharedNext, Zenon
<1>4. Serial' /\ Queueing' /\ Exclusive'
  <2>1. Serial'
    BY <1>1, <1>2, Zenon DEF Serial, Rows, Using, Gone, InFlight, At, Done
  <2>2. Queueing'
    BY <1>1, <1>2, Zenon DEF Queueing, Queued, At, Done
  <2>3. Exclusive'
    BY <1>1, <1>2, Zenon DEF Exclusive, Locking, Meet, PodOf
  <2> QED
    BY <2>1, <2>2, <2>3, Zenon
<1>5. Numbered'
  BY <1>1, <1>2, Zenon DEF Numbered, At
<1>6. OneByOne'
  BY <1>1, <1>2, Zenon DEF OneByOne, Abreast, Empty, Held, Using, InFlight, Done, At, Obj, PodOf, Rows
<1>7. OneObject'
  <2>1. Alike' = Alike /\ Snapped' = Snapped
    BY <1>2, Zenon DEF Alike, Snapped, PodOf
  <2>2. /\ Retried' = Retried
        /\ \A r \in Requests : \A op \in {"install", "restore"} : At(r, op)' = At(r, op)
    BY <1>2, Zenon DEF Retried, At
  <2> QED
    BY <1>1, <1>2, <2>1, <2>2, Zenon DEF OneObject
<1>8. ASSUME NEW r \in Requests PROVE Scripted(r)' /\ Holding(r)' /\ Asked(r)'
  <2>1. Scripted(r) /\ Holding(r) /\ Asked(r)
    BY <1>1, Zenon
  <2>2. Scripted(r)'
    BY <1>2, <2>1, Zenon DEF Scripted, OnScript, Queued, At
  <2>3. Holding(r)'
    BY <1>2, <2>1, Zenon DEF Holding, At
  <2>4. Asked(r)'
    BY <1>2, <2>1, Zenon DEF Asked, Queued, InFlight, Done, At
  <2> QED
    BY <2>2, <2>3, <2>4, Zenon
<1> QED
  BY <1>1, <1>2, <1>3, <1>4, <1>5, <1>6, <1>7, <1>8, Zenon DEF Whole

LEMMA WholeNext == Whole /\ [Next]_vars => Whole'
<1>1. ASSUME Whole, NEW r \in Requests, Start(r) \/ Step(r) PROVE Whole'
  <2>1. /\ Shared /\ Serial /\ Queueing /\ Exclusive /\ Numbered /\ OneByOne /\ OneObject
        /\ Undisturbed(scene) /\ \A q \in Requests : Scripted(q) /\ Holding(q) /\ Asked(q)
    BY <1>1, Zenon DEF Whole
  <2>2. State /\ Told /\ Ordered
    BY <2>1, Zenon DEF Shared
  <2>3. Shared' /\ State'
    <3>1. [Next]_vars
      BY <1>1, Zenon DEF Next
    <3>2. Shared'
      BY <2>1, <3>1, SharedNext, Zenon
    <3> QED
      BY <3>2, Zenon DEF Shared
  <2>4. scene' = scene
    BY <1>1, <2>2, Started, StepMoves, Zenon DEF Moves
  <2>5. Serial' /\ Queueing' /\ Exclusive' /\ Numbered'
    BY <1>1, <2>1, <2>2, SerialNext, QueueingNext, ExclusiveNext, NumberedNext, Zenon
  <2>6. \A q \in Requests : Scripted(q)'
    BY <1>1, <2>1, <2>2, ScriptedNext, Zenon
  <2>7. \A q \in Requests : Holding(q)'
    BY <1>1, <2>1, <2>2, HoldingNext, Zenon
  <2>8. OneObject'
    BY <1>1, <2>1, <2>3, OneObjectNext, Zenon
  <2>9. OneByOne'
    <3>1. CASE scene.side = {} /\ Step(r)
      BY <2>1, <2>3, <3>1, OneByOneNext, Zenon
    <3>2. CASE Start(r)
      BY <2>1, <3>2, OneByOneStart, Zenon
    <3>3. CASE scene.side # {}
      BY <2>4, <3>3, Zenon DEF OneByOne
    <3> QED
      BY <1>1, <3>1, <3>2, <3>3, Zenon
  <2>10. \A q \in Requests : Asked(q)'
    BY <1>1, <2>1, <2>3, <2>6, AskedNext, Zenon
  <2> QED
    BY <2>1, <2>3, <2>4, <2>5, <2>6, <2>7, <2>8, <2>9, <2>10, Zenon DEF Whole
<1> QED
  BY <1>1, WholeSame, Zenon DEF Next

\* Nothing is missing where it is used.
LEMMA CompleteBy == Whole => HistoryComplete
<1> SUFFICES ASSUME Whole PROVE PromptComplete /\ ArchiveKeeps
  BY Zenon DEF HistoryComplete
<1>1. ArchiveKeeps
  BY ArchiveFits, Zenon DEF Whole, Shared
<1>2. ASSUME NEW r \in Queued, kind[r] = "turn", At(r, "reply"), key[r] \in Rows \ stale
      PROVE  /\ \A m \in ToSet(row[key[r]]) : m[1] \notin scene.side => m \in ToSet(got[r]) \cup {Summary}
             /\ scene.side = {} => Last(got[r]) = <<r, "user">> /\ ToSet(got[r]) = ToSet(row[key[r]])
  <2>1. r \in Requests /\ State
    <3>1. State
      BY Zenon DEF Whole, Shared
    <3>2. scene.queue \in Seq(Requests)
      BY <3>1, SessionAssumption DEF State, Histories, Scene
    <3> QED
      BY <3>1, <3>2 DEF Queued, ToSet
  <2>2. InFlight(r) /\ Asked(r) /\ Scripted(r)
    BY <1>2, <2>1 DEF Whole, InFlight, Done, At
  <2>3. Len(todo[r]) = 3
    BY <1>2, <2>1, <2>2, TurnAt, Zenon
  <2>4. Len(todo[r]) \in 3..4
    BY <2>3
  <2> QED
    BY <1>2, <2>2, <2>4, Zenon DEF Asked
<1> QED
  BY <1>1, <1>2, Zenon DEF PromptComplete

\* When the chat's requests come one by one with nobody beside them, or keep to
\* one session on one pod: no saved message leaves a row unless a request drops
\* it, none that was dropped comes back, the prompt of a turn has all that the
\* queue's requests left in the row, and the archive numbers no two messages
\* alike; but for the messages over which an outdated array was put
\* (manager.go:375, :510, compaction.go:47, database.go:2819).
THEOREM HistoryKeptHolds ==
    ASSUME \A c \in Scenes : Undisturbed(c) PROVE Spec => HistoryKept
<1>1. Init => Whole
  BY WholeInit
<1>2. Whole /\ [Next]_vars => Whole'
  BY WholeNext
<1>3. Whole => HistoryComplete
  BY CompleteBy
<1>4. ASSUME Whole, NEW r \in Requests, Step(r), NEW k \in Keys \ stale'
      PROVE  /\ todo'[r] # todo[r]
             /\ Lost(k) # {} => key[r] = k /\ Drops(r)
             /\ \A m \in ToSet(row'[k]) \ ToSet(row[k]) : m = Summary \/ (m[1] = r /\ At(r, m[2]))
  <2>1. Shared /\ Serial /\ OneByOne /\ OneObject /\ Undisturbed(scene) /\ \A q \in Requests : Holding(q)
    BY <1>4, Zenon DEF Whole
  <2> QED
    BY <1>4, <2>1, RowSteps, Zenon
<1>5. ASSUME Whole, [Next]_vars, NEW k \in Keys, ~\E r \in Requests : Step(r)
      PROVE  row'[k] = row[k]
  <2>1. row' = row
    BY <1>5, Zenon DEF Next, Start, vars, db
  <2> QED
    BY <2>1, Zenon
<1>6. Whole /\ [Next]_vars =>
        \A k \in Keys \ stale' : Lost(k) # {} => \E r \in Requests : key[r] = k /\ Drops(r)
  <2> SUFFICES ASSUME Whole, [Next]_vars, NEW k \in Keys \ stale', Lost(k) # {}
               PROVE  \E r \in Requests : key[r] = k /\ Drops(r)
    BY Zenon
  <2>1. PICK r \in Requests : Step(r)
    BY <1>5, Zenon DEF Lost
  <2> QED
    BY <1>4, <2>1, Zenon
<1>7. Whole /\ [Next]_vars =>
        \A k \in Keys \ stale' : \A m \in ToSet(row'[k]) \ ToSet(row[k]) :
          \/ m = Summary
          \/ \E r \in Requests : m[1] = r /\ At(r, m[2]) /\ todo'[r] # todo[r]
  <2> SUFFICES ASSUME Whole, [Next]_vars, NEW k \in Keys \ stale',
                      NEW m \in ToSet(row'[k]) \ ToSet(row[k]), m # Summary
               PROVE  \E r \in Requests : m[1] = r /\ At(r, m[2]) /\ todo'[r] # todo[r]
    BY Zenon
  <2>1. PICK r \in Requests : Step(r)
    BY <1>5, Zenon
  <2>2. /\ todo'[r] # todo[r]
        /\ \A x \in ToSet(row'[k]) \ ToSet(row[k]) : x = Summary \/ (x[1] = r /\ At(r, x[2]))
    BY <1>4, <2>1, Zenon
  <2>3. m[1] = r /\ At(r, m[2])
    BY <2>2, Zenon
  <2> QED
    BY <2>2, <2>3, Zenon
<1> QED
  BY <1>1, <1>2, <1>3, <1>6, <1>7, PTL DEF Spec, HistoryKept, HistoryExact, LostOnlyStale, NothingReturns
-----------------------------------------------------------------------------
(* Summaries.                                                              *)

Segs   == Nat \X Nat
Topics == (SUBSET Segs) \ {{}}
Whos   == {"none", "chatter", "owner"}
Stages == {"new", "load", "session", "existing", "ask", "delete", "insert", "embed", "stamp", "over"}
SummaryRows   == [who : Whos, segs : Topics, by : Runs, id : Nat]

RunTypes == [pc : Stages, who : Whos, max : Nat, from : Nat, merges : BOOLEAN,
             read : SUBSET SummaryRows, topics : SUBSET Topics, id : Nat, joined : BOOLEAN]

MemTypes ==
    /\ lastSum \in Nat /\ made \in Nat /\ top \in Nat
    /\ chatter \in BOOLEAN /\ embeds \in BOOLEAN
    /\ rows \subseteq SummaryRows /\ fill \subseteq SummaryRows
    /\ run \in [Runs -> RunTypes]

\* What a topic speaks of, will speak of when a run that has deleted them has
\* written its topics, or is excepted.
Hands == {r \in Runs : run[r].merges /\ run[r].pc \in {"insert", "embed"}}
Kept  == lost \cup ToldBy(SegmentsOf(rows)) \cup UNION {ToldBy(run[r].topics) : r \in Hands}

\* Messages before and up to a number.
Before(n) == {q \in Plain : q < n}
UpTo(n)   == {q \in Plain : q <= n}

\* What a run relies on for the messages that it will count as summarized.
Relies(r) ==
    /\ run[r].pc \in {"existing", "delete"} => run[r].merges
    /\ run[r].pc \in {"new", "load", "session"} => ~run[r].merges
    /\ ~run[r].merges => run[r].read = {} /\ run[r].from = 0 /\ ~run[r].joined
    /\ run[r].pc \in {"existing", "ask", "delete"} => Before(run[r].from) \subseteq Kept
    /\ run[r].pc = "delete" /\ ~run[r].joined =>
          /\ UpTo(run[r].max) \ Before(run[r].from) \subseteq ToldBy(run[r].topics)
          /\ ToldBy(SegmentsOf(run[r].read)) \subseteq ToldBy(run[r].topics)
    /\ run[r].pc \in {"insert", "embed"} => UpTo(run[r].max) \subseteq Kept \cup ToldBy(run[r].topics)
    /\ run[r].pc = "stamp" => UpTo(run[r].max) \subseteq Kept

KeptInv == (lastSum > 0 => UpTo(lastSum) \subseteq Kept) /\ \A r \in Runs : Relies(r)

\* A topic has an id of its own.
IdInv ==
    /\ \A x, y \in rows : x.id = y.id => x = y
    /\ \A x \in rows : x.id <= made
    /\ \A v \in vec : v[1] \in Nat /\ v[1] <= made
    /\ ~embeds => vec = {}
    /\ \A r \in Runs : RunAt(r, "embed") => embeds

MemInv == MemTypes /\ KeptInv /\ IdInv /\ VectorsTrue /\ (fill # {} => embeds)

RunStep(r) ==
    \/ MaybeExtractSummary(r) \/ SummarizeIdleSessions(r)
    \/ ListSessionMessages(r) \/ GetSession(r) \/ ListExisting(r) \/ CallExtractTopics(r)
    \/ DeleteBySession(r) \/ InsertConversationSummary(r) \/ Embed(r)
    \/ SetLastSummarizedSeq(r) \/ Dies(r)

OtherStep ==
    \/ NewMessage \/ TimePasses \/ RunOnce \/ Reindex \/ (\E x \in fill : VectorizeSummary(x))
    \/ UNCHANGED summaryVars
-----------------------------------------------------------------------------
LEMMA MemSteps == ASSUME [MemoryNext]_summaryVars PROVE OtherStep \/ \E r \in Runs : RunStep(r)
  BY DEF MemoryNext, OtherStep, RunStep

LEMMA ToldIs == ASSUME NEW T, NEW q PROVE q \in ToldBy(T) <=> \E t \in T : q \in Covered(t)
  BY DEF ToldBy, Covered

LEMMA ToldGrows == ASSUME NEW S, NEW T, S \subseteq T PROVE ToldBy(S) \subseteq ToldBy(T)
  BY ToldIs

LEMMA ToldBoth == ASSUME NEW S, NEW T PROVE ToldBy(S \cup T) = ToldBy(S) \cup ToldBy(T)
  BY ToldIs

LEMMA ToldOne == ASSUME NEW t PROVE ToldBy({t}) = Covered(t)
  BY ToldIs

LEMMA ToldNone == ToldBy({}) = {}
  BY ToldIs

\* A non-empty set of naturals has a least element, and a greatest if it is bounded.
LEMMA LeastOf ==
    ASSUME NEW S \in SUBSET Nat, S # {} PROVE \E t \in S : \A u \in S : t <= u
<1>1. PICK t \in S : \A u \in S : <<u, t>> \notin OpToRel(<, Nat)
  BY WFMin, NatLessThanWellFounded, Zenon
<1>2. \A u \in S : ~(u < t)
  BY <1>1, Zenon DEF OpToRel
<1> QED
  BY <1>2

LEMMA GreatestOf ==
    ASSUME NEW n \in Nat, NEW S \in SUBSET (0..n), S # {} PROVE \E t \in S : \A u \in S : u <= t
<1> DEFINE T == {n - x : x \in S}
<1>1. T \in SUBSET Nat /\ T # {}
  OBVIOUS
<1>2. \A x \in S : n - x \in T
  OBVIOUS
<1>3. \A t \in T : \E x \in S : t = n - x
  OBVIOUS
<1> HIDE DEF T
<1>4. PICK t \in T : \A u \in T : t <= u
  BY <1>1, LeastOf
<1>5. PICK x \in S : t = n - x
  BY <1>3, <1>4
<1>6. \A u \in S : u <= x
  BY <1>2, <1>4, <1>5
<1> QED
  BY <1>6

LEMMA WindowEnds ==
    ASSUME NEW P \in SUBSET Plain, P # {}
    PROVE  /\ Min(P) \in P /\ \A q \in P : Min(P) <= q
           /\ Max(P) \in P /\ \A q \in P : q <= Max(P)
<1>1. P \in SUBSET Nat /\ P \in SUBSET (0..MaxSeq) /\ MaxSeq \in Nat
  BY MemoryAssumption
<1>2. \E t \in P : \A u \in P : t <= u
  BY <1>1, LeastOf
<1>3. \E t \in P : \A u \in P : t >= u
  BY <1>1, GreatestOf
<1> QED
  BY <1>1, <1>2, <1>3 DEF Min, Max

\* The first number of a topic is a number.
LEMMA LeastTyped == ASSUME NEW t \in Topics PROVE Least(t) \in Nat
<1>1. {g[1] : g \in t} \in SUBSET Nat /\ {g[1] : g \in t} # {}
  BY DEF Topics, Segs
<1>2. PICK q \in {g[1] : g \in t} : \A u \in {g[1] : g \in t} : q <= u
  BY <1>1, LeastOf
<1>3. \A g \in t : q <= g[1]
  BY <1>2
<1>4. Least(t) \in {g[1] : g \in t}
  BY <1>2, <1>3 DEF Least
<1> QED
  BY <1>1, <1>4

Window(r) == {q \in Plain : run[r].from <= q /\ q <= run[r].max}

\* An answer that keeps to the prompt tells of its window and of the old topics.
LEMMA AnswersTell ==
    ASSUME MemTypes, NEW r \in Runs, Window(r) # {}, NEW answer \in Answers(r, Window(r))
    PROVE  /\ Validate(r, answer) \in SUBSET Topics
           /\ Window(r) \subseteq ToldBy(Validate(r, answer))
           /\ ToldBy(SegmentsOf(run[r].read)) \subseteq ToldBy(Validate(r, answer))
<1> DEFINE P   == Window(r)
           new == <<Min(P), Max(P)>>
           old == SegmentsOf(run[r].read)
           Known(g) == \/ run[r].from <= g[1] /\ g[2] <= run[r].max
                       \/ \E segs \in SegmentsOf(run[r].read) : g \in segs
<1>1. P \in SUBSET Plain /\ P \subseteq Nat
  <2>1. Plain \subseteq Nat
    BY MemoryAssumption
  <2> QED
    BY <2>1 DEF Window
<1>2. /\ Min(P) \in P /\ \A q \in P : Min(P) <= q
      /\ Max(P) \in P /\ \A q \in P : q <= Max(P)
  BY <1>1, WindowEnds
<1>3. Min(P) \in Nat /\ Max(P) \in Nat /\ Min(P) <= Max(P)
      /\ run[r].from <= Min(P) /\ Max(P) <= run[r].max
  BY <1>1, <1>2 DEF Window
<1>4. old \subseteq Topics
  BY DEF MemTypes, RunTypes, SummaryRows, SegmentsOf
<1>r. run[r].from \in Nat /\ run[r].max \in Nat
  BY DEF MemTypes, RunTypes
<1> HIDE DEF P
<1>5. new \in Segs /\ Known(new) /\ P \subseteq new[1]..new[2]
  BY <1>1, <1>2, <1>3 DEF Segs
<1>6. \A t \in old : \A g \in t : Known(g)
  OBVIOUS
<1>7. \/ answer = old \cup {{new}}
      \/ \E t \in old : answer = (old \ {t}) \cup {t \cup {new}}
      \/ /\ old = {} /\ new[1] < new[2]
         /\ answer = {{<<new[1], new[1]>>}, {<<new[1] + 1, new[2]>>}}
  BY DEF Answers, P
<1>8. /\ answer \subseteq Topics
      /\ \A t \in answer : \A g \in t : Known(g)
      /\ \A q \in P : \E t \in answer : \E g \in t : q \in g[1]..g[2]
      /\ \A t \in old : \E s \in answer : t \subseteq s
  <2>1. CASE answer = old \cup {{new}}
    <3>1. {new} \in Topics
      BY <1>5 DEF Topics
    <3>2. \A g \in {new} : Known(g)
      BY <1>5, Zenon
    <3> HIDE DEF Known, old, new
    <3>3. \A t \in answer : t \in old \/ t = {new}
      BY <2>1
    <3>4. {new} \in answer /\ new \in {new} /\ old \subseteq answer
      BY <2>1
    <3>5. answer \subseteq Topics
      BY <1>4, <3>1, <3>3, Zenon
    <3>6. \A t \in answer : \A g \in t : Known(g)
      BY <1>6, <3>2, <3>3, Zenon
    <3>7. \A q \in P : \E t \in answer : \E g \in t : q \in g[1]..g[2]
      BY <1>5, <3>4
    <3>8. \A t \in old : \E s \in answer : t \subseteq s
      BY <3>4
    <3> QED
      BY <3>5, <3>6, <3>7, <3>8
  <2>2. ASSUME NEW t \in old, answer = (old \ {t}) \cup {t \cup {new}}
        PROVE  /\ answer \subseteq Topics
               /\ \A u \in answer : \A g \in u : Known(g)
               /\ \A q \in P : \E u \in answer : \E g \in u : q \in g[1]..g[2]
               /\ \A u \in old : \E s \in answer : u \subseteq s
    <3>1. t \cup {new} \in Topics
      BY <1>4, <1>5 DEF Topics
    <3> HIDE DEF Known, old, new
    <3>2. \A g \in t \cup {new} : Known(g)
      BY <1>5, <1>6
    <3>3. \A u \in answer : u \in old \/ u = t \cup {new}
      BY <2>2
    <3>4. t \cup {new} \in answer /\ new \in t \cup {new} /\ \A u \in old : u \in answer \/ u = t
      BY <2>2
    <3>5. answer \subseteq Topics
      BY <1>4, <3>1, <3>3, Zenon
    <3>6. \A u \in answer : \A g \in u : Known(g)
      BY <1>6, <3>2, <3>3, Zenon
    <3>7. \A q \in P : \E u \in answer : \E g \in u : q \in g[1]..g[2]
      BY <1>5, <3>4
    <3>8. \A u \in old : \E s \in answer : u \subseteq s
      BY <3>4
    <3> QED
      BY <3>5, <3>6, <3>7, <3>8
  <2>3. CASE /\ old = {} /\ new[1] < new[2]
             /\ answer = {{<<new[1], new[1]>>}, {<<new[1] + 1, new[2]>>}}
    <3>1. <<new[1], new[1]>> \in Segs /\ <<new[1] + 1, new[2]>> \in Segs
      BY <1>3 DEF Segs
    <3>2. Known(<<new[1], new[1]>>) /\ Known(<<new[1] + 1, new[2]>>)
      BY <1>3, <1>r, <2>3
    <3>3. \A q \in P : q \in new[1]..new[1] \/ q \in (new[1] + 1)..new[2]
      BY <1>1, <1>3, <1>5
    <3> QED
      BY <2>3, <3>1, <3>2, <3>3 DEF Topics
  <2> QED
    BY <1>7, <2>1, <2>2, <2>3
<1>9. Validate(r, answer) = answer
  <2>1. \A t \in answer : {g \in t : Known(g)} = t /\ t # {}
    BY <1>8 DEF Topics
  <2> QED
    BY <2>1 DEF Validate
<1>10. P \subseteq ToldBy(answer)
  BY <1>8 DEF ToldBy, Covered
<1>11. ToldBy(old) \subseteq ToldBy(answer)
  BY <1>8 DEF ToldBy, Covered
<1> QED
  BY <1>8, <1>9, <1>10, <1>11 DEF P

LEMMA JoinedTyped ==
    ASSUME MemTypes, NEW r \in Runs, Window(r) # {}, NEW answer \in JoinedAnswers(r, Window(r))
    PROVE  Validate(r, answer) \in SUBSET Topics /\ run[r].read # {}
<1> DEFINE P   == Window(r)
           old == SegmentsOf(run[r].read)
<1>1. P \in SUBSET Plain /\ P \subseteq Nat
  <2>1. Plain \subseteq Nat
    BY MemoryAssumption
  <2> QED
    BY <2>1 DEF Window
<1>2. Max(P) \in Nat
  BY <1>1, WindowEnds
<1>4. old \subseteq Topics
  BY DEF MemTypes, RunTypes, SummaryRows, SegmentsOf
<1>5. PICK t \in old : answer = (old \ {t}) \cup {{<<Least(t), Max(P)>>}}
  BY DEF JoinedAnswers
<1>6. <<Least(t), Max(P)>> \in Segs
  BY <1>2, <1>4, LeastTyped DEF Segs
<1> HIDE DEF P
<1>7. answer \subseteq SUBSET Segs
  BY <1>4, <1>5, <1>6 DEF Topics
<1>8. Validate(r, answer) \in SUBSET Topics
  BY <1>7 DEF Validate, Topics
<1> QED
  BY <1>5, <1>8 DEF SegmentsOf
-----------------------------------------------------------------------------
(* Types.                                                                  *)

LEMMA FreshTyped == Fresh \in RunTypes /\ [Fresh EXCEPT !.pc = "over"] \in RunTypes
  BY DEF Fresh, RunTypes, Stages, Whos

LEMMA EndTyped ==
    ASSUME MemTypes, NEW r \in Runs, End(r)
    PROVE  /\ run' \in [Runs -> RunTypes] /\ \A q \in Runs \ {r} : run'[q] = run[q]
           /\ run'[r] = [Fresh EXCEPT !.pc = "over"] /\ run'[r].pc = "over" /\ ~run'[r].merges
           /\ run'[r].read = {} /\ run'[r].from = 0 /\ ~run'[r].joined
<1>1. run'[r] = [Fresh EXCEPT !.pc = "over"] /\ \A q \in Runs \ {r} : run'[q] = run[q]
  BY DEF End, MemTypes
<1>2. run' \in [Runs -> RunTypes]
  BY FreshTyped DEF End, MemTypes
<1> QED
  BY <1>1, <1>2 DEF Fresh

LEMMA NextTopicTyped ==
    ASSUME MemTypes, NEW r \in Runs, NEW rest \in SUBSET run[r].topics, NextTopic(r, rest)
    PROVE  /\ run' \in [Runs -> RunTypes] /\ \A q \in Runs \ {r} : run'[q] = run[q]
           /\ run'[r].pc = (IF rest = {} THEN "stamp" ELSE "insert")
           /\ run'[r].topics = rest /\ run'[r].merges = run[r].merges
           /\ run'[r].max = run[r].max /\ run'[r].from = run[r].from
           /\ run'[r].read = run[r].read /\ run'[r].joined = run[r].joined
<1> DEFINE new == [run[r] EXCEPT !.topics = rest, !.id = 0,
                                 !.pc = IF rest = {} THEN "stamp" ELSE "insert"]
<1>1. run[r] \in RunTypes
  BY DEF MemTypes
<1>2. new \in RunTypes
  BY <1>1 DEF RunTypes, Stages
<1>3. /\ new.pc = (IF rest = {} THEN "stamp" ELSE "insert")
      /\ new.topics = rest /\ new.merges = run[r].merges
      /\ new.max = run[r].max /\ new.from = run[r].from
      /\ new.read = run[r].read /\ new.joined = run[r].joined
  BY <1>1 DEF RunTypes
<1>4. run' = [run EXCEPT ![r] = new]
  BY DEF NextTopic
<1> HIDE DEF new
<1>5. run' \in [Runs -> RunTypes] /\ run'[r] = new /\ \A q \in Runs \ {r} : run'[q] = run[q]
  BY <1>2, <1>4 DEF MemTypes
<1> QED
  BY <1>3, <1>5

\* What the steps of a run have in common: of the other runs they change nothing.
OneRun(r) == \A q \in Runs \ {r} : run'[q] = run[q]

LEMMA EarlyTypes ==
    ASSUME MemTypes, NEW r \in Runs,
           MaybeExtractSummary(r) \/ SummarizeIdleSessions(r) \/ ListSessionMessages(r)
           \/ GetSession(r) \/ ListExisting(r)
    PROVE  MemTypes' /\ OneRun(r)
<1> USE DEF MemTypes, RunTypes, Stages, Whos, SessionStays, Table, OneRun, RunAt, RunTo
<1>1. CASE MaybeExtractSummary(r)
  <2> DEFINE new == [run[r] EXCEPT !.pc = "load", !.who = IF chatter THEN "chatter" ELSE "none"]
  <2>1. new \in RunTypes
    OBVIOUS
  <2>2. run' = [run EXCEPT ![r] = new]
    BY <1>1 DEF MaybeExtractSummary
  <2> HIDE DEF new
  <2>3. run' \in [Runs -> RunTypes] /\ \A q \in Runs \ {r} : run'[q] = run[q]
    BY <2>1, <2>2
  <2> QED
    BY <1>1, <2>3 DEF MaybeExtractSummary
<1>2. CASE SummarizeIdleSessions(r)
  <2> DEFINE new == [run[r] EXCEPT !.pc = "load", !.who = IF chatter THEN "chatter" ELSE "owner"]
  <2>1. new \in RunTypes
    OBVIOUS
  <2>2. run' = [run EXCEPT ![r] = new]
    BY <1>2 DEF SummarizeIdleSessions
  <2> HIDE DEF new
  <2>3. run' \in [Runs -> RunTypes] /\ \A q \in Runs \ {r} : run'[q] = run[q]
    BY <2>1, <2>2
  <2> QED
    BY <1>2, <2>3 DEF SummarizeIdleSessions
<1>3. CASE ListSessionMessages(r)
  <2>1. CASE End(r)
    <3>1. run' \in [Runs -> RunTypes] /\ \A q \in Runs \ {r} : run'[q] = run[q]
      BY <2>1, EndTyped
    <3> QED
      BY <1>3, <3>1 DEF ListSessionMessages
  <2>2. CASE ~End(r)
    BY <1>3, <2>2 DEF ListSessionMessages
  <2> QED
    BY <2>1, <2>2
<1>4. CASE GetSession(r)
  <2>1. CASE End(r)
    <3>1. run' \in [Runs -> RunTypes] /\ \A q \in Runs \ {r} : run'[q] = run[q]
      BY <2>1, EndTyped
    <3> QED
      BY <1>4, <3>1 DEF GetSession
  <2>2. CASE ~End(r)
    BY <1>4, <2>2 DEF GetSession
  <2> QED
    BY <2>1, <2>2
<1>5. CASE ListExisting(r)
  BY <1>5 DEF ListExisting
<1> QED
  BY <1>1, <1>2, <1>3, <1>4, <1>5

\* What the model's answer leaves a run with.
LEMMA AsksOne ==
    ASSUME MemTypes, NEW r \in Runs, CallExtractTopics(r)
    PROVE  \/ End(r)
           \/ \E topics \in SUBSET Topics : \E joined \in BOOLEAN :
                /\ run' = [run EXCEPT ![r].pc = IF run[r].merges THEN "delete" ELSE "insert",
                                      ![r].topics = topics, ![r].joined = joined]
                /\ joined => run[r].read # {}
                /\ ~joined => /\ Window(r) \subseteq ToldBy(topics)
                              /\ ToldBy(SegmentsOf(run[r].read)) \subseteq ToldBy(topics)
<1> DEFINE P == {q \in Plain : run[r].from <= q /\ q <= run[r].max}
           Takes(answer, joined) ==
               IF Validate(r, answer) = {} THEN End(r)
               ELSE run' = [run EXCEPT ![r].pc = IF run[r].merges THEN "delete" ELSE "insert",
                                       ![r].topics = Validate(r, answer), ![r].joined = joined]
<1>1. \/ End(r)
      \/ P # {} /\ \E answer \in Answers(r, P) : Takes(answer, FALSE)
      \/ P # {} /\ \E answer \in JoinedAnswers(r, P) : Takes(answer, TRUE)
  BY DEF CallExtractTopics
<1>2. P = Window(r)
  BY DEF Window
<1>3. ASSUME P # {}, NEW answer \in Answers(r, P), Takes(answer, FALSE), ~End(r)
      PROVE  /\ Validate(r, answer) \in SUBSET Topics
             /\ run' = [run EXCEPT ![r].pc = IF run[r].merges THEN "delete" ELSE "insert",
                                   ![r].topics = Validate(r, answer), ![r].joined = FALSE]
             /\ Window(r) \subseteq ToldBy(Validate(r, answer))
             /\ ToldBy(SegmentsOf(run[r].read)) \subseteq ToldBy(Validate(r, answer))
  BY <1>2, <1>3, AnswersTell
<1>4. ASSUME P # {}, NEW answer \in JoinedAnswers(r, P), Takes(answer, TRUE), ~End(r)
      PROVE  /\ Validate(r, answer) \in SUBSET Topics /\ run[r].read # {}
             /\ run' = [run EXCEPT ![r].pc = IF run[r].merges THEN "delete" ELSE "insert",
                                   ![r].topics = Validate(r, answer), ![r].joined = TRUE]
  BY <1>2, <1>4, JoinedTyped
<1> HIDE DEF P, Takes
<1> QED
  BY <1>1, <1>3, <1>4

LEMMA AskTypes ==
    ASSUME MemTypes, NEW r \in Runs, CallExtractTopics(r) PROVE MemTypes' /\ OneRun(r)
<1>1. run' \in [Runs -> RunTypes] /\ OneRun(r)
  <2>1. CASE End(r)
    BY <2>1, EndTyped DEF OneRun
  <2>2. CASE ~End(r)
    <3>1. PICK topics \in SUBSET Topics, joined \in BOOLEAN :
             run' = [run EXCEPT ![r].pc = IF run[r].merges THEN "delete" ELSE "insert",
                                ![r].topics = topics, ![r].joined = joined]
      BY <2>2, AsksOne
    <3> DEFINE new == [run[r] EXCEPT !.pc = IF run[r].merges THEN "delete" ELSE "insert",
                                     !.topics = topics, !.joined = joined]
    <3>2. new \in RunTypes
      BY DEF MemTypes, RunTypes, Stages
    <3>3. run' = [run EXCEPT ![r] = new]
      BY <3>1
    <3> HIDE DEF new
    <3> QED
      BY <3>2, <3>3 DEF MemTypes, OneRun
  <2> QED
    BY <2>1, <2>2
<1> QED
  BY <1>1 DEF CallExtractTopics, MemTypes, SessionStays, Table

LEMMA DeleteTypes ==
    ASSUME MemTypes, NEW r \in Runs, DeleteBySession(r) PROVE MemTypes' /\ OneRun(r)
<1>1. run' \in [Runs -> RunTypes] /\ OneRun(r)
  <2>1. CASE End(r)
    BY <2>1, EndTyped DEF OneRun
  <2>2. CASE ~End(r)
    BY <2>2 DEF DeleteBySession, MemTypes, RunTypes, Stages, OneRun, RunTo
  <2> QED
    BY <2>1, <2>2
<1> QED
  BY <1>1 DEF DeleteBySession, MemTypes, SessionStays

\* An insert is of one of the run's topics, and replaces those of its range.
Same(r, segs) == {x \in rows : Key(x.who, x.segs) = Key(run[r].who, segs)}
IdFor(r, segs) == IF Same(r, segs) = {} THEN made + 1 ELSE (CHOOSE x \in Same(r, segs) : TRUE).id

InsertsRow(r, segs) ==
    LET id == IdFor(r, segs) rest == run[r].topics \ {segs} IN
    /\ rows' = (rows \ Same(r, segs)) \cup {[who |-> run[r].who, segs |-> segs, by |-> r, id |-> id]}
    /\ made' = IF Same(r, segs) = {} THEN made + 1 ELSE made
    /\ lost' = lost \cup (ToldBy(SegmentsOf(Same(r, segs))) \ Covered(segs))
    /\ IF embeds
         THEN run' = [run EXCEPT ![r].pc = "embed", ![r].topics = rest, ![r].id = id]
         ELSE NextTopic(r, rest)

PassesOver(r, segs) ==
    /\ lost' = lost \cup Covered(segs) /\ NextTopic(r, run[r].topics \ {segs})
    /\ UNCHANGED <<rows, made>>

LEMMA InsertsOne ==
    ASSUME NEW r \in Runs, InsertConversationSummary(r)
    PROVE  /\ RunAt(r, "insert")
           /\ \E segs \in run[r].topics : InsertsRow(r, segs) \/ PassesOver(r, segs)
           /\ SessionStays /\ UNCHANGED <<lastSum, vec, fill, mistaken>>
  BY DEF InsertConversationSummary, InsertsRow, PassesOver, IdFor, Same

LEMMA IdTyped ==
    ASSUME MemTypes, NEW r \in Runs, NEW segs
    PROVE  /\ IdFor(r, segs) \in Nat
           /\ Same(r, segs) # {} => \E x \in Same(r, segs) : x.id = IdFor(r, segs)
           /\ Same(r, segs) = {} => IdFor(r, segs) = made + 1
<1>1. Same(r, segs) \subseteq rows
  BY DEF Same
<1>2. CASE Same(r, segs) = {}
  BY <1>2 DEF IdFor, MemTypes
<1>3. CASE Same(r, segs) # {}
  <2>1. (CHOOSE x \in Same(r, segs) : TRUE) \in Same(r, segs)
    BY <1>3
  <2>2. (CHOOSE x \in Same(r, segs) : TRUE) \in SummaryRows
    BY <1>1, <2>1 DEF MemTypes
  <2> QED
    BY <1>3, <2>1, <2>2 DEF IdFor, SummaryRows
<1> QED
  BY <1>2, <1>3

\* Of the run that inserts: what is left of it, whether it embeds or goes on.
LEMMA InsertRun ==
    ASSUME MemTypes, NEW r \in Runs, RunAt(r, "insert"), NEW segs \in run[r].topics,
           InsertsRow(r, segs) \/ PassesOver(r, segs)
    PROVE  /\ run' \in [Runs -> RunTypes] /\ \A q \in Runs \ {r} : run'[q] = run[q]
           /\ run'[r].pc \in {"insert", "embed", "stamp"}
           /\ run'[r].pc = "stamp" => run'[r].topics = {}
           /\ run'[r].pc = "embed" => embeds
           /\ InsertsRow(r, segs) /\ embeds => run'[r].pc = "embed" /\ run'[r].id = IdFor(r, segs)
           /\ run'[r].topics = run[r].topics \ {segs} /\ run'[r].merges = run[r].merges
           /\ run'[r].max = run[r].max /\ run'[r].from = run[r].from
           /\ run'[r].read = run[r].read /\ run'[r].joined = run[r].joined
<1> DEFINE rest == run[r].topics \ {segs}
<1>1. CASE NextTopic(r, rest) /\ (~embeds \/ ~InsertsRow(r, segs))
  <2>1. rest \in SUBSET run[r].topics
    OBVIOUS
  <2> HIDE DEF rest
  <2>2. /\ run' \in [Runs -> RunTypes] /\ \A q \in Runs \ {r} : run'[q] = run[q]
        /\ run'[r].pc = (IF rest = {} THEN "stamp" ELSE "insert")
        /\ run'[r].topics = rest /\ run'[r].merges = run[r].merges
        /\ run'[r].max = run[r].max /\ run'[r].from = run[r].from
        /\ run'[r].read = run[r].read /\ run'[r].joined = run[r].joined
    BY <1>1, <2>1, NextTopicTyped
  <2>3. /\ run'[r].pc \in {"insert", "embed", "stamp"}
        /\ run'[r].pc = "stamp" => run'[r].topics = {}
        /\ run'[r].pc # "embed"
    BY <2>2
  <2> QED
    BY <1>1, <2>2, <2>3 DEF rest
<1>2. CASE embeds /\ run' = [run EXCEPT ![r].pc = "embed", ![r].topics = rest, ![r].id = IdFor(r, segs)]
  <2>1. IdFor(r, segs) \in Nat
    BY IdTyped
  <2>2. run' = [run EXCEPT ![r] = [@ EXCEPT !.pc = "embed", !.topics = rest, !.id = IdFor(r, segs)]]
    BY <1>2
  <2>3. [run[r] EXCEPT !.pc = "embed", !.topics = rest, !.id = IdFor(r, segs)] \in RunTypes
    BY <2>1 DEF MemTypes, RunTypes, Stages
  <2> QED
    BY <1>2, <2>1, <2>2, <2>3 DEF MemTypes, RunTypes
<1> QED
  BY <1>1, <1>2 DEF InsertsRow, PassesOver

LEMMA InsertTypes ==
    ASSUME MemTypes, NEW r \in Runs, InsertConversationSummary(r) PROVE MemTypes' /\ OneRun(r)
<1>1. PICK segs \in run[r].topics : InsertsRow(r, segs) \/ PassesOver(r, segs)
  BY InsertsOne
<1>2. run' \in [Runs -> RunTypes] /\ OneRun(r)
  BY <1>1, InsertsOne, InsertRun DEF OneRun
<1>3. IdFor(r, segs) \in Nat
  BY IdTyped
<1>4. run[r].who \in Whos /\ segs \in Topics
  BY DEF MemTypes, RunTypes
<1>5. rows' \subseteq SummaryRows /\ made' \in Nat
  BY <1>1, <1>3, <1>4 DEF InsertsRow, PassesOver, MemTypes, SummaryRows
<1> QED
  BY <1>2, <1>5, InsertsOne DEF MemTypes, SessionStays

LEMMA LateTypes ==
    ASSUME MemTypes, NEW r \in Runs, Embed(r) \/ SetLastSummarizedSeq(r) \/ Dies(r)
    PROVE  MemTypes' /\ OneRun(r)
<1>1. CASE Embed(r)
  <2>1. NextTopic(r, run[r].topics)
    BY <1>1 DEF Embed
  <2>2. run' \in [Runs -> RunTypes] /\ OneRun(r)
    BY <2>1, NextTopicTyped DEF OneRun
  <2> QED
    BY <1>1, <2>2 DEF Embed, MemTypes, SessionStays
<1>2. CASE SetLastSummarizedSeq(r)
  <2>1. run' \in [Runs -> RunTypes] /\ OneRun(r)
    BY <1>2, EndTyped DEF OneRun, SetLastSummarizedSeq
  <2>2. lastSum' \in Nat
    BY <1>2 DEF SetLastSummarizedSeq, MemTypes, RunTypes
  <2> QED
    BY <1>2, <2>1, <2>2 DEF SetLastSummarizedSeq, MemTypes, SessionStays, Table
<1>3. CASE Dies(r)
  <2>1. run' \in [Runs -> RunTypes] /\ OneRun(r)
    BY <1>3, EndTyped DEF OneRun, Dies
  <2> QED
    BY <1>3, <2>1 DEF Dies, MemTypes, SessionStays
<1> QED
  BY <1>1, <1>2, <1>3

LEMMA OtherTypes ==
    ASSUME MemTypes, OtherStep PROVE MemTypes' /\ run' = run
<1> USE DEF MemTypes, SessionStays, Table
<1>1. CASE NewMessage
  BY <1>1 DEF NewMessage
<1>2. CASE TimePasses
  BY <1>2 DEF TimePasses
<1>3. CASE RunOnce
  BY <1>3 DEF RunOnce
<1>4. CASE Reindex
  BY <1>4 DEF Reindex
<1>5. ASSUME NEW x \in fill, VectorizeSummary(x) PROVE MemTypes' /\ run' = run
  BY <1>5 DEF VectorizeSummary
<1>6. CASE UNCHANGED summaryVars
  BY <1>6 DEF summaryVars
<1> QED
  BY <1>1, <1>2, <1>3, <1>4, <1>5, <1>6 DEF OtherStep

LEMMA StepTypes ==
    ASSUME MemTypes, NEW r \in Runs, RunStep(r) PROVE MemTypes' /\ OneRun(r)
  BY EarlyTypes, AskTypes, DeleteTypes, InsertTypes, LateTypes DEF RunStep
-----------------------------------------------------------------------------
(* What is kept.                                                           *)

LEMMA KeptIs ==
    ASSUME NEW q
    PROVE  /\ q \in Kept <=> \/ q \in lost \/ q \in ToldBy(SegmentsOf(rows))
                             \/ \E r \in Hands : q \in ToldBy(run[r].topics)
           /\ q \in Kept' <=> \/ q \in lost' \/ q \in ToldBy(SegmentsOf(rows'))
                              \/ \E r \in Hands' : q \in ToldBy(run'[r].topics)
  BY DEF Kept

LEMMA KeptGrows ==
    ASSUME NEW r \in Runs, OneRun(r), lost \subseteq lost',
           ToldBy(SegmentsOf(rows)) \subseteq Kept',
           r \in Hands => ToldBy(run[r].topics) \subseteq Kept'
    PROVE  Kept \subseteq Kept'
<1> SUFFICES ASSUME NEW q \in Kept PROVE q \in Kept'
  OBVIOUS
<1>1. CASE q \in lost
  BY <1>1, KeptIs
<1>2. CASE q \in ToldBy(SegmentsOf(rows))
  BY <1>2
<1>3. ASSUME NEW s \in Hands, q \in ToldBy(run[s].topics) PROVE q \in Kept'
  <2>1. CASE s = r
    BY <1>3, <2>1
  <2>2. CASE s # r
    <3>1. run'[s] = run[s] /\ s \in Hands'
      BY <2>2 DEF Hands, OneRun
    <3> QED
      BY <1>3, <3>1, KeptIs
  <2> QED
    BY <2>1, <2>2
<1> QED
  BY <1>1, <1>2, <1>3, KeptIs

LEMMA KeptSame ==
    ASSUME NEW r \in Runs, OneRun(r), r \notin Hands, UNCHANGED <<rows, lost>>
    PROVE  Kept \subseteq Kept'
<1>1. ToldBy(SegmentsOf(rows)) \subseteq Kept'
  BY KeptIs
<1> QED
  BY <1>1, KeptGrows

LEMMA OthersRely ==
    ASSUME NEW q \in Runs, Relies(q), run'[q] = run[q], Kept \subseteq Kept'
    PROVE  Relies(q)'
  BY DEF Relies

LEMMA Numbers ==
    /\ Plain \subseteq Nat /\ Before(0) = {}
    /\ \A n \in Nat : Before(n + 1) = UpTo(n)
    /\ \A q \in Plain : q \in Nat
<1>1. Plain \subseteq Nat
  BY MemoryAssumption
<1>2. \A q \in Plain : ~(q < 0)
  BY <1>1
<1>3. \A n \in Nat : \A q \in Plain : q < n + 1 <=> q <= n
  BY <1>1
<1> QED
  BY <1>1, <1>2, <1>3 DEF Before, UpTo

\* A run that is over relies on nothing.
LEMMA OverRelies ==
    ASSUME MemTypes, NEW r \in Runs, End(r) PROVE Relies(r)' /\ r \notin Hands'
<1>1. /\ run'[r].pc = "over" /\ ~run'[r].merges
      /\ run'[r].read = {} /\ run'[r].from = 0 /\ ~run'[r].joined
  BY EndTyped
<1> QED
  BY <1>1 DEF Relies, Hands

\* What a step owes to the messages.
KeepsOn(r) == Kept \subseteq Kept' /\ Relies(r)' /\ lastSum' = lastSum

LEMMA EarlyKeeps ==
    ASSUME MemTypes, KeptInv, NEW r \in Runs,
           MaybeExtractSummary(r) \/ SummarizeIdleSessions(r) \/ ListSessionMessages(r)
           \/ GetSession(r) \/ ListExisting(r)
    PROVE  KeepsOn(r)
<1>1. OneRun(r) /\ UNCHANGED <<rows, lost, lastSum>>
  BY EarlyTypes DEF MaybeExtractSummary, SummarizeIdleSessions, ListSessionMessages, GetSession,
                    ListExisting, Table
<1>2. r \notin Hands
  BY DEF MaybeExtractSummary, SummarizeIdleSessions, ListSessionMessages, GetSession,
         ListExisting, RunAt, Hands
<1>3. Kept \subseteq Kept'
  BY <1>1, <1>2, KeptSame
<1>4. Relies(r) /\ run[r] \in RunTypes /\ run \in [Runs -> RunTypes]
  BY DEF KeptInv, MemTypes
<1>5. Relies(r)'
  <2>0. CASE End(r)
    BY <2>0, OverRelies
  <2>1. CASE MaybeExtractSummary(r) \/ SummarizeIdleSessions(r)
    <3>1. /\ run'[r].pc = "load" /\ run'[r].merges = run[r].merges
          /\ run'[r].read = run[r].read /\ run'[r].from = run[r].from /\ run'[r].joined = run[r].joined
      BY <1>4, <2>1 DEF MaybeExtractSummary, SummarizeIdleSessions, RunTypes
    <3>2. run[r].pc = "new"
      BY <2>1 DEF MaybeExtractSummary, SummarizeIdleSessions, RunAt
    <3> QED
      BY <1>4, <3>1, <3>2 DEF Relies
  <2>2. CASE ListSessionMessages(r) /\ ~End(r)
    <3>1. /\ run'[r].pc = "session" /\ run'[r].merges = run[r].merges
          /\ run'[r].read = run[r].read /\ run'[r].from = run[r].from /\ run'[r].joined = run[r].joined
      BY <1>4, <2>2 DEF ListSessionMessages, RunTypes
    <3>2. run[r].pc = "load"
      BY <2>2 DEF ListSessionMessages, RunAt
    <3> QED
      BY <1>4, <3>1, <3>2 DEF Relies
  <2>3. CASE GetSession(r) /\ ~End(r)
    <3>1. run[r].pc = "session" /\ ~run[r].merges /\ run[r].from = 0
      BY <1>4, <2>3 DEF GetSession, RunAt, Relies
    <3>2. CASE RunTo(r, "ask")
      <4>1. /\ run'[r].pc = "ask" /\ run'[r].merges = run[r].merges
            /\ run'[r].read = run[r].read /\ run'[r].from = run[r].from /\ run'[r].joined = run[r].joined
        BY <1>4, <3>2 DEF RunTo, RunTypes
      <4> QED
        BY <1>4, <3>1, <4>1, Numbers DEF Relies
    <3>3. CASE /\ lastSum > 0
               /\ run' = [run EXCEPT ![r].pc = "existing", ![r].from = lastSum + 1, ![r].merges = TRUE]
      <4>1. run'[r].pc = "existing" /\ run'[r].merges /\ run'[r].from = lastSum + 1
        BY <1>4, <3>3 DEF RunTypes
      <4>2. UpTo(lastSum) \subseteq Kept /\ Before(lastSum + 1) = UpTo(lastSum)
        BY <3>3, Numbers DEF KeptInv, MemTypes
      <4> QED
        BY <1>3, <4>1, <4>2 DEF Relies
    <3>4. lastSum \in Nat
      BY DEF MemTypes
    <3>5. PICK last \in {lastSum, 0} :
             \/ last = 0 /\ RunTo(r, "ask")
             \/ /\ last > 0
                /\ run' = [run EXCEPT ![r].pc = "existing", ![r].from = last + 1, ![r].merges = TRUE]
      BY <2>3 DEF GetSession
    <3>6. last > 0 => last = lastSum
      BY <3>4, <3>5
    <3> QED
      BY <3>2, <3>3, <3>5, <3>6
  <2>4. CASE ListExisting(r)
    <3>1. run[r].pc = "existing" /\ run[r].merges
      BY <1>4, <2>4 DEF ListExisting, RunAt, Relies
    <3>2. CASE run' = [run EXCEPT ![r].pc = "ask", ![r].read = rows]
      <4>1. run'[r].pc = "ask" /\ run'[r].merges /\ run'[r].from = run[r].from
        BY <1>4, <3>1, <3>2 DEF RunTypes
      <4> QED
        BY <1>3, <1>4, <3>1, <4>1 DEF Relies
    <3>3. CASE run' = [run EXCEPT ![r].pc = "ask", ![r].from = 0]
      <4>1. run'[r].pc = "ask" /\ run'[r].merges /\ run'[r].from = 0
        BY <1>4, <3>1, <3>3 DEF RunTypes
      <4> QED
        BY <4>1, Numbers DEF Relies
    <3> QED
      BY <2>4, <3>2, <3>3 DEF ListExisting
  <2> QED
    BY <2>0, <2>1, <2>2, <2>3, <2>4
<1> QED
  BY <1>1, <1>3, <1>5 DEF KeepsOn

LEMMA AskKeeps ==
    ASSUME MemTypes, KeptInv, NEW r \in Runs, CallExtractTopics(r) PROVE KeepsOn(r)
<1>1. OneRun(r) /\ UNCHANGED <<rows, lost, lastSum>>
  BY AskTypes DEF CallExtractTopics, Table
<1>2. RunAt(r, "ask") /\ r \notin Hands
  BY DEF CallExtractTopics, RunAt, Hands
<1>3. Kept \subseteq Kept'
  BY <1>1, <1>2, KeptSame
<1>4. Relies(r) /\ run[r] \in RunTypes /\ run \in [Runs -> RunTypes]
  BY DEF KeptInv, MemTypes
<1>5. Relies(r)'
  <2>0. CASE End(r)
    BY <2>0, OverRelies
  <2>1. ASSUME NEW topics \in SUBSET Topics, NEW joined \in BOOLEAN,
               run' = [run EXCEPT ![r].pc = IF run[r].merges THEN "delete" ELSE "insert",
                                  ![r].topics = topics, ![r].joined = joined],
               joined => run[r].read # {},
               ~joined => /\ Window(r) \subseteq ToldBy(topics)
                          /\ ToldBy(SegmentsOf(run[r].read)) \subseteq ToldBy(topics)
        PROVE  Relies(r)'
    <3>1. /\ run'[r].pc = (IF run[r].merges THEN "delete" ELSE "insert")
          /\ run'[r].topics = topics /\ run'[r].joined = joined
          /\ run'[r].merges = run[r].merges /\ run'[r].read = run[r].read
          /\ run'[r].from = run[r].from /\ run'[r].max = run[r].max
      BY <1>4, <2>1 DEF RunTypes
    <3>2. UpTo(run[r].max) \ Before(run[r].from) \subseteq Window(r)
      <4>1. run[r].from \in Nat
        BY <1>4 DEF RunTypes
      <4>2. \A q \in Plain : ~(q < run[r].from) => run[r].from <= q
        BY <4>1, Numbers
      <4> QED
        BY <4>2 DEF UpTo, Before, Window
    <3>3. CASE run[r].merges
      BY <1>2, <1>3, <1>4, <2>1, <3>1, <3>2, <3>3 DEF Relies, RunAt
    <3>4. CASE ~run[r].merges
      <4>1. run[r].read = {} /\ run[r].from = 0
        BY <1>4, <3>4 DEF Relies
      <4>2. ~joined /\ UpTo(run[r].max) \subseteq ToldBy(topics)
        BY <2>1, <3>2, <4>1, Numbers
      <4> QED
        BY <3>1, <3>4, <4>1, <4>2 DEF Relies
    <3> QED
      BY <3>3, <3>4
  <2> QED
    BY <2>0, <2>1, AsksOne
<1> QED
  BY <1>1, <1>3, <1>5 DEF KeepsOn

LEMMA DeleteKeeps ==
    ASSUME MemTypes, KeptInv, NEW r \in Runs, DeleteBySession(r) PROVE KeepsOn(r)
<1>1. OneRun(r) /\ lastSum' = lastSum
  BY DeleteTypes DEF DeleteBySession
<1>2. run[r].pc = "delete" /\ r \notin Hands
  BY DEF DeleteBySession, RunAt, Hands
<1>3. Relies(r) /\ run[r] \in RunTypes /\ run \in [Runs -> RunTypes]
  BY DEF KeptInv, MemTypes
<1>4. CASE End(r) /\ UNCHANGED <<rows, vec, lost>>
  BY <1>1, <1>2, <1>4, KeptSame, OverRelies DEF KeepsOn
<1>5. ASSUME rows' = {}, RunTo(r, "insert"),
             lost' = lost \cup ((IF run[r].joined THEN ToldBy(SegmentsOf(rows)) \cup 0..run[r].max
                                 ELSE ToldBy(SegmentsOf(rows \ run[r].read))) \ ToldBy(run[r].topics))
      PROVE  KeepsOn(r)
  <2>1. /\ run'[r].pc = "insert" /\ run'[r].merges /\ run'[r].topics = run[r].topics
        /\ run'[r].max = run[r].max
    BY <1>2, <1>3, <1>5 DEF RunTo, RunTypes, Relies
  <2>2. r \in Hands' /\ ToldBy(run[r].topics) \subseteq Kept'
    <3>1. r \in Hands'
      BY <2>1 DEF Hands
    <3> QED
      BY <2>1, <3>1, KeptIs
  <2>3. lost \subseteq lost' /\ lost' \subseteq Kept'
    BY <1>5, KeptIs
  <2>4. CASE run[r].joined
    <3>1. \A q \in ToldBy(SegmentsOf(rows)) \cup 0..run[r].max : q \in lost' \/ q \in ToldBy(run[r].topics)
      BY <1>5, <2>4
    <3>2. ToldBy(SegmentsOf(rows)) \subseteq Kept'
      BY <2>2, <2>3, <3>1
    <3>3. Kept \subseteq Kept'
      BY <1>1, <1>2, <2>3, <3>2, KeptGrows
    <3>4. UpTo(run[r].max) \subseteq 0..run[r].max
      <4>1. run[r].max \in Nat
        BY <1>3 DEF RunTypes
      <4>2. \A q \in Plain : q <= run[r].max => q \in 0..run[r].max
        BY <4>1, Numbers
      <4> QED
        BY <4>2 DEF UpTo
    <3>5. UpTo(run[r].max) \subseteq Kept'
      BY <2>2, <2>3, <3>1, <3>4
    <3> QED
      BY <1>1, <2>1, <3>3, <3>5 DEF KeepsOn, Relies
  <2>5. CASE ~run[r].joined
    <3>1. /\ UpTo(run[r].max) \ Before(run[r].from) \subseteq ToldBy(run[r].topics)
          /\ ToldBy(SegmentsOf(run[r].read)) \subseteq ToldBy(run[r].topics)
          /\ Before(run[r].from) \subseteq Kept
      BY <1>2, <1>3, <2>5 DEF Relies
    <3>2. ToldBy(SegmentsOf(rows)) \subseteq ToldBy(SegmentsOf(rows \ run[r].read)) \cup ToldBy(SegmentsOf(run[r].read))
      BY ToldIs DEF SegmentsOf
    <3>3. ToldBy(SegmentsOf(rows)) \subseteq Kept'
      BY <1>5, <2>2, <2>3, <2>5, <3>1, <3>2
    <3>4. Kept \subseteq Kept'
      BY <1>1, <1>2, <2>3, <3>3, KeptGrows
    <3>5. UpTo(run[r].max) \subseteq Kept'
      BY <2>2, <3>1, <3>4
    <3> QED
      BY <1>1, <2>1, <3>4, <3>5 DEF KeepsOn, Relies
  <2> QED
    BY <2>4, <2>5
<1> QED
  BY <1>4, <1>5 DEF DeleteBySession

LEMMA InsertKeeps ==
    ASSUME MemTypes, KeptInv, NEW r \in Runs, InsertConversationSummary(r) PROVE KeepsOn(r)
<1>1. OneRun(r) /\ lastSum' = lastSum /\ run[r].pc = "insert"
  BY InsertTypes, InsertsOne DEF RunAt
<1>2. PICK segs \in run[r].topics : InsertsRow(r, segs) \/ PassesOver(r, segs)
  BY InsertsOne
<1>3. /\ run'[r].pc \in {"insert", "embed", "stamp"}
      /\ run'[r].pc = "stamp" => run'[r].topics = {}
      /\ run'[r].topics = run[r].topics \ {segs} /\ run'[r].merges = run[r].merges
      /\ run'[r].max = run[r].max /\ run'[r].from = run[r].from
      /\ run'[r].read = run[r].read /\ run'[r].joined = run[r].joined
  BY <1>2, InsertsOne, InsertRun
<1>4. lost \subseteq lost' /\ lost' \subseteq Kept' /\ ToldBy(SegmentsOf(rows')) \subseteq Kept'
  BY <1>2, KeptIs DEF InsertsRow, PassesOver
<1>5. Covered(segs) \subseteq Kept' /\ ToldBy(SegmentsOf(rows)) \subseteq Kept'
  <2>1. CASE PassesOver(r, segs)
    BY <1>4, <2>1 DEF PassesOver
  <2>2. CASE InsertsRow(r, segs)
    <3>0. PICK x : x.segs = segs /\ x \in rows' /\ rows \ Same(r, segs) \subseteq rows'
      <4> DEFINE x == [who |-> run[r].who, segs |-> segs, by |-> r, id |-> IdFor(r, segs)]
      <4>1. x.segs = segs
        OBVIOUS
      <4>2. x \in rows' /\ rows \ Same(r, segs) \subseteq rows'
        BY <2>2 DEF InsertsRow
      <4> HIDE DEF x
      <4> QED
        BY <4>1, <4>2
    <3>1. segs \in SegmentsOf(rows') /\ rows \ Same(r, segs) \subseteq rows'
      BY <3>0 DEF SegmentsOf
    <3>2. Covered(segs) \subseteq ToldBy(SegmentsOf(rows'))
      BY <3>1, ToldIs
    <3>3. \A q \in ToldBy(SegmentsOf(rows)) :
             q \in ToldBy(SegmentsOf(rows')) \/ q \in ToldBy(SegmentsOf(Same(r, segs)))
      BY <3>1, ToldIs DEF SegmentsOf
    <3>4. ToldBy(SegmentsOf(Same(r, segs))) \subseteq lost' \cup Covered(segs)
      BY <2>2 DEF InsertsRow
    <3> QED
      BY <1>4, <3>2, <3>3, <3>4
  <2> QED
    BY <1>2, <2>1, <2>2
<1>6. ToldBy(run[r].topics) \subseteq Kept' \cup ToldBy(run'[r].topics)
  BY <1>3, <1>5, ToldIs
<1>7. r \in Hands => ToldBy(run[r].topics) \subseteq Kept'
  <2> SUFFICES ASSUME r \in Hands PROVE ToldBy(run'[r].topics) \subseteq Kept'
    BY <1>6
  <2>1. CASE run'[r].pc = "stamp"
    BY <1>3, <2>1, ToldNone
  <2>2. CASE run'[r].pc # "stamp"
    <3>1. r \in Hands'
      BY <1>3, <2>2 DEF Hands
    <3> QED
      BY <3>1, KeptIs
  <2> QED
    BY <2>1, <2>2
<1>8. Kept \subseteq Kept'
  BY <1>1, <1>4, <1>5, <1>7, KeptGrows
<1>9. Relies(r)'
  <2>1. Relies(r)
    BY DEF KeptInv
  <2>2. UpTo(run[r].max) \subseteq Kept' \cup ToldBy(run'[r].topics)
    BY <1>1, <1>6, <1>8, <2>1 DEF Relies
  <2>3. run'[r].pc = "stamp" => UpTo(run[r].max) \subseteq Kept'
    BY <1>3, <2>2, ToldNone
  <2> QED
    BY <1>3, <2>1, <2>2, <2>3 DEF Relies
<1> QED
  BY <1>1, <1>8, <1>9 DEF KeepsOn

LEMMA EmbedKeeps ==
    ASSUME MemTypes, KeptInv, NEW r \in Runs, Embed(r) PROVE KeepsOn(r)
<1>1. OneRun(r) /\ UNCHANGED <<rows, lost, lastSum>> /\ run[r].pc = "embed" /\ NextTopic(r, run[r].topics)
  BY LateTypes DEF Embed, RunAt
<1>2. /\ run'[r].pc = (IF run[r].topics = {} THEN "stamp" ELSE "insert")
      /\ run'[r].topics = run[r].topics /\ run'[r].merges = run[r].merges
      /\ run'[r].max = run[r].max /\ run'[r].from = run[r].from
      /\ run'[r].read = run[r].read /\ run'[r].joined = run[r].joined
  BY <1>1, NextTopicTyped
<1>3. lost \subseteq lost' /\ ToldBy(SegmentsOf(rows)) \subseteq Kept'
  BY <1>1, KeptIs
<1>4. r \in Hands => ToldBy(run[r].topics) \subseteq Kept'
  <2>1. CASE run[r].topics = {}
    BY <2>1, ToldNone
  <2>2. CASE run[r].topics # {}
    <3>1. r \in Hands => r \in Hands'
      BY <1>2, <2>2 DEF Hands
    <3> QED
      BY <1>2, <3>1, KeptIs
  <2> QED
    BY <2>1, <2>2
<1>5. Kept \subseteq Kept'
  BY <1>1, <1>3, <1>4, KeptGrows
<1>6. Relies(r)'
  <2>1. Relies(r)
    BY DEF KeptInv
  <2>2. UpTo(run[r].max) \subseteq Kept' \cup ToldBy(run'[r].topics)
    BY <1>1, <1>2, <1>5, <2>1 DEF Relies
  <2>3. run'[r].pc = "stamp" => UpTo(run[r].max) \subseteq Kept'
    BY <1>2, <2>2, ToldNone
  <2> QED
    BY <1>2, <2>1, <2>2, <2>3 DEF Relies
<1> QED
  BY <1>1, <1>5, <1>6 DEF KeepsOn

LEMMA DiesKeeps ==
    ASSUME MemTypes, KeptInv, NEW r \in Runs, Dies(r) PROVE KeepsOn(r)
<1>1. OneRun(r) /\ UNCHANGED <<rows, lastSum>> /\ End(r)
  BY LateTypes DEF Dies
<1>2. lost \subseteq lost' /\ (r \in Hands => ToldBy(run[r].topics) \subseteq lost')
  BY DEF Dies, Hands
<1>3. lost' \subseteq Kept' /\ ToldBy(SegmentsOf(rows)) \subseteq Kept'
  BY <1>1, KeptIs
<1>4. Kept \subseteq Kept'
  BY <1>1, <1>2, <1>3, KeptGrows
<1> QED
  BY <1>1, <1>4, OverRelies DEF KeepsOn

LEMMA StampKeeps ==
    ASSUME MemTypes, KeptInv, NEW r \in Runs, SetLastSummarizedSeq(r)
    PROVE  /\ Kept \subseteq Kept' /\ Relies(r)'
           /\ lastSum' > 0 => UpTo(lastSum') \subseteq Kept'
<1>1. OneRun(r) /\ UNCHANGED <<rows, lost>> /\ run[r].pc = "stamp" /\ End(r)
  BY LateTypes DEF SetLastSummarizedSeq, RunAt, Table
<1>2. r \notin Hands
  BY <1>1 DEF Hands
<1>3. Kept \subseteq Kept'
  BY <1>1, <1>2, KeptSame
<1>4. UpTo(run[r].max) \subseteq Kept
  BY <1>1 DEF KeptInv, Relies
<1>5. lastSum' = run[r].max \/ lastSum' = lastSum
  BY DEF SetLastSummarizedSeq
<1> QED
  BY <1>1, <1>3, <1>4, <1>5, OverRelies DEF KeptInv

LEMMA StepKeeps ==
    ASSUME MemTypes, KeptInv, NEW r \in Runs, RunStep(r) PROVE KeptInv'
<1>1. OneRun(r)
  BY StepTypes
<1>2. Kept \subseteq Kept' /\ Relies(r)' /\ (lastSum' > 0 => UpTo(lastSum') \subseteq Kept')
  <2>1. CASE SetLastSummarizedSeq(r)
    BY <2>1, StampKeeps
  <2>2. CASE ~SetLastSummarizedSeq(r)
    <3>1. KeepsOn(r)
      BY <2>2, EarlyKeeps, AskKeeps, DeleteKeeps, InsertKeeps, EmbedKeeps, DiesKeeps DEF RunStep
    <3> QED
      BY <3>1 DEF KeepsOn, KeptInv
  <2> QED
    BY <2>1, <2>2
<1>3. ASSUME NEW q \in Runs \ {r} PROVE Relies(q)'
  BY <1>1, <1>2, OthersRely DEF OneRun, KeptInv
<1>4. \A q \in Runs : Relies(q)'
  BY <1>2, <1>3
<1> QED
  BY <1>2, <1>4 DEF KeptInv

LEMMA OtherKeeps ==
    ASSUME MemTypes, KeptInv, OtherStep PROVE KeptInv'
<1>1. UNCHANGED <<rows, lost, lastSum, run>>
  <2>1. run' = run
    BY OtherTypes
  <2>2. UNCHANGED <<rows, lost, lastSum>>
    BY DEF OtherStep, NewMessage, TimePasses, RunOnce, Reindex, VectorizeSummary, Table, summaryVars
  <2> QED
    BY <2>1, <2>2
<1> QED
  BY <1>1 DEF KeptInv, Kept, Hands, Relies
-----------------------------------------------------------------------------
(* Ids and vectors.                                                        *)

\* A step that writes no topic and no vector, and of which no run that embeds is the actor.
LEMMA VectorsQuiet ==
    ASSUME IdInv, VectorsTrue, UNCHANGED <<rows, vec, made, embeds>>, mistaken \subseteq mistaken',
           \A q \in Runs : RunAt(q, "embed") => run'[q] = run[q],
           \A q \in Runs : RunAt(q, "embed")' => embeds
    PROVE  IdInv' /\ VectorsTrue'
<1>1. IdInv'
  BY DEF IdInv
<1>2. ASSUME NEW x \in rows, NEW v \in vec, v[1] = x.id, v[2] # x.by
      PROVE  x.id \in mistaken' \/ \E q \in Runs : RunAt(q, "embed")' /\ run'[q].id = x.id
  BY <1>2 DEF VectorsTrue, Vectors, RunAt
<1> QED
  BY <1>1, <1>2 DEF VectorsTrue, Vectors

\* A vector that is put is of the words of its topic, or is named.
LEMMA PutVectors ==
    ASSUME MemTypes, IdInv, VectorsTrue, NEW id, NEW by, PutVector(id, by),
           UNCHANGED <<rows, made, embeds>>, embeds, mistaken \subseteq mistaken',
           Words(id) = {by} \/ id \in mistaken',
           \A q \in Runs : RunAt(q, "embed") /\ run[q].id # id => run'[q] = run[q]
    PROVE  IdInv' /\ VectorsTrue'
<1>1. vec' \subseteq vec \cup {<<id, by>>}
  BY DEF PutVector
<1>2. \A v \in vec' : v[1] \in Nat /\ v[1] <= made
  <2>1. CASE Words(id) = {}
    BY <2>1 DEF PutVector, IdInv
  <2>2. CASE Words(id) # {}
    <3>1. PICK x \in rows : x.id = id
      BY <2>2 DEF Words
    <3>2. id \in Nat /\ id <= made
      BY <3>1 DEF IdInv, MemTypes, SummaryRows
    <3> QED
      BY <1>1, <3>2 DEF IdInv
  <2> QED
    BY <2>1, <2>2
<1>3. IdInv'
  BY <1>2 DEF IdInv
<1>4. ASSUME NEW x \in rows, NEW v \in vec', v[1] = x.id, v[2] # x.by
      PROVE  x.id \in mistaken' \/ \E q \in Runs : RunAt(q, "embed")' /\ run'[q].id = x.id
  <2>1. CASE x.id = id
    <3>1. x.by \in Words(id)
      BY <2>1 DEF Words
    <3>2. vec' = (vec \ Vectors(id)) \cup {<<id, by>>}
      BY <3>1 DEF PutVector
    <3>3. v = <<id, by>>
      BY <1>4, <2>1, <3>2 DEF Vectors
    <3> QED
      BY <1>4, <2>1, <3>1, <3>3
  <2>2. CASE x.id # id
    <3>1. v \in vec
      BY <1>1, <1>4, <2>2
    <3> QED
      BY <1>4, <2>2, <3>1 DEF VectorsTrue, Vectors, RunAt
  <2> QED
    BY <2>1, <2>2
<1> QED
  BY <1>3, <1>4 DEF VectorsTrue, Vectors

LEMMA InsertVectors ==
    ASSUME MemTypes, IdInv, VectorsTrue, NEW r \in Runs, InsertConversationSummary(r)
    PROVE  IdInv' /\ VectorsTrue'
<1>1. /\ UNCHANGED <<vec, mistaken, embeds>> /\ RunAt(r, "insert") /\ OneRun(r)
      /\ \E segs \in run[r].topics : InsertsRow(r, segs) \/ PassesOver(r, segs)
  BY InsertsOne, InsertTypes DEF SessionStays
<1>2. PICK segs \in run[r].topics : InsertsRow(r, segs) \/ PassesOver(r, segs)
  BY <1>1
<1>3. /\ run'[r].pc = "embed" => embeds
      /\ InsertsRow(r, segs) /\ embeds => run'[r].pc = "embed" /\ run'[r].id = IdFor(r, segs)
  BY <1>1, <1>2, InsertRun
<1>4. /\ \A q \in Runs : RunAt(q, "embed") => run'[q] = run[q]
      /\ \A q \in Runs : RunAt(q, "embed")' => embeds
  BY <1>1, <1>3 DEF RunAt, OneRun, IdInv
<1>5. CASE PassesOver(r, segs)
  BY <1>1, <1>4, <1>5, VectorsQuiet DEF PassesOver
<1>6. CASE InsertsRow(r, segs)
  <2> DEFINE id  == IdFor(r, segs)
             new == [who |-> run[r].who, segs |-> segs, by |-> r, id |-> id]
  <2>1. /\ rows' = (rows \ Same(r, segs)) \cup {new}
        /\ made' = IF Same(r, segs) = {} THEN made + 1 ELSE made
    BY <1>6 DEF InsertsRow
  <2>2. new.id = id /\ made \in Nat /\ Same(r, segs) \subseteq rows
    BY DEF MemTypes, Same
  <2>3. /\ Same(r, segs) # {} => \E x \in Same(r, segs) : x.id = id
        /\ Same(r, segs) = {} => id = made + 1
    BY IdTyped
  <2>e. embeds => RunAt(r, "embed")' /\ run'[r].id = id
    BY <1>3, <1>6 DEF RunAt
  <2>n. \A x \in rows : x.id \in Nat
    BY DEF MemTypes, SummaryRows
  <2>i. id \in Nat
    BY IdTyped
  <2> HIDE DEF id, new
  <2>4. \A x \in rows \ Same(r, segs) : x.id # id
    <3>1. CASE Same(r, segs) = {}
      BY <2>2, <2>3, <2>n, <3>1 DEF IdInv
    <3>2. CASE Same(r, segs) # {}
      BY <2>2, <2>3, <3>2 DEF IdInv
    <3> QED
      BY <3>1, <3>2
  <2>5. id <= made' /\ made <= made' /\ made' \in Nat
    <3>1. CASE Same(r, segs) = {}
      BY <2>1, <2>2, <2>3, <3>1
    <3>2. CASE Same(r, segs) # {}
      BY <2>1, <2>2, <2>3, <3>2 DEF IdInv
    <3> QED
      BY <3>1, <3>2
  <2>6. \A x \in rows' : x = new \/ x \in rows \ Same(r, segs)
    BY <2>1
  <2>7. \A x, y \in rows' : x.id = y.id => x = y
    BY <2>2, <2>4, <2>6 DEF IdInv
  <2>8. \A x \in rows' : x.id <= made'
    <3>1. \A x \in rows : x.id <= made
      BY DEF IdInv
    <3> QED
      BY <2>2, <2>5, <2>6, <2>n, <3>1
  <2>9. (\A v \in vec' : v[1] \in Nat /\ v[1] <= made') /\ (Same(r, segs) = {} => \A v \in vec : v[1] # id)
    <3>1. CASE Same(r, segs) = {}
      <4>1. \A n \in Nat : n <= made => n <= made + 1 /\ n # made + 1
        BY <2>2
      <4>2. made' = made + 1 /\ id = made + 1
        BY <2>1, <2>3, <3>1
      <4> QED
        BY <1>1, <4>1, <4>2 DEF IdInv
    <3>2. CASE Same(r, segs) # {}
      BY <1>1, <2>1, <3>2 DEF IdInv
    <3> QED
      BY <3>1, <3>2
  <2>10. IdInv'
    <3>1. (~embeds => vec = {})' /\ (\A q \in Runs : RunAt(q, "embed") => embeds)'
      BY <1>1, <1>4 DEF IdInv
    <3> QED
      BY <2>7, <2>8, <2>9, <3>1 DEF IdInv
  <2>11. ASSUME NEW x \in rows', NEW v \in vec, v[1] = x.id, v[2] # x.by
         PROVE  x.id \in mistaken' \/ \E q \in Runs : RunAt(q, "embed")' /\ run'[q].id = x.id
    <3>1. CASE x = new
      <4>1. Same(r, segs) # {}
        BY <2>2, <2>9, <2>11, <3>1
      <4>2. embeds
        BY <2>11 DEF IdInv
      <4> QED
        BY <2>2, <2>e, <3>1, <4>2
    <3>2. CASE x \in rows
      <4>1. x.id \in mistaken \/ \E q \in Runs : RunAt(q, "embed") /\ run[q].id = x.id
        BY <2>11, <3>2 DEF VectorsTrue, Vectors
      <4> QED
        BY <1>1, <1>4, <4>1 DEF RunAt
    <3> QED
      BY <2>6, <3>1, <3>2
  <2> QED
    BY <1>1, <2>10, <2>11 DEF VectorsTrue, Vectors
<1> QED
  BY <1>2, <1>5, <1>6

LEMMA StepVectors ==
    ASSUME MemTypes, IdInv, VectorsTrue, NEW r \in Runs, RunStep(r) PROVE IdInv' /\ VectorsTrue'
<1>1. OneRun(r) /\ run' \in [Runs -> RunTypes]
  BY StepTypes DEF MemTypes
<1>2. \A q \in Runs : q # r /\ RunAt(q, "embed") => run'[q] = run[q]
  BY <1>1 DEF OneRun
<1>3. \A q \in Runs : q # r /\ RunAt(q, "embed")' => embeds
  BY <1>1 DEF OneRun, RunAt, IdInv
<1>4. ASSUME End(r) PROVE ~RunAt(r, "embed")'
  BY <1>4, EndTyped DEF RunAt
<1>5. CASE MaybeExtractSummary(r) \/ SummarizeIdleSessions(r) \/ ListSessionMessages(r)
           \/ GetSession(r) \/ ListExisting(r) \/ CallExtractTopics(r) \/ SetLastSummarizedSeq(r)
  <2>1. UNCHANGED <<rows, vec, made, embeds, mistaken>> /\ ~RunAt(r, "embed")
    BY <1>5 DEF MaybeExtractSummary, SummarizeIdleSessions, ListSessionMessages, GetSession,
                ListExisting, CallExtractTopics, SetLastSummarizedSeq, SessionStays, Table, RunAt
  <2>2. ~RunAt(r, "embed")'
    <3>1. CASE End(r)
      BY <1>4, <3>1
    <3>2. CASE CallExtractTopics(r) /\ ~End(r)
      <4>1. PICK topics \in SUBSET Topics, joined \in BOOLEAN :
               run' = [run EXCEPT ![r].pc = IF run[r].merges THEN "delete" ELSE "insert",
                                  ![r].topics = topics, ![r].joined = joined]
        BY <3>2, AsksOne
      <4> QED
        BY <4>1 DEF MemTypes, RunTypes, RunAt
    <3>3. CASE ~CallExtractTopics(r) /\ ~End(r)
      BY <1>5, <3>3 DEF MaybeExtractSummary, SummarizeIdleSessions, ListSessionMessages, GetSession,
                ListExisting, SetLastSummarizedSeq, RunAt, RunTo, MemTypes, RunTypes
    <3> QED
      BY <3>1, <3>2, <3>3
  <2> QED
    BY <1>2, <1>3, <2>1, <2>2, VectorsQuiet
<1>6. CASE DeleteBySession(r)
  <2>1. ~RunAt(r, "embed")' /\ ~RunAt(r, "embed")
    <3>1. CASE End(r)
      BY <1>4, <1>6, <3>1 DEF DeleteBySession, RunAt
    <3>2. CASE ~End(r)
      BY <1>6, <3>2 DEF DeleteBySession, RunAt, RunTo, MemTypes, RunTypes
    <3> QED
      BY <3>1, <3>2
  <2>2. CASE rows' = {} /\ vec' = {}
    BY <1>3, <1>6, <2>1, <2>2 DEF DeleteBySession, SessionStays, IdInv, VectorsTrue
  <2>3. CASE UNCHANGED <<rows, vec>>
    BY <1>2, <1>3, <1>6, <2>1, <2>3, VectorsQuiet DEF DeleteBySession, SessionStays
  <2> QED
    BY <1>6, <2>2, <2>3 DEF DeleteBySession
<1>7. CASE InsertConversationSummary(r)
  BY <1>7, InsertVectors
<1>8. CASE Embed(r)
  <2>1. /\ UNCHANGED <<rows, made, embeds>> /\ embeds /\ NextTopic(r, run[r].topics)
        /\ run[r].id \in Nat
    BY <1>8 DEF Embed, SessionStays, IdInv, MemTypes, RunTypes
  <2>2. ~RunAt(r, "embed")'
    BY <2>1, NextTopicTyped DEF RunAt
  <2>3. CASE /\ PutVector(run[r].id, r)
             /\ mistaken' = IF Words(run[r].id) = {r} THEN mistaken ELSE mistaken \cup {run[r].id}
    <3>1. mistaken \subseteq mistaken' /\ (Words(run[r].id) = {r} \/ run[r].id \in mistaken')
      BY <2>3
    <3>2. \A q \in Runs : RunAt(q, "embed") /\ run[q].id # run[r].id => run'[q] = run[q]
      BY <1>2
    <3> QED
      BY <2>1, <2>3, <3>1, <3>2, PutVectors
  <2>4. CASE mistaken' = mistaken \cup {run[r].id} /\ UNCHANGED vec
    <3>1. IdInv'
      BY <1>3, <2>1, <2>2, <2>4 DEF IdInv
    <3>2. ASSUME NEW x \in rows, NEW v \in vec, v[1] = x.id, v[2] # x.by
          PROVE  x.id \in mistaken' \/ \E q \in Runs : RunAt(q, "embed")' /\ run'[q].id = x.id
      <4>1. x.id \in mistaken \/ \E q \in Runs : RunAt(q, "embed") /\ run[q].id = x.id
        BY <3>2 DEF VectorsTrue, Vectors
      <4> QED
        BY <1>2, <2>4, <4>1 DEF RunAt
    <3> QED
      BY <2>1, <2>4, <3>1, <3>2 DEF VectorsTrue, Vectors
  <2> QED
    BY <1>8, <2>3, <2>4 DEF Embed
<1>9. CASE Dies(r)
  <2>1. UNCHANGED <<rows, vec, made, embeds>> /\ End(r) /\ ~RunAt(r, "embed")'
    BY <1>4, <1>9 DEF Dies, SessionStays
  <2>2. mistaken \subseteq mistaken' /\ (RunAt(r, "embed") => run[r].id \in mistaken')
    BY <1>9 DEF Dies
  <2>3. IdInv'
    BY <1>3, <2>1 DEF IdInv
  <2>4. ASSUME NEW x \in rows, NEW v \in vec, v[1] = x.id, v[2] # x.by
        PROVE  x.id \in mistaken' \/ \E q \in Runs : RunAt(q, "embed")' /\ run'[q].id = x.id
    <3>1. x.id \in mistaken \/ \E q \in Runs : RunAt(q, "embed") /\ run[q].id = x.id
      BY <2>4 DEF VectorsTrue, Vectors
    <3> QED
      BY <1>2, <2>2, <3>1 DEF RunAt
  <2> QED
    BY <2>1, <2>3, <2>4 DEF VectorsTrue, Vectors
<1> QED
  BY <1>5, <1>6, <1>7, <1>8, <1>9 DEF RunStep

\* A pass of the indexer is one that an embedder is configured for.
LEMMA OtherVectors ==
    ASSUME MemTypes, IdInv, VectorsTrue, OtherStep, fill # {} => embeds
    PROVE  IdInv' /\ VectorsTrue' /\ (fill # {} => embeds)'
<1>1. run' = run /\ UNCHANGED <<rows, made, embeds>>
  <2>1. UNCHANGED <<rows, made, embeds>>
    BY DEF OtherStep, NewMessage, TimePasses, RunOnce, Reindex, VectorizeSummary, SessionStays, Table, summaryVars
  <2> QED
    BY <2>1, OtherTypes
<1>2. (fill # {} => embeds)'
  BY <1>1 DEF OtherStep, NewMessage, TimePasses, RunOnce, Reindex, VectorizeSummary, summaryVars
<1>r. \A q \in Runs : RunAt(q, "embed")' => embeds
  BY <1>1 DEF RunAt, IdInv
<1>3. CASE UNCHANGED <<vec, mistaken>>
  <2>1. \A q \in Runs : RunAt(q, "embed") => run'[q] = run[q]
    BY <1>1
  <2>2. mistaken \subseteq mistaken' /\ UNCHANGED <<rows, vec, made, embeds>>
    BY <1>1, <1>3
  <2> QED
    BY <1>2, <1>r, <2>1, <2>2, VectorsQuiet
<1>4. CASE vec' = {}
  <2>1. IdInv'
    BY <1>1, <1>r, <1>4 DEF IdInv
  <2> QED
    BY <1>2, <1>4, <2>1 DEF VectorsTrue, Vectors
<1>5. ASSUME NEW x \in fill, PutVector(x.id, x.by),
             mistaken' = IF Words(x.id) = {x.by} THEN mistaken ELSE mistaken \cup {x.id}
      PROVE  IdInv' /\ VectorsTrue'
  <2>1. mistaken \subseteq mistaken' /\ (Words(x.id) = {x.by} \/ x.id \in mistaken')
    BY <1>5
  <2> QED
    BY <1>1, <1>5, <2>1, PutVectors
<1>6. \/ UNCHANGED <<vec, mistaken>> \/ vec' = {}
      \/ \E x \in fill : /\ PutVector(x.id, x.by)
                         /\ mistaken' = IF Words(x.id) = {x.by} THEN mistaken ELSE mistaken \cup {x.id}
  BY DEF OtherStep, NewMessage, TimePasses, RunOnce, Reindex, VectorizeSummary, Table, summaryVars
<1> QED
  BY <1>2, <1>3, <1>4, <1>5, <1>6
-----------------------------------------------------------------------------
LEMMA MemInvInit == ASSUME MemoryInit PROVE MemInv
<1>1. MemTypes
  BY FreshTyped DEF MemoryInit, MemTypes
<1>2. \A r \in Runs : run[r] = Fresh
  BY DEF MemoryInit
<1>3. KeptInv
  BY <1>2 DEF MemoryInit, KeptInv, Relies, Fresh
<1>4. IdInv /\ VectorsTrue /\ (fill # {} => embeds)
  BY <1>2 DEF MemoryInit, IdInv, VectorsTrue, Vectors, RunAt, Fresh
<1> QED
  BY <1>1, <1>3, <1>4 DEF MemInv

LEMMA MemInvNext == ASSUME MemInv, [MemoryNext]_summaryVars PROVE MemInv'
<1>1. CASE OtherStep
  BY <1>1, OtherTypes, OtherKeeps, OtherVectors DEF MemInv
<1>2. ASSUME NEW r \in Runs, RunStep(r) PROVE MemInv'
  <2>1. UNCHANGED <<fill, embeds>>
    BY <1>2 DEF RunStep, MaybeExtractSummary, SummarizeIdleSessions, ListSessionMessages, GetSession,
                ListExisting, CallExtractTopics, DeleteBySession, InsertConversationSummary, Embed,
                SetLastSummarizedSeq, Dies, SessionStays
  <2> QED
    BY <1>2, <2>1, StepTypes, StepKeeps, StepVectors DEF MemInv
<1> QED
  BY <1>1, <1>2, MemSteps

\* When nothing is in hand, what is kept is told of.
LEMMA InvRemembers == ASSUME MemInv PROVE MemoryKept
<1>1. Remembered
  <2> SUFFICES ASSUME lastSum > 0, Hands = {}, NEW q \in Plain, q <= lastSum, q \notin lost
               PROVE  q \in ToldBy(SegmentsOf(rows))
    BY DEF Remembered, Hands
  <2>1. q \in Kept
    BY DEF MemInv, KeptInv, UpTo
  <2> QED
    BY <2>1, KeptIs
<1> QED
  BY <1>1 DEF MemInv, MemoryKept

\* What counts as summarized is told of by a topic, but for the seqs that runs of
\* the same session, a failure or an answer against the prompt have spoilt, and a
\* topic is found by the vector of its own words (agent/summary_extract.go).
THEOREM MemoryKeptHolds == MemorySpec => []MemoryKept
<1>1. MemoryInit => MemInv
  BY MemInvInit
<1>2. MemInv /\ [MemoryNext]_summaryVars => MemInv'
  BY MemInvNext
<1>3. MemInv => MemoryKept
  BY InvRemembers
<1> QED
  BY <1>1, <1>2, <1>3, PTL DEF MemorySpec
=============================================================================
